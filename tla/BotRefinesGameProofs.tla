------------------------- MODULE BotRefinesGameProofs -------------------------
(***************************************************************************)
(* With one worker and no failures every step of Bot is a step of Game or a  *)
(* stutter, under the mapping of BotRefinesGame.                             *)
(***************************************************************************)
EXTENDS BotRefinesGame, BotSerialProofs

-------------------------------------------------------------------------------
(* What is left to do, added up.                                            *)

(* A course of the tables through the statements of todo. *)
Course(f, d, todo) ==
    f = [i \in 0 .. Len(todo) |-> IF i = 0 THEN d ELSE ApplyAll(f[i - 1], todo[i])]

LEMMA CourseIsUnique ==
    ASSUME NEW T, NEW todo \in Seq(T), NEW d, NEW f, NEW g, Course(f, d, todo), Course(g, d, todo)
    PROVE  f = g
<1> DEFINE bad == {i \in 0 .. Len(todo) : f[i] # g[i]}
<1>1. Len(todo) \in Nat
    OBVIOUS
<1>2. /\ DOMAIN f = 0 .. Len(todo) /\ DOMAIN g = 0 .. Len(todo)
      /\ f = [i \in DOMAIN f |-> f[i]] /\ g = [i \in DOMAIN g |-> g[i]]
      /\ \A i \in 0 .. Len(todo) : /\ f[i] = IF i = 0 THEN d ELSE ApplyAll(f[i - 1], todo[i])
                                   /\ g[i] = IF i = 0 THEN d ELSE ApplyAll(g[i - 1], todo[i])
    BY DEF Course
<1>3. bad = {}
    <2> SUFFICES ASSUME bad # {} PROVE FALSE
        OBVIOUS
    <2>1. bad \subseteq Nat
        BY <1>1
    <2>2. Min(bad) \in bad /\ \A i \in bad : Min(bad) =< i
        BY <2>1, MinOfNaturals
    <2> DEFINE m == Min(bad)
    <2> HIDE DEF m
    <2>3. m \in 0 .. Len(todo) /\ f[m] # g[m]
        BY <2>2 DEF m
    <2>4. m # 0
        BY <1>2, <2>3
    <2>5. m - 1 \in 0 .. Len(todo) /\ ~(m =< m - 1)
        BY <1>1, <2>3, <2>4
    <2>6. f[m - 1] = g[m - 1]
        BY <2>2, <2>5 DEF m
    <2> QED
        BY <1>2, <2>3, <2>4, <2>6
<1> QED
    BY <1>2, <1>3

LEMMA CourseEnds ==
    ASSUME NEW T, NEW todo \in Seq(T), NEW d, NEW f, Course(f, d, todo)
    PROVE  After(d, todo) = f[Len(todo)]
<1> DEFINE after[i \in 0 .. Len(todo)] ==
               IF i = 0 THEN d ELSE ApplyAll(after[i - 1], todo[i])
<1>1. after = CHOOSE h : Course(h, d, todo)
    BY DEF Course
<1> HIDE DEF after
<1>2. Course(after, d, todo)
    BY <1>1
<1>3. after = f
    BY <1>2, CourseIsUnique
<1>4. After(d, todo) = after[Len(todo)]
    BY DEF After, after
<1> QED
    BY <1>3, <1>4

LEMMA CourseExists ==
    ASSUME NEW T, NEW todo \in Seq(T), NEW d
    PROVE  \E f : Course(f, d, todo)
<1> DEFINE Upto(n, f) ==
               f = [i \in 0 .. n |-> IF i = 0 THEN d ELSE ApplyAll(f[i - 1], todo[i])]
           bad == {n \in 0 .. Len(todo) : ~ \E f : Upto(n, f)}
<1>1. Len(todo) \in Nat
    OBVIOUS
<1>2. bad = {}
    <2> SUFFICES ASSUME bad # {} PROVE FALSE
        OBVIOUS
    <2> DEFINE m == Min(bad)
    <2>0. bad \subseteq Nat
        BY <1>1
    <2> HIDE DEF bad
    <2>1. m \in bad /\ \A i \in bad : m =< i
        BY <2>0, MinOfNaturals
    <2> HIDE DEF m
    <2> USE DEF bad
    <2>2. m \in 0 .. Len(todo) /\ ~ \E f : Upto(m, f)
        BY <2>1
    <2>3. CASE m = 0
        <3> DEFINE f == [i \in 0 .. 0 |-> d]
        <3>1. Upto(0, f)
            OBVIOUS
        <3> HIDE DEF f, Upto
        <3> QED
            BY <2>2, <2>3, <3>1
    <2>4. CASE m # 0
        <3>1. m - 1 \in 0 .. Len(todo) /\ ~(m =< m - 1) /\ m \in Nat
            BY <1>1, <2>2, <2>4
        <3>2. PICK f : Upto(m - 1, f)
            BY <2>1, <3>1
        <3> DEFINE g == [i \in 0 .. m |-> IF i = m THEN ApplyAll(f[m - 1], todo[m]) ELSE f[i]]
        <3>3. \A i \in 0 .. m - 1 :
                 f[i] = IF i = 0 THEN d ELSE ApplyAll(f[i - 1], todo[i])
            BY <3>2
        <3>4. \A i \in 0 .. m : g[i] = IF i = 0 THEN d ELSE ApplyAll(g[i - 1], todo[i])
            <4> SUFFICES ASSUME NEW i \in 0 .. m
                         PROVE  g[i] = IF i = 0 THEN d ELSE ApplyAll(g[i - 1], todo[i])
                OBVIOUS
            <4>1. i # 0 => i - 1 \in 0 .. m - 1 /\ i - 1 \in 0 .. m /\ i - 1 # m
                BY <3>1
            <4>2. i # m => i \in 0 .. m - 1
                BY <3>1
            <4> QED
                BY <2>4, <3>3, <4>1, <4>2
        <3>5. Upto(m, g)
            <4>1. g = [i \in 0 .. m |-> g[i]]
                OBVIOUS
            <4> HIDE DEF g
            <4> QED
                BY <3>4, <4>1
        <3> HIDE DEF g, Upto
        <3> QED
            BY <2>2, <3>5
    <2> QED
        BY <2>3, <2>4
<1>3. Len(todo) \in 0 .. Len(todo)
    BY <1>1
<1>4. \E f : Upto(Len(todo), f)
    BY <1>2, <1>3
<1> QED
    BY <1>4 DEF Course

LEMMA AfterNothing == \A d : After(d, <<>>) = d
<1> SUFFICES ASSUME NEW d PROVE After(d, <<>>) = d
    OBVIOUS
<1>1. <<>> \in Seq(Nat) /\ Len(<<>>) = 0
    OBVIOUS
<1>2. PICK f : Course(f, d, <<>>)
    BY <1>1, CourseExists
<1>3. f[0] = d
    BY <1>1, <1>2 DEF Course
<1> QED
    BY <1>1, <1>2, <1>3, CourseEnds

LEMMA AfterFirst ==
    ASSUME NEW T, NEW todo \in Seq(T), todo # <<>>, NEW d
    PROVE  After(d, todo) = After(ApplyAll(d, Head(todo)), Tail(todo))
<1> DEFINE n == Len(todo)
           rest == Tail(todo)
           e == ApplyAll(d, Head(todo))
<1>1. /\ n \in Nat /\ n >= 1 /\ Head(todo) = todo[1]
      /\ rest \in Seq(T) /\ Len(rest) = n - 1
      /\ \A i \in 1 .. n - 1 : rest[i] = todo[i + 1]
    OBVIOUS
<1>2. PICK f : Course(f, d, todo)
    BY CourseExists
<1> DEFINE g == [i \in 0 .. n - 1 |-> f[i + 1]]
<1> HIDE DEF rest, n
<1>3. \A i \in 0 .. n : f[i] = IF i = 0 THEN d ELSE ApplyAll(f[i - 1], todo[i])
    BY <1>2 DEF Course, n
<1>4. f[1] = e /\ f[0] = d
    <2>1. 0 \in 0 .. n /\ 1 \in 0 .. n /\ 1 - 1 = 0
        BY <1>1
    <2> QED
        BY <1>1, <1>3, <2>1
<1>5. \A i \in 0 .. n - 1 : g[i] = IF i = 0 THEN e ELSE ApplyAll(g[i - 1], rest[i])
    <2> SUFFICES ASSUME NEW i \in 0 .. n - 1, i # 0
                 PROVE  g[i] = ApplyAll(g[i - 1], rest[i])
        BY <1>4
    <2>1. i + 1 \in 0 .. n /\ i + 1 # 0 /\ i + 1 - 1 = i /\ i - 1 \in 0 .. n - 1 /\ i - 1 + 1 = i
          /\ i \in 1 .. n - 1
        BY <1>1
    <2> QED
        BY <1>1, <1>3, <2>1
<1>6. Course(g, e, rest)
    <2>1. g = [i \in 0 .. n - 1 |-> g[i]]
        OBVIOUS
    <2> HIDE DEF g, e
    <2> QED
        BY <1>1, <1>5, <2>1 DEF Course
<1>7. After(d, todo) = f[n]
    BY <1>2, CourseEnds DEF n
<1>8. After(e, rest) = g[n - 1]
    <2> HIDE DEF g, e
    <2> QED
        BY <1>1, <1>6, CourseEnds
<1>9. g[n - 1] = f[n]
    BY <1>1
<1> QED
    BY <1>7, <1>8, <1>9 DEF rest

-------------------------------------------------------------------------------
(* The inductive invariant.                                                 *)

Said(c, todo) == c \cup Range(todo)

ScoresIn(said) == {m \in said : m.op = "scores"}

(* The last game is the only one that runs, it has no prompts while its users *)
(* gather, and scores are of games that are over.                             *)
Tidy(d, scores) ==
    /\ \A g \in Running(d) : /\ g = Len(d.game)
                             /\ d.game[g].state = "gather_users" => TokensOf(d, g) = {}
    /\ \A m \in scores : m.game \in GameIds(d) /\ d.game[m.game].state = "end"

(* The vote that ends game g: accepted, and the last one that is needed. *)
LastVote(d, g, t, votes) ==
    \E u \in Users : \E pair \in PairsOf(d, g) :
        /\ VoteAccepted(u, t, pair, AnswersOf(d, g), VotesOf(d, g))
        /\ votes = VotesOf(d, g) \cup {[user |-> u, token |-> t]}
        /\ AllVotesAreIn(AnswersOf(d, g), votes)

(* What the worker has read is what the tables hold. *)
UpToDate(d, x) ==
    /\ x.pc \in {"begin", "draw"} =>
          Len(d.answer) + 2 * Cardinality(UsersOf(d, x.game)) =< MaxAnswers
    /\ x.pc = "draw" =>
          x.order \in Bijection(1 .. Cardinality(UsersOf(d, x.game)), UsersOf(d, x.game))
    /\ x.pc \in {"votes", "pair"} => x.answers = AnswersOf(d, x.game)
    /\ x.pc = "pair" => x.votes = VotesOf(d, x.game)
    /\ x.pc = "over" => LastVote(d, x.game, x.token, x.votes)

(* The final scores that were sent or are still to be sent. *)
Announced == ScoresIn(Said(chat, Rest))

RInv ==
    /\ Tidy(Settled, Announced)
    /\ Len(Settled.game) = Len(db.game)
    /\ \A w \in Workers : UpToDate(db, worker[w])

-------------------------------------------------------------------------------
(* What the statements of a handler add up to.                              *)

LEMMA MessagesApplied == \A d, s : IsMessage(s) => ApplyAll(d, s) = d
<1> SUFFICES ASSUME NEW d, NEW s, IsMessage(s) PROVE ApplyAll(d, s) = d
    OBVIOUS
<1>1. s.op \in {"buttons", "results", "scores"}
    BY DEF IsMessage
<1>2. ApplyAll(d, s) = Apply(d, s)
    BY <1>1 DEF ApplyAll
<1>3. Apply(d, s) = d
    BY <1>1 DEF Apply, IsMessage
<1> QED
    BY <1>2, <1>3

LEMMA AfterFew ==
    ASSUME NEW d, NEW a, NEW b, NEW c
    PROVE  /\ After(d, <<a>>) = ApplyAll(d, a)
           /\ After(d, <<a, b>>) = ApplyAll(ApplyAll(d, a), b)
           /\ After(d, <<a, b, c>>) = ApplyAll(ApplyAll(ApplyAll(d, a), b), c)
<1> DEFINE T == {a, b, c}
<1>1. a \in T /\ b \in T /\ c \in T
    OBVIOUS
<1> HIDE DEF T
<1>2. \A e : After(e, <<c>>) = ApplyAll(e, c) /\ After(e, <<b>>) = ApplyAll(e, b)
                /\ After(e, <<a>>) = ApplyAll(e, a)
    <2>1. /\ <<c>> \in Seq(T) /\ <<c>> # <<>> /\ Head(<<c>>) = c /\ Tail(<<c>>) = <<>>
          /\ <<b>> \in Seq(T) /\ <<b>> # <<>> /\ Head(<<b>>) = b /\ Tail(<<b>>) = <<>>
          /\ <<a>> \in Seq(T) /\ <<a>> # <<>> /\ Head(<<a>>) = a /\ Tail(<<a>>) = <<>>
        BY <1>1
    <2> SUFFICES ASSUME NEW e
                 PROVE  After(e, <<c>>) = ApplyAll(e, c) /\ After(e, <<b>>) = ApplyAll(e, b)
                           /\ After(e, <<a>>) = ApplyAll(e, a)
        OBVIOUS
    <2>2. After(e, <<c>>) = ApplyAll(e, c)
        BY <2>1, AfterFirst, AfterNothing
    <2>3. After(e, <<b>>) = ApplyAll(e, b)
        BY <2>1, AfterFirst, AfterNothing
    <2>4. After(e, <<a>>) = ApplyAll(e, a)
        BY <2>1, AfterFirst, AfterNothing
    <2> QED
        BY <2>2, <2>3, <2>4
<1>3. \A e : After(e, <<a, b>>) = ApplyAll(ApplyAll(e, a), b)
                /\ After(e, <<b, c>>) = ApplyAll(ApplyAll(e, b), c)
    <2>1. /\ <<a, b>> \in Seq(T) /\ <<a, b>> # <<>>
          /\ Head(<<a, b>>) = a /\ Tail(<<a, b>>) = <<b>>
          /\ <<b, c>> \in Seq(T) /\ <<b, c>> # <<>>
          /\ Head(<<b, c>>) = b /\ Tail(<<b, c>>) = <<c>>
        BY <1>1
    <2> SUFFICES ASSUME NEW e
                 PROVE  After(e, <<a, b>>) = ApplyAll(ApplyAll(e, a), b)
                           /\ After(e, <<b, c>>) = ApplyAll(ApplyAll(e, b), c)
        OBVIOUS
    <2>2. After(e, <<a, b>>) = After(ApplyAll(e, a), <<b>>)
        BY <2>1, AfterFirst
    <2>3. After(e, <<b, c>>) = After(ApplyAll(e, b), <<c>>)
        BY <2>1, AfterFirst
    <2> QED
        BY <1>2, <2>2, <2>3
<1>4. After(d, <<a, b, c>>) = After(ApplyAll(d, a), <<b, c>>)
    <2>1. /\ <<a, b, c>> \in Seq(T) /\ <<a, b, c>> # <<>>
          /\ Head(<<a, b, c>>) = a /\ Tail(<<a, b, c>>) = <<b, c>>
        BY <1>1
    <2> QED
        BY <2>1, AfterFirst
<1> QED
    BY <1>2, <1>3, <1>4

LEMMA AfterOne == \A d, a : After(d, <<a>>) = ApplyAll(d, a)
BY AfterFew

LEMMA AfterTwo == \A d, a, b : After(d, <<a, b>>) = ApplyAll(ApplyAll(d, a), b)
<1> SUFFICES ASSUME NEW d, NEW a, NEW b PROVE After(d, <<a, b>>) = ApplyAll(ApplyAll(d, a), b)
    OBVIOUS
<1>1. /\ After(d, <<a>>) = ApplyAll(d, a)
      /\ After(d, <<a, b>>) = ApplyAll(ApplyAll(d, a), b)
      /\ After(d, <<a, b, b>>) = ApplyAll(ApplyAll(ApplyAll(d, a), b), b)
    BY AfterFew
<1> QED
    BY <1>1

LEMMA AfterThree ==
    \A d, a, b, c : After(d, <<a, b, c>>) = ApplyAll(ApplyAll(ApplyAll(d, a), b), c)
<1> SUFFICES ASSUME NEW d, NEW a, NEW b, NEW c
             PROVE  After(d, <<a, b, c>>) = ApplyAll(ApplyAll(ApplyAll(d, a), b), c)
    OBVIOUS
<1>1. /\ After(d, <<a>>) = ApplyAll(d, a)
      /\ After(d, <<a, b>>) = ApplyAll(ApplyAll(d, a), b)
      /\ After(d, <<a, b, c>>) = ApplyAll(ApplyAll(ApplyAll(d, a), b), c)
    BY AfterFew
<1> QED
    BY <1>1

(* Messages that go out first change nothing in the tables. *)
LEMMA AfterMessages ==
    ASSUME NEW T, NEW p \in Seq(T), NEW m \in Seq(T), NEW d,
           \A i \in DOMAIN p : IsMessage(p[i])
    PROVE  After(d, p \o m) = After(d, m)
<1> DEFINE todo == p \o m
           k == Len(p)
           n == Len(m)
<1>1. k \in Nat /\ n \in Nat /\ todo \in Seq(T) /\ Len(todo) = k + n
    OBVIOUS
<1>2. \A i \in 1 .. k + n :
          /\ i =< k => i \in DOMAIN p /\ todo[i] = p[i]
          /\ ~(i =< k) => i - k \in 1 .. n /\ todo[i] = m[i - k]
    OBVIOUS
<1>3. PICK g : Course(g, d, m)
    BY CourseExists
<1> DEFINE f == [i \in 0 .. k + n |-> IF i =< k THEN d ELSE g[i - k]]
<1> HIDE DEF k, n, todo
<1>4. \A i \in 0 .. n : g[i] = IF i = 0 THEN d ELSE ApplyAll(g[i - 1], m[i])
    BY <1>3 DEF Course, n
<1>5. g[0] = d
    BY <1>1, <1>4
<1>6. \A i \in 0 .. k + n : f[i] = IF i = 0 THEN d ELSE ApplyAll(f[i - 1], todo[i])
    <2> SUFFICES ASSUME NEW i \in 0 .. k + n, i # 0
                 PROVE  f[i] = ApplyAll(f[i - 1], todo[i])
        BY <1>1
    <2>1. i \in 1 .. k + n /\ i - 1 \in 0 .. k + n
        BY <1>1
    <2>2. CASE i =< k
        <3>1. f[i] = d /\ f[i - 1] = d
            BY <1>1, <2>1, <2>2
        <3>2. IsMessage(todo[i])
            BY <1>2, <2>1, <2>2
        <3> QED
            BY <3>1, <3>2, MessagesApplied
    <2>3. CASE ~(i =< k)
        <3>1. f[i - 1] = g[i - k - 1]
            <4>1. CASE i - 1 =< k
                <5>1. i - k - 1 = 0
                    BY <1>1, <2>3, <4>1
                <5> QED
                    BY <1>5, <2>1, <4>1, <5>1
            <4>2. CASE ~(i - 1 =< k)
                <5>1. i - 1 - k = i - k - 1
                    BY <1>1
                <5> QED
                    BY <2>1, <4>2, <5>1
            <4> QED
                BY <4>1, <4>2
        <3>2. f[i] = g[i - k]
            BY <2>3
        <3>3. i - k \in 0 .. n /\ i - k # 0
            BY <1>1, <2>3
        <3>4. g[i - k] = ApplyAll(g[i - k - 1], m[i - k])
            BY <1>4, <3>3
        <3>5. todo[i] = m[i - k]
            BY <1>2, <2>1, <2>3
        <3> QED
            BY <3>1, <3>2, <3>4, <3>5
    <2> QED
        BY <2>2, <2>3
<1>7. Course(f, d, todo)
    <2>1. f = [i \in 0 .. k + n |-> f[i]]
        OBVIOUS
    <2> HIDE DEF f
    <2> QED
        BY <1>1, <1>6, <2>1 DEF Course
<1>8. After(d, todo) = f[k + n]
    <2> HIDE DEF f
    <2> QED
        BY <1>1, <1>7, CourseEnds
<1>9. After(d, m) = g[n]
    BY <1>3, CourseEnds DEF n
<1>10. f[k + n] = g[n]
    <2>1. CASE n = 0
        BY <1>1, <1>5, <2>1
    <2>2. CASE n # 0
        BY <1>1, <2>2
    <2> QED
        BY <2>1, <2>2
<1> QED
    BY <1>8, <1>9, <1>10 DEF todo

(* The INSERTs of a deal. *)
Inserted(d, todo) ==
    [t \in 1 .. Len(d.answer) + Len(todo) |->
        IF t =< Len(d.answer) THEN d.answer[t] ELSE todo[t - Len(d.answer)].row]

LEMMA AfterInserts ==
    ASSUME NEW T, NEW d, d = [game |-> d.game, game_user |-> d.game_user,
                              answer |-> d.answer, vote |-> d.vote],
           d.answer \in Seq(T),
           NEW U, NEW todo \in Seq(U),
           \A i \in DOMAIN todo : todo[i] = InsertAnswer(todo[i].row) /\ todo[i].row \in T
    PROVE  After(d, todo) =
               [game |-> d.game, game_user |-> d.game_user,
                answer |-> Inserted(d, todo), vote |-> d.vote]
<1> DEFINE n == Len(todo)
           k == Len(d.answer)
           rows(i) == [t \in 1 .. k + i |->
                          IF t =< k THEN d.answer[t] ELSE todo[t - k].row]
           e(i) == [game |-> d.game, game_user |-> d.game_user, answer |-> rows(i),
                    vote |-> d.vote]
           f == [i \in 0 .. n |-> e(i)]
<1>1. n \in Nat /\ k \in Nat /\ DOMAIN todo = 1 .. n
      /\ d.answer = [t \in 1 .. k |-> d.answer[t]] /\ \A t \in 1 .. k : d.answer[t] \in T
    OBVIOUS
<1> HIDE DEF n, k
<1>2. e(0) = d
    <2>1. rows(0) = d.answer
        BY <1>1
    <2> HIDE DEF rows
    <2> QED
        BY <2>1
<1>3. ASSUME NEW i \in 1 .. n PROVE e(i) = ApplyAll(e(i - 1), todo[i])
    <2>1. ApplyAll(e(i - 1), todo[i]) = Apply(e(i - 1), InsertAnswer(todo[i].row))
        BY <1>1 DEF ApplyAll, InsertAnswer
    <2>2. Apply(e(i - 1), InsertAnswer(todo[i].row)) =
              [game |-> d.game, game_user |-> d.game_user,
               answer |-> Append(rows(i - 1), todo[i].row), vote |-> d.vote]
        <3> HIDE DEF rows
        <3> QED
            BY DEF Apply, InsertAnswer, IsMessage
    <2>3. Append(rows(i - 1), todo[i].row) = rows(i)
        <3> DEFINE v(t) == IF t =< k THEN d.answer[t] ELSE todo[t - k].row
                   m == k + (i - 1)
        <3>1. m \in Nat /\ m + 1 = k + i
            BY <1>1
        <3>2. \A t \in 1 .. m + 1 : v(t) \in T
            <4> SUFFICES ASSUME NEW t \in 1 .. m + 1 PROVE v(t) \in T
                OBVIOUS
            <4>1. t =< k => t \in 1 .. k
                BY <1>1
            <4>2. ~(t =< k) => t - k \in 1 .. n
                BY <1>1, <3>1
            <4> QED
                BY <1>1, <4>1, <4>2
        <3>3. v(m + 1) = todo[i].row
            <4>1. ~(m + 1 =< k) /\ m + 1 - k = i
                BY <1>1
            <4> HIDE DEF m
            <4>2. v(m + 1) = todo[m + 1 - k].row
                BY <1>1, <3>1, <4>1
            <4> QED
                BY <4>1, <4>2
        <3>4. rows(i - 1) = [t \in 1 .. m |-> v(t)] /\ rows(i) = [t \in 1 .. m + 1 |-> v(t)]
            BY <3>1
        <3> HIDE DEF v, m, rows
        <3>5. [t \in 1 .. m |-> v(t)] \in Seq(T)
            BY <3>1, <3>2
        <3>6. Append([t \in 1 .. m |-> v(t)], v(m + 1)) = [t \in 1 .. m + 1 |-> v(t)]
            <4> DEFINE q == [t \in 1 .. m |-> v(t)]
            <4>1. q \in Seq(T) /\ Len(q) = m /\ \A t \in 1 .. m : q[t] = v(t)
                BY <3>1, <3>5
            <4> HIDE DEF q
            <4>2. /\ Append(q, v(m + 1)) \in Seq(T \cup {v(m + 1)})
                  /\ Len(Append(q, v(m + 1))) = m + 1
                  /\ \A t \in 1 .. m + 1 : Append(q, v(m + 1))[t] = v(t)
                BY <3>1, <4>1
            <4>3. Append(q, v(m + 1)) = [t \in 1 .. m + 1 |-> v(t)]
                BY <3>1, <4>2
            <4> QED
                BY <4>3 DEF q
        <3> QED
            BY <3>3, <3>4, <3>6
    <2> QED
        BY <2>1, <2>2, <2>3
<1>4. \A i \in 0 .. n : f[i] = IF i = 0 THEN d ELSE ApplyAll(f[i - 1], todo[i])
    <2> HIDE DEF e
    <2> SUFFICES ASSUME NEW i \in 0 .. n PROVE f[i] = IF i = 0 THEN d ELSE ApplyAll(f[i - 1], todo[i])
        OBVIOUS
    <2>1. i # 0 => i \in 1 .. n /\ i - 1 \in 0 .. n
        BY <1>1
    <2> QED
        BY <1>2, <1>3, <2>1
<1>5. Course(f, d, todo)
    <2>1. f = [i \in 0 .. n |-> f[i]]
        OBVIOUS
    <2> HIDE DEF f
    <2> QED
        BY <1>4, <2>1 DEF Course, n
<1>6. After(d, todo) = f[n]
    <2> HIDE DEF f
    <2> QED
        BY <1>5, CourseEnds DEF n
<1>7. f[n] = e(n)
    BY <1>1
<1>8. rows(n) = Inserted(d, todo)
    BY DEF Inserted, n, k
<1> QED
    BY <1>6, <1>7, <1>8

(* All the UPDATEs of UpdateAnswers at once. *)
Updated(d, rows) ==
    [t \in DOMAIN d.answer |->
        IF t \in DOMAIN rows THEN [d.answer[t] EXCEPT !.response = rows[t]] ELSE d.answer[t]]

LEMMA AllUpdated ==
    ASSUME NEW d, TablesOK(d), NEW rows
    PROVE  ApplyAll(d, UpdateAnswers(rows)) =
               [game |-> d.game, game_user |-> d.game_user, answer |-> Updated(d, rows),
                vote |-> d.vote]
<1> DEFINE s == UpdateAnswers(rows)
           all == [t \in DOMAIN d.answer |->
                     [d.answer[t] EXCEPT !.response = IF t \in DOMAIN rows THEN rows[t] ELSE @]]
<1>1. s.op = "update_answers" /\ s.rows = rows
    BY DEF UpdateAnswers
<1>2. ApplyAll(d, s) = [d EXCEPT !.answer = all]
    BY <1>1 DEF ApplyAll
<1>3. all = Updated(d, rows)
    <2> SUFFICES ASSUME NEW t \in DOMAIN d.answer, t \notin DOMAIN rows
                 PROVE  [d.answer[t] EXCEPT !.response = d.answer[t].response] = d.answer[t]
        BY DEF Updated
    <2>1. d.answer[t] \in Row(d)
        BY DEF TablesOK
    <2> QED
        BY <2>1 DEF Row
<1> HIDE DEF all, s
<1>4. d = [game |-> d.game, game_user |-> d.game_user, answer |-> d.answer, vote |-> d.vote]
    BY DEF TablesOK
<1> QED
    BY <1>2, <1>3, <1>4 DEF s

(* The first UPDATE and then the others are all of them. *)
LEMMA UpdatedByOne ==
    ASSUME NEW d, TablesOK(d), NEW rows \in Updates(d),
           NEW others, others = DOMAIN rows \ {Min(DOMAIN rows)}
    PROVE  LET e == Apply(d, UpdateAnswers(rows))
               all == ApplyAll(d, UpdateAnswers(rows))
           IN  /\ others = {} => e = all
               /\ ApplyAll(e, UpdateAnswers(Restrict(rows, others))) = all
<1> DEFINE m == Min(DOMAIN rows)
           rest == Restrict(rows, others)
           e == Apply(d, UpdateAnswers(rows))
           row == [d.answer[m] EXCEPT !.response = rows[m]]
<1>1. DOMAIN rows \subseteq DOMAIN d.answer /\ m \in DOMAIN rows
    BY FirstRow
<1>2. e = [game |-> d.game, game_user |-> d.game_user,
           answer |-> [d.answer EXCEPT ![m] = row], vote |-> d.vote]
    BY Applied
<1>3. TablesOK(e)
    BY UpdateAnswersOK
<1>4. /\ e.game = d.game /\ e.game_user = d.game_user /\ e.vote = d.vote
      /\ e.answer = [d.answer EXCEPT ![m] = row]
    <2> HIDE DEF e, row, m
    <2> QED
        BY <1>2
<1>5. d.answer = [t \in DOMAIN d.answer |-> d.answer[t]]
    BY DEF TablesOK
<1>6. DOMAIN rest = others /\ \A t \in others : rest[t] = rows[t]
    BY DEF Restrict
<1>7. ApplyAll(e, UpdateAnswers(rest)) =
          [game |-> e.game, game_user |-> e.game_user, answer |-> Updated(e, rest), vote |-> e.vote]
    <2> HIDE DEF e, rest
    <2> QED
        BY <1>3, AllUpdated
<1>8. ApplyAll(d, UpdateAnswers(rows)) =
          [game |-> d.game, game_user |-> d.game_user, answer |-> Updated(d, rows), vote |-> d.vote]
    BY AllUpdated
<1>9. Updated(e, rest) = Updated(d, rows)
    <2>1. DOMAIN e.answer = DOMAIN d.answer
        BY <1>4, <1>5
    <2>2. ASSUME NEW t \in DOMAIN d.answer
          PROVE  (IF t \in others THEN [e.answer[t] EXCEPT !.response = rest[t]]
                  ELSE e.answer[t])
                 = (IF t \in DOMAIN rows THEN [d.answer[t] EXCEPT !.response = rows[t]]
                    ELSE d.answer[t])
        <3> HIDE DEF e, rest
        <3>1. CASE t = m
            <4>1. t \notin others /\ t \in DOMAIN rows /\ e.answer[t] = row
                BY <1>1, <1>4, <1>5, <3>1
            <4> QED
                BY <3>1, <4>1
        <3>2. CASE t # m
            <4>1. e.answer[t] = d.answer[t] /\ (t \in others <=> t \in DOMAIN rows)
                BY <1>4, <1>5, <3>2
            <4> QED
                BY <1>6, <4>1
        <3> QED
            BY <3>1, <3>2
    <2> HIDE DEF e, rest
    <2> QED
        BY <1>6, <2>1, <2>2 DEF Updated
<1>10. others = {} => e.answer = Updated(d, rows)
    <2> SUFFICES ASSUME others = {} PROVE e.answer = Updated(d, rows)
        OBVIOUS
    <2>1. \A t \in DOMAIN d.answer : t \in DOMAIN rows <=> t = m
        BY <1>1
    <2> HIDE DEF e, m
    <2>2. \A t \in DOMAIN d.answer : e.answer[t] =
              IF t \in DOMAIN rows THEN [d.answer[t] EXCEPT !.response = rows[t]] ELSE d.answer[t]
        BY <1>4, <1>5, <2>1
    <2>3. e.answer = [t \in DOMAIN d.answer |-> e.answer[t]]
        BY <1>4, <1>5
    <2> QED
        BY <2>2, <2>3 DEF Updated
<1>11. e = [game |-> e.game, game_user |-> e.game_user, answer |-> e.answer, vote |-> e.vote]
    BY <1>3 DEF TablesOK
<1> HIDE DEF e, rest
<1> QED
    BY <1>4, <1>7, <1>8, <1>9, <1>10, <1>11 DEF e, rest

LEMMA Updating ==
    ASSUME NEW d, NEW s \in Statements(d), s.op = "update_answers"
    PROVE  s.rows \in Updates(d) /\ s = UpdateAnswers(s.rows)
<1>1. \/ \E g, u : s = InsertUser(g, u)
      \/ \E g, st : s = SetState(g, st)
      \/ \E g, q : s = SetVoting(g, q)
      \/ \E row : s = InsertAnswer(row)
      \/ \E f \in Updates(d) : s = UpdateAnswers(f)
      \/ \E v : s = InsertVote(v)
      \/ \E g, q : s = Buttons(g, q)
      \/ \E g, q, vs : s = Results(g, q, vs)
      \/ \E g, vs : s = Scores(g, vs)
    BY DEF Statements
<1>2. \E f \in Updates(d) : s = UpdateAnswers(f)
    BY <1>1 DEF InsertUser, SetState, SetVoting, InsertAnswer, InsertVote,
        Buttons, Results, Scores
<1> QED
    BY <1>2 DEF UpdateAnswers

(* A statement executed takes nothing away from what they add up to. *)
LEMMA AfterLeft ==
    ASSUME NEW d, TablesOK(d), NEW todo \in Seq(Statements(d)), todo # <<>>
    PROVE  After(Apply(d, Head(todo)), Left(todo)) = After(d, todo)
<1> DEFINE T == Statements(d)
           s == Head(todo)
           e == Apply(d, s)
<1>1. s \in T /\ Tail(todo) \in Seq(T)
    OBVIOUS
<1>2. After(d, todo) = After(ApplyAll(d, s), Tail(todo))
    BY AfterFirst
<1>3. CASE s.op # "update_answers"
    <2>1. Left(todo) = Tail(todo)
        BY <1>3 DEF Left
    <2>2. ApplyAll(d, s) = e
        BY <1>3 DEF ApplyAll
    <2> QED
        BY <1>2, <2>1, <2>2
<1>4. CASE s.op = "update_answers"
    <2> DEFINE rows == s.rows
               others == DOMAIN rows \ {Min(DOMAIN rows)}
               more == UpdateAnswers(Restrict(rows, others))
    <2>1. rows \in Updates(d) /\ s = UpdateAnswers(rows)
        BY <1>1, <1>4, Updating
    <2>2. (others = {} => e = ApplyAll(d, s)) /\ ApplyAll(e, more) = ApplyAll(d, s)
        <3> HIDE DEF rows
        <3> QED
            BY <2>1, UpdatedByOne
    <2>3. CASE others = {}
        <3>1. Left(todo) = Tail(todo)
            BY <2>3 DEF Left
        <3> QED
            BY <1>2, <2>2, <2>3, <3>1
    <2>4. CASE others # {}
        <3>1. Left(todo) = <<more>> \o Tail(todo)
            BY <1>4, <2>4 DEF Left
        <3> DEFINE rest == Tail(todo)
                   U == T \cup {more}
                   left == <<more>> \o rest
        <3> HIDE DEF more, T, s, e, rest
        <3>2. rest \in Seq(U) /\ more \in U
            BY <1>1 DEF rest
        <3> HIDE DEF U
        <3>3. left \in Seq(U) /\ left # <<>> /\ Head(left) = more /\ Tail(left) = rest
            BY <3>2
        <3> HIDE DEF left
        <3>4. After(e, left) = After(ApplyAll(e, more), rest)
            BY <3>3, AfterFirst
        <3> QED
            BY <1>2, <2>2, <3>1, <3>4 DEF left, rest, e, s
    <2> QED
        BY <2>3, <2>4
<1> QED
    BY <1>3, <1>4

-------------------------------------------------------------------------------
(* The abstract state, from the tables as they will be and the final scores. *)

PhaseAt(d) == IF Len(d.game) = 0 THEN "end" ELSE d.game[Len(d.game)].state
CurrentAt(d) == IF Len(d.game) = 0 THEN NoQuestion ELSE d.game[Len(d.game)].question
VotesAt(d, scores) ==
    IF Len(d.game) = 0 THEN {}
    ELSE IF PhaseAt(d) = "end" THEN UNION {m.votes : m \in {s \in scores : s.game = Len(d.game)}}
    ELSE VotesOf(d, Len(d.game))

LEMMA Mapped ==
    Len(Settled.game) = Len(db.game) =>
        /\ phaseOf = PhaseAt(Settled)
        /\ currentOf = CurrentAt(Settled)
        /\ UsersOf(Settled, LastGame) = UsersOf(Settled, Len(Settled.game))
        /\ AnswersOf(Settled, LastGame) = AnswersOf(Settled, Len(Settled.game))
        /\ votesOf = VotesAt(Settled, Announced)
<1> SUFFICES ASSUME Len(Settled.game) = Len(db.game)
             PROVE  /\ phaseOf = PhaseAt(Settled)
                    /\ currentOf = CurrentAt(Settled)
                    /\ UsersOf(Settled, LastGame) = UsersOf(Settled, Len(Settled.game))
                    /\ AnswersOf(Settled, LastGame) = AnswersOf(Settled, Len(Settled.game))
                    /\ votesOf = VotesAt(Settled, Announced)
    OBVIOUS
<1>1. LastGame = Len(Settled.game)
    BY DEF LastGame
<1>2. phaseOf = PhaseAt(Settled) /\ currentOf = CurrentAt(Settled)
    BY <1>1 DEF phaseOf, currentOf, PhaseAt, CurrentAt
<1>3. ASSUME NEW g PROVE {s \in chat \cup {Rest[i] : i \in DOMAIN Rest} : s.op = "scores" /\ s.game = g}
                          = {s \in Announced : s.game = g}
    BY DEF Announced, ScoresIn, Said, Range
<1>4. \A g : ScoredVotes(g) = UNION {m.votes : m \in {s \in Announced : s.game = g}}
    BY <1>3 DEF ScoredVotes
<1>5. votesOf = VotesAt(Settled, Announced)
    BY <1>1, <1>2, <1>4 DEF votesOf, VotesAt
<1> QED
    BY <1>1, <1>2, <1>5

LEMMA MappedNext ==
    Len(Settled'.game) = Len(db'.game) =>
        /\ phaseOf' = PhaseAt(Settled')
        /\ currentOf' = CurrentAt(Settled')
        /\ UsersOf(Settled, LastGame)' = UsersOf(Settled', Len(Settled'.game))
        /\ AnswersOf(Settled, LastGame)' = AnswersOf(Settled', Len(Settled'.game))
        /\ votesOf' = VotesAt(Settled', Announced')
<1>1. (Len(Settled.game) = Len(db.game) =>
        /\ phaseOf = PhaseAt(Settled)
        /\ currentOf = CurrentAt(Settled)
        /\ UsersOf(Settled, LastGame) = UsersOf(Settled, Len(Settled.game))
        /\ AnswersOf(Settled, LastGame) = AnswersOf(Settled, Len(Settled.game))
        /\ votesOf = VotesAt(Settled, Announced))'
    BY Mapped, PTL
<1> QED
    BY <1>1

LEMMA OneRest ==
    ASSUME SingleWorker, NEW w \in Workers
    PROVE  /\ Rest = IF worker[w].pc = "run" THEN worker[w].todo ELSE <<>>
           /\ Rest' = IF worker'[w].pc = "run" THEN worker'[w].todo ELSE <<>>
<1>1. Rest = IF worker[w].pc = "run" THEN worker[w].todo ELSE <<>>
    <2>1. CASE worker[w].pc = "run"
        <3>1. Busy = {w}
            BY <2>1 DEF Busy, SingleWorker
        <3>2. (CHOOSE v \in Busy : TRUE) = w
            BY <3>1
        <3> QED
            BY <2>1, <3>1, <3>2 DEF Rest
    <2>2. CASE worker[w].pc # "run"
        <3>1. Busy = {}
            BY <2>2 DEF Busy, SingleWorker
        <3> QED
            BY <2>2, <3>1 DEF Rest
    <2> QED
        BY <2>1, <2>2
<1>2. Rest' = IF worker'[w].pc = "run" THEN worker'[w].todo ELSE <<>>
    <2>1. CASE worker'[w].pc = "run"
        <3>1. Busy' = {w}
            BY <2>1 DEF Busy, SingleWorker
        <3>2. (CHOOSE v \in Busy' : TRUE) = w
            BY <3>1
        <3> QED
            BY <2>1, <3>1, <3>2 DEF Rest
    <2>2. CASE worker'[w].pc # "run"
        <3>1. Busy' = {}
            BY <2>2 DEF Busy, SingleWorker
        <3> QED
            BY <2>2, <3>1 DEF Rest
    <2> QED
        BY <2>1, <2>2
<1> QED
    BY <1>1, <1>2

(* The same tables and scores in the end: nothing has happened yet. *)
LEMMA Stutters ==
    ASSUME Len(Settled.game) = Len(db.game), Len(Settled'.game) = Len(db'.game),
           Settled' = Settled, Announced' = Announced
    PROVE  UNCHANGED Abstract!vars
BY Mapped, MappedNext DEF Abstract!vars

(* What the worker does, as it shows in the tables to come. *)
LEMMA WorkerGoesOn ==
    ASSUME SingleWorker, IInv, NEW w \in Workers, NEW x, GoOn(w, x)
    PROVE  /\ worker'[w] = x
           /\ Rest' = IF x.pc = "run" THEN x.todo ELSE <<>>
           /\ \A v \in Workers : v = w
<1>1. worker'[w] = x
    BY DEF GoOn, IInv
<1> QED
    BY <1>1, OneRest DEF SingleWorker

LEMMA NothingLeft ==
    ASSUME SingleWorker, NEW w \in Workers, worker[w].pc # "run"
    PROVE  Settled = db /\ Announced = ScoresIn(chat)
<1>1. Rest = <<>>
    BY OneRest
<1>2. Settled = db
    BY <1>1, AfterNothing DEF Settled
<1>3. Said(chat, <<>>) = chat
    BY DEF Said, Range
<1> QED
    BY <1>1, <1>2, <1>3 DEF Announced

(* A step that only reads. *)
LEMMA ReadRefines ==
    ASSUME SingleWorker, IInv, RInv, NEW w \in Workers, worker[w].pc # "run",
           NEW x, x.pc # "run", GoOn(w, x), UNCHANGED <<db, chat, failures>>, UpToDate(db, x)
    PROVE  RInv' /\ UNCHANGED Abstract!vars
<1>1. Rest = <<>> /\ Rest' = <<>> /\ worker'[w] = x /\ \A v \in Workers : v = w
    BY OneRest, WorkerGoesOn
<1>2. Settled' = Settled /\ Announced' = Announced /\ db' = db
    BY <1>1 DEF Settled, Announced
<1>3. RInv'
    BY <1>1, <1>2 DEF RInv
<1> QED
    BY <1>2, <1>3, Stutters DEF RInv

(* A step after which the worker has statements to execute. *)
LEMMA StartRefines ==
    ASSUME SingleWorker, IInv, RInv, NEW w \in Workers, NEW todo, GoOn(w, Run(todo)),
           Len(After(db', todo).game) = Len(db'.game),
           Tidy(After(db', todo), ScoresIn(Said(chat', todo)))
    PROVE  /\ RInv'
           /\ Settled' = After(db', todo)
           /\ Announced' = ScoresIn(Said(chat', todo))
<1>1. Rest' = todo /\ worker'[w] = Run(todo) /\ \A v \in Workers : v = w
    BY WorkerGoesOn DEF Run
<1>2. Settled' = After(db', todo) /\ Announced' = ScoresIn(Said(chat', todo))
    BY <1>1 DEF Settled, Announced
<1>3. UpToDate(db', Run(todo))
    BY DEF UpToDate, Run
<1> QED
    BY <1>1, <1>2, <1>3 DEF RInv

LEMMA LeftScores ==
    ASSUME NEW T, NEW todo \in Seq(T), todo # <<>>, NEW c
    PROVE  ScoresIn(Said(IF IsMessage(Head(todo)) THEN c \cup {Head(todo)} ELSE c, Left(todo)))
               = ScoresIn(Said(c, todo))
<1> DEFINE s == Head(todo)
           rest == Tail(todo)
           all(q) == {q[i] : i \in DOMAIN q}
           more == UpdateAnswers(Restrict(s.rows, DOMAIN s.rows \ {Min(DOMAIN s.rows)}))
           now == IF IsMessage(s) THEN c \cup {s} ELSE c
<1>1. all(todo) = {s} \cup all(rest) /\ rest \in Seq(T)
    <2>1. /\ rest \in Seq(T) /\ Len(todo) \in Nat /\ Len(todo) >= 1 /\ todo[1] = s
          /\ DOMAIN rest = 1 .. Len(todo) - 1 /\ DOMAIN todo = 1 .. Len(todo)
          /\ \A i \in 1 .. Len(todo) - 1 : rest[i] = todo[i + 1]
        OBVIOUS
    <2> HIDE DEF rest, s
    <2>2. ASSUME NEW y \in all(todo) PROVE y \in {s} \cup all(rest)
        <3>1. PICK i \in 1 .. Len(todo) : y = todo[i]
            BY <2>1, <2>2
        <3>2. CASE i = 1
            BY <2>1, <3>1, <3>2
        <3>3. CASE i # 1
            <4>1. i - 1 \in 1 .. Len(todo) - 1 /\ i - 1 + 1 = i
                BY <2>1, <3>3
            <4>2. rest[i - 1] = y /\ i - 1 \in DOMAIN rest
                BY <2>1, <3>1, <4>1
            <4> QED
                BY <4>2
        <3> QED
            BY <3>2, <3>3
    <2>3. ASSUME NEW y \in all(rest) PROVE y \in all(todo)
        <3>1. PICK i \in 1 .. Len(todo) - 1 : y = rest[i]
            BY <2>1, <2>3
        <3>2. i + 1 \in DOMAIN todo /\ todo[i + 1] = y
            BY <2>1, <3>1
        <3> QED
            BY <3>2
    <2>4. s \in all(todo)
        <3>1. 1 \in DOMAIN todo
            BY <2>1
        <3> QED
            BY <2>1, <3>1
    <2> QED
        BY <2>1, <2>2, <2>3, <2>4
<1>2. s.op = "scores" => IsMessage(s)
    BY DEF IsMessage
<1>3. more.op # "scores"
    BY DEF UpdateAnswers
<1>4. all(Left(todo)) = all(rest) \/ all(Left(todo)) = {more} \cup all(rest)
    <2>1. CASE Left(todo) = rest
        BY <2>1
    <2>2. CASE Left(todo) = <<more>> \o rest
        <3> DEFINE U == T \cup {more}
                   left == <<more>> \o rest
        <3> HIDE DEF more, rest
        <3>1. rest \in Seq(U) /\ more \in U
            BY <1>1
        <3> HIDE DEF U
        <3>2. /\ left \in Seq(U) /\ Len(left) = Len(rest) + 1 /\ left[1] = more
              /\ \A i \in 1 .. Len(rest) : left[i + 1] = rest[i]
              /\ Len(rest) \in Nat /\ DOMAIN rest = 1 .. Len(rest)
              /\ DOMAIN left = 1 .. Len(rest) + 1
            BY <3>1
        <3> HIDE DEF left
        <3>3. ASSUME NEW y \in all(left) PROVE y \in {more} \cup all(rest)
            <4>1. PICK i \in 1 .. Len(rest) + 1 : y = left[i]
                BY <3>2, <3>3
            <4>2. CASE i = 1
                BY <3>2, <4>1, <4>2
            <4>3. CASE i # 1
                <5>1. i - 1 \in 1 .. Len(rest) /\ i - 1 + 1 = i
                    BY <3>2, <4>3
                <5>2. rest[i - 1] = y /\ i - 1 \in DOMAIN rest
                    BY <3>2, <4>1, <5>1
                <5> QED
                    BY <5>2
            <4> QED
                BY <4>2, <4>3
        <3>4. ASSUME NEW y \in all(rest) PROVE y \in all(left)
            <4>1. PICK i \in 1 .. Len(rest) : y = rest[i]
                BY <3>2, <3>4
            <4>2. i + 1 \in DOMAIN left /\ left[i + 1] = y
                BY <3>2, <4>1
            <4> QED
                BY <4>2
        <3>5. more \in all(left)
            <4>1. 1 \in DOMAIN left
                BY <3>2
            <4> QED
                BY <3>2, <4>1
        <3>6. all(left) = {more} \cup all(rest)
            BY <3>3, <3>4, <3>5
        <3> QED
            BY <2>2, <3>6 DEF left
    <2>3. Left(todo) = rest \/ Left(todo) = <<more>> \o rest
        BY DEF Left
    <2> QED
        BY <2>1, <2>2, <2>3
<1> HIDE DEF s, rest, more
<1>5. Said(now, Left(todo)) = now \cup all(Left(todo)) /\ Said(c, todo) = c \cup all(todo)
    BY DEF Said, Range
<1> HIDE DEF all
<1>6. ASSUME NEW m, m.op = "scores"
      PROVE  m \in now \cup all(Left(todo)) <=> m \in c \cup all(todo)
    <2>1. m # more /\ (m = s => IsMessage(s))
        BY <1>2, <1>3, <1>6
    <2>2. m \in all(Left(todo)) <=> m \in all(rest)
        BY <1>4, <2>1
    <2>3. m \in now <=> m \in c \/ (m = s /\ IsMessage(s))
        OBVIOUS
    <2> QED
        BY <1>1, <2>1, <2>2, <2>3
<1>7. ScoresIn(Said(now, Left(todo))) = ScoresIn(Said(c, todo))
    BY <1>5, <1>6 DEF ScoresIn
<1> QED
    BY <1>7 DEF s

(* A statement of a handler: the handler happened as a whole before. *)
LEMMA ExecuteRefines ==
    ASSUME SingleWorker, IInv, SInv, RInv, NEW w \in Workers, Execute(w)
    PROVE  RInv' /\ UNCHANGED Abstract!vars
<1> DEFINE todo == worker[w].todo
           x == IF Left(todo) = <<>> THEN Idle ELSE Run(Left(todo))
<1>1. /\ TablesOK(db) /\ todo \in Seq(Statements(db)) /\ todo # <<>>
      /\ worker[w].pc = "run" /\ db' = Apply(db, Head(todo)) /\ GoOn(w, x)
      /\ chat' = IF IsMessage(Head(todo)) THEN chat \cup {Head(todo)} ELSE chat
    BY DEF Execute, IInv, WorkerOK
<1>2. x.pc \in {"idle", "run"} /\ Left(todo) = IF x.pc = "run" THEN x.todo ELSE <<>>
    BY DEF Idle, Run
<1>3. Rest = todo /\ Rest' = Left(todo) /\ worker'[w] = x /\ \A v \in Workers : v = w
    BY <1>1, <1>2, OneRest, WorkerGoesOn
<1> HIDE DEF todo, x
<1>4. Settled' = Settled
    BY <1>1, <1>3, AfterLeft DEF Settled
<1>5. Announced' = Announced
    BY <1>1, <1>3, LeftScores DEF Announced
<1>6. Len(db'.game) = Len(db.game)
    <2>1. GameIds(db') = GameIds(db)
        BY ExecuteEffect DEF Effect, MovesOn
    <2>2. TablesOK(db')
        BY <1>1, LeftOK, ApplyOK
    <2>3. db.game \in Seq(GameRow) /\ db'.game \in Seq(GameRow)
        BY <1>1, <2>2 DEF TablesOK
    <2> QED
        BY <2>1, <2>3 DEF GameIds
<1>7. UpToDate(db', x)
    BY <1>2 DEF UpToDate
<1>8. RInv'
    BY <1>3, <1>4, <1>5, <1>6, <1>7 DEF RInv
<1> QED
    BY <1>4, <1>5, <1>6, <1>8, Stutters DEF RInv

-------------------------------------------------------------------------------
(* Requests, and the SELECTs that follow them.                              *)

LEMMA ReceiveRefines ==
    ASSUME SingleWorker, IInv, RInv, NEW w \in Workers, Receive(w), ~FindEnd(w)
    PROVE  RInv' /\ UNCHANGED Abstract!vars
<1> DEFINE Fine == RInv' /\ UNCHANGED Abstract!vars
<1>1. ASSUME NEW u \in Users, FindNew(w, u) PROVE Fine
    <2> DEFINE x == [pc |-> "create", user |-> u]
    <2>1. GoOn(w, x) /\ worker[w].pc # "run" /\ UNCHANGED <<db, chat, failures>>
        BY <1>1 DEF FindNew
    <2>2. x.pc # "run" /\ UpToDate(db, x)
        BY DEF UpToDate
    <2> HIDE DEF x
    <2> QED
        BY <2>1, <2>2, ReadRefines
<1>2. ASSUME NEW g \in Running(db), NEW kind, NEW states, Find(w, kind, g, states), NEW x,
             GoOn(w, x), x.pc \in {"join", "post", "vote", "status"}
      PROVE  Fine
    <2>1. worker[w].pc # "run" /\ UNCHANGED <<db, chat, failures>>
        BY <1>2 DEF Find
    <2>2. x.pc # "run" /\ UpToDate(db, x)
        BY <1>2 DEF UpToDate
    <2> QED
        BY <1>2, <2>1, <2>2, ReadRefines
<1>3. ASSUME FindBegin(w) PROVE Fine
    <2> DEFINE x(g) == [pc |-> "begin", game |-> g]
    <2>1. PICK g \in Running(db) : /\ Find(w, "begin", g, {"gather_users"})
                                   /\ Len(db.answer) + 2 * Cardinality(UsersOf(db, g)) =< MaxAnswers
                                   /\ GoOn(w, x(g))
        BY <1>3 DEF FindBegin
    <2>2. worker[w].pc # "run" /\ UNCHANGED <<db, chat, failures>>
        BY <2>1 DEF Find
    <2>3. x(g).pc # "run" /\ UpToDate(db, x(g))
        BY <2>1 DEF UpToDate
    <2> HIDE DEF x
    <2> QED
        BY <2>1, <2>2, <2>3, ReadRefines
<1> HIDE DEF Fine
<1>4. ASSUME NEW u \in Users, FindJoin(w, u) PROVE Fine
    BY <1>2, <1>4 DEF FindJoin
<1>5. ASSUME NEW t \in DOMAIN db.answer, NEW r \in Responses, FindPost(w, t, r) PROVE Fine
    BY <1>2, <1>5 DEF FindPost
<1>6. ASSUME NEW u \in Users, NEW t \in DOMAIN db.answer, FindVote(w, u, t) PROVE Fine
    BY <1>2, <1>6 DEF FindVote
<1>7. ASSUME FindStatus(w) PROVE Fine
    BY <1>2, <1>7 DEF FindStatus
<1>8. Fine
    BY <1>1, <1>3, <1>4, <1>5, <1>6, <1>7 DEF Receive
<1> QED
    BY <1>8 DEF Fine

LEMMA SelectRefines ==
    ASSUME SingleWorker, IInv, RInv, NEW w \in Workers,
           BeginUsers(w) \/ VoteAnswers(w) \/ VoteVotes(w)
    PROVE  RInv' /\ UNCHANGED Abstract!vars
<1> DEFINE x == worker[w]
<1>1. worker[w].pc # "run" /\ UNCHANGED <<db, chat, failures>> /\ UpToDate(db, x)
    BY DEF BeginUsers, VoteAnswers, VoteVotes, RInv
<1>2. CASE BeginUsers(w)
    <2> DEFINE players == UsersOf(db, x.game)
               y(order) == [pc |-> "draw", game |-> x.game, order |-> order]
    <2>1. PICK order \in Bijection(1 .. Cardinality(players), players) : GoOn(w, y(order))
        BY <1>2 DEF BeginUsers
    <2>2. x.pc = "begin"
        BY <1>2 DEF BeginUsers
    <2>3. UpToDate(db, y(order)) /\ y(order).pc # "run"
        BY <1>1, <2>1, <2>2 DEF UpToDate
    <2> HIDE DEF y
    <2> QED
        BY <1>1, <2>1, <2>3, ReadRefines
<1>3. CASE VoteAnswers(w)
    <2> DEFINE y == [pc |-> "votes", game |-> x.game, user |-> x.user, token |-> x.token,
                     answers |-> AnswersOf(db, x.game)]
    <2>1. GoOn(w, y)
        BY <1>3 DEF VoteAnswers
    <2>2. UpToDate(db, y) /\ y.pc # "run"
        BY DEF UpToDate
    <2> HIDE DEF y
    <2> QED
        BY <1>1, <2>1, <2>2, ReadRefines
<1>4. CASE VoteVotes(w)
    <2> DEFINE y == [pc |-> "pair", game |-> x.game, user |-> x.user, token |-> x.token,
                     answers |-> x.answers, votes |-> VotesOf(db, x.game)]
    <2>1. GoOn(w, y) /\ x.pc = "votes"
        BY <1>4 DEF VoteVotes
    <2>2. UpToDate(db, y) /\ y.pc # "run"
        BY <1>1, <2>1 DEF UpToDate
    <2> HIDE DEF y
    <2> QED
        BY <1>1, <2>1, <2>2, ReadRefines
<1> QED
    BY <1>2, <1>3, <1>4

-------------------------------------------------------------------------------
(* The handlers that change something: each is an action of Game.            *)

LEMMA SameTables ==
    ASSUME NEW d, NEW e
    PROVE  /\ e.game_user = d.game_user => \A g : UsersOf(e, g) = UsersOf(d, g)
           /\ e.answer = d.answer => /\ \A g : TokensOf(e, g) = TokensOf(d, g)
                                     /\ \A g : AnswersOf(e, g) = AnswersOf(d, g)
                                     /\ e.vote = d.vote => \A g : VotesOf(e, g) = VotesOf(d, g)
BY DEF UsersOf, TokensOf, AnswersOf, VotesOf

(* A game that is saved in the state it is in. *)
LEMMA SameStateApplied ==
    ASSUME NEW d, TablesOK(d), NEW g \in GameIds(d)
    PROVE  ApplyAll(d, SetState(g, d.game[g].state)) = d
<1> DEFINE row == d.game[g]
           st == row.state
           same == [row EXCEPT !.state = st]
<1>1. row \in GameRow /\ d.game = [h \in GameIds(d) |-> d.game[h]]
    BY DEF TablesOK, GameIds
<1>2. same = row
    <2> HIDE DEF row
    <2> QED
        BY <1>1 DEF GameRow
<1>3. [d.game EXCEPT ![g] = row] = d.game
    BY <1>1
<1>4. Apply(d, SetState(g, st)) =
          [game |-> [d.game EXCEPT ![g] = same],
           game_user |-> d.game_user, answer |-> d.answer, vote |-> d.vote]
    <2> HIDE DEF st
    <2> QED
        BY Applied
<1>5. ApplyAll(d, SetState(g, st)) = Apply(d, SetState(g, st))
    BY DEF ApplyAll, SetState
<1>6. d = [game |-> d.game, game_user |-> d.game_user, answer |-> d.answer, vote |-> d.vote]
    BY DEF TablesOK
<1> HIDE DEF same
<1> QED
    BY <1>2, <1>3, <1>4, <1>5, <1>6

(* What the game that runs is to Game. *)
LEMMA RunningGame ==
    ASSUME SingleWorker, IInv, RInv, NEW w \in Workers, worker[w].pc # "run",
           NEW g \in GameIds(db), db.game[g].state # "end"
    PROVE  /\ g = Len(db.game) /\ Len(db.game) # 0
           /\ phaseOf = db.game[g].state
           /\ currentOf = db.game[g].question
           /\ UsersOf(Settled, LastGame) = UsersOf(db, g)
           /\ AnswersOf(Settled, LastGame) = AnswersOf(db, g)
           /\ votesOf = VotesOf(db, g)
           /\ Len(Settled.answer) = Len(db.answer)
           /\ Tidy(db, ScoresIn(chat))
           /\ db.game[g].state = "gather_users" => TokensOf(db, g) = {}
           /\ \A m \in ScoresIn(chat) : m.game # g
<1>1. Settled = db /\ Announced = ScoresIn(chat)
    BY NothingLeft
<1>2. Tidy(db, ScoresIn(chat))
    BY <1>1 DEF RInv
<1>3. g \in Running(db)
    BY DEF Running
<1>4. g = Len(db.game) /\ (db.game[g].state = "gather_users" => TokensOf(db, g) = {})
    BY <1>2, <1>3 DEF Tidy
<1>5. Len(db.game) # 0
    BY <1>4 DEF GameIds, IInv, TablesOK
<1> QED
    BY <1>1, <1>2, <1>4, <1>5, Mapped DEF PhaseAt, CurrentAt, VotesAt, Tidy

(* One row of game replaced. *)
LEMMA GameMoved ==
    ASSUME NEW d, TablesOK(d), NEW g \in GameIds(d), NEW row \in GameRow,
           NEW f, f = [d.game EXCEPT ![g] = row]
    PROVE  /\ DOMAIN f = GameIds(d) /\ Len(f) = Len(d.game) /\ f[g] = row
           /\ \A h \in GameIds(d) : h # g => f[h] = d.game[h]
<1>1. d.game \in Seq(GameRow)
    BY DEF TablesOK
<1> QED
    BY <1>1 DEF GameIds

LEMMA StaysTidy ==
    ASSUME NEW d, NEW scores, Tidy(d, scores), NEW g \in GameIds(d), d.game[g].state # "end",
           NEW e, GameIds(e) = GameIds(d), Len(e.game) = Len(d.game),
           \A h \in GameIds(d) : h # g => e.game[h] = d.game[h],
           e.game[g].state = "gather_users" => TokensOf(e, g) = {},
           NEW more, \A m \in more : m \in scores \/ (m.game = g /\ e.game[g].state = "end")
    PROVE  Tidy(e, more)
<1>1. g = Len(d.game)
    BY DEF Tidy, Running
<1>2. \A h \in Running(e) : h = g
    BY <1>1 DEF Tidy, Running
<1>3. \A m \in more : m.game \in GameIds(e) /\ e.game[m.game].state = "end"
    BY DEF Tidy
<1> QED
    BY <1>1, <1>2, <1>3 DEF Tidy

(* /end *)
LEMMA EndRefines ==
    ASSUME SingleWorker, IInv, RInv, NEW w \in Workers, FindEnd(w)
    PROVE  RInv' /\ Abstract!EndGame
<1>1. PICK g \in Running(db) :
          /\ Find(w, "end", g, {"gather_users", "gather_answers", "gather_votes"})
          /\ GoOn(w, Run(<<SetState(g, "end")>>))
    BY DEF FindEnd
<1> DEFINE s == SetState(g, "end")
           row == [db.game[g] EXCEPT !.state = "end"]
           e == ApplyAll(db, s)
<1>2. /\ g \in GameIds(db) /\ db.game[g].state # "end" /\ worker[w].pc # "run" /\ TablesOK(db)
      /\ db' = db /\ chat' = chat /\ db.game[g] \in GameRow
    BY <1>1 DEF Find, Running, IInv, TablesOK, GameIds
<1>3. row \in GameRow /\ row.state = "end" /\ row.question = db.game[g].question
    BY <1>2 DEF GameRow, States
<1>4. e = [game |-> [db.game EXCEPT ![g] = row], game_user |-> db.game_user,
           answer |-> db.answer, vote |-> db.vote]
    <2>1. e = Apply(db, s)
        BY DEF ApplyAll, SetState
    <2> QED
        BY <1>2, <2>1, Applied
<1> HIDE DEF row, e
<1>5. /\ e.game = [db.game EXCEPT ![g] = row] /\ e.game_user = db.game_user
      /\ e.answer = db.answer /\ e.vote = db.vote
    BY <1>4
<1>6. /\ GameIds(e) = GameIds(db) /\ Len(e.game) = Len(db.game) /\ e.game[g] = row
      /\ \A h \in GameIds(db) : h # g => e.game[h] = db.game[h]
    BY <1>2, <1>3, <1>5, GameMoved DEF GameIds
<1>7. /\ g = Len(db.game) /\ Len(db.game) # 0 /\ Tidy(db, ScoresIn(chat))
      /\ \A m \in ScoresIn(chat) : m.game # g
      /\ phaseOf # "end" /\ currentOf = db.game[g].question
      /\ UsersOf(Settled, LastGame) = UsersOf(db, g)
      /\ AnswersOf(Settled, LastGame) = AnswersOf(db, g)
      /\ Len(Settled.answer) = Len(db.answer)
    BY <1>2, RunningGame
<1>8. After(db, <<s>>) = e
    BY AfterOne DEF e
<1>9. ScoresIn(Said(chat, <<s>>)) = ScoresIn(chat)
    <2>1. Said(chat, <<s>>) = chat \cup {s} /\ s.op # "scores"
        BY DEF Said, Range, SetState
    <2> QED
        BY <2>1 DEF ScoresIn
<1>10. Tidy(e, ScoresIn(chat))
    BY <1>2, <1>3, <1>6, <1>7, StaysTidy
<1>11. RInv' /\ Settled' = e /\ Announced' = ScoresIn(chat)
    BY <1>1, <1>2, <1>6, <1>8, <1>9, <1>10, StartRefines
<1>12. /\ phaseOf' = "end" /\ currentOf' = db.game[g].question /\ votesOf' = {}
       /\ UsersOf(Settled, LastGame)' = UsersOf(db, g)
       /\ AnswersOf(Settled, LastGame)' = AnswersOf(db, g)
       /\ Len(Settled'.answer) = Len(db.answer)
    <2>1. /\ phaseOf' = PhaseAt(e) /\ currentOf' = CurrentAt(e) /\ votesOf' = VotesAt(e, ScoresIn(chat))
          /\ UsersOf(Settled, LastGame)' = UsersOf(e, g)
          /\ AnswersOf(Settled, LastGame)' = AnswersOf(e, g)
        BY <1>2, <1>6, <1>7, <1>11, MappedNext
    <2>2. PhaseAt(e) = "end" /\ CurrentAt(e) = db.game[g].question
        BY <1>3, <1>6, <1>7 DEF PhaseAt, CurrentAt
    <2>3. VotesAt(e, ScoresIn(chat)) = {}
        BY <1>6, <1>7, <2>2 DEF VotesAt
    <2> QED
        BY <1>5, <1>11, <2>1, <2>2, <2>3, SameTables
<1> QED
    BY <1>7, <1>11, <1>12 DEF Abstract!EndGame

(* /new *)
LEMMA CreateRefines ==
    ASSUME SingleWorker, IInv, SInv, RInv, IInv', NEW w \in Workers, CreateGame(w)
    PROVE  RInv' /\ Abstract!NewGame(worker[w].user)
<1> DEFINE u == worker[w].user
           n == Len(db.game) + 1
           s == InsertUser(n, u)
           row == [state |-> "gather_users", question |-> NoQuestion]
           e == ApplyAll(db', s)
<1>1. /\ TablesOK(db) /\ TablesOK(db') /\ u \in Users /\ worker[w].pc # "run"
      /\ db' = Apply(db, InsertGame) /\ GoOn(w, Run(<<s>>)) /\ chat' = chat
      /\ Running(db) = {}
    BY DEF CreateGame, IInv, WorkerOK, SInv, WorkerFits
<1>2. db' = [game |-> Append(db.game, row), game_user |-> db.game_user,
             answer |-> db.answer, vote |-> db.vote]
    BY <1>1, Applied
<1>3. /\ db'.game = Append(db.game, row) /\ db'.game_user = db.game_user
      /\ db'.answer = db.answer /\ db'.vote = db.vote
    <2> HIDE DEF row
    <2> QED
        BY <1>2
<1>4. e = [game |-> db'.game, game_user |-> db'.game_user \cup {<<n, u>>},
           answer |-> db'.answer, vote |-> db'.vote]
    <2>1. e = Apply(db', InsertUser(n, u))
        BY DEF ApplyAll, InsertUser
    <2> HIDE DEF e, n, u
    <2>2. Apply(db', InsertUser(n, u)) =
              [game |-> db'.game, game_user |-> db'.game_user \cup {<<n, u>>},
               answer |-> db'.answer, vote |-> db'.vote]
        BY <1>1, Applied
    <2> QED
        BY <2>1, <2>2
<1>5. /\ e.game = Append(db.game, row) /\ e.game_user = db.game_user \cup {<<n, u>>}
      /\ e.answer = db.answer /\ e.vote = db.vote
    <2> HIDE DEF e, row
    <2> QED
        BY <1>3, <1>4
<1>6. /\ n \in Nat /\ n # 0 /\ n \notin GameIds(db) /\ Len(db'.game) = n /\ Len(e.game) = n
      /\ GameIds(e) = GameIds(db) \cup {n} /\ e.game[n] = row
      /\ \A g \in GameIds(db) : e.game[g] = db.game[g]
    <2>1. db.game \in Seq(GameRow)
        BY <1>1 DEF TablesOK
    <2>2. row \in GameRow
        BY DEF GameRow, States
    <2> HIDE DEF row, e
    <2> QED
        BY <1>3, <1>5, <2>1, <2>2 DEF GameIds
<1>7. Settled = db /\ Announced = ScoresIn(chat) /\ Tidy(db, ScoresIn(chat))
    BY <1>1, NothingLeft DEF RInv
<1>8. TokensOf(e, n) = {}
    <2>1. \A t \in DOMAIN db.answer : db.answer[t] \in Row(db)
        BY <1>1 DEF TablesOK
    <2>2. \A t \in DOMAIN db.answer : db.answer[t].game \in GameIds(db)
        BY <2>1 DEF Row
    <2> HIDE DEF e, n
    <2> QED
        BY <1>5, <1>6, <2>2 DEF TokensOf
<1>9. UsersOf(e, n) = {u}
    <2>1. \A v \in Users : <<n, v>> \notin db.game_user
        BY <1>1, <1>6 DEF TablesOK
    <2>2. \A v \in Users : <<n, v>> = <<n, u>> <=> v = u
        OBVIOUS
    <2> HIDE DEF e, n
    <2> QED
        BY <1>1, <1>5, <2>1, <2>2 DEF UsersOf
<1> HIDE DEF e, row, n
<1>10. Tidy(e, ScoresIn(chat))
    <2>1. \A g \in Running(e) : g = n
        BY <1>1, <1>6 DEF Running
    <2>2. \A m \in ScoresIn(chat) : m.game \in GameIds(e) /\ e.game[m.game].state = "end"
        BY <1>6, <1>7 DEF Tidy
    <2> QED
        BY <1>6, <1>8, <2>1, <2>2 DEF Tidy
<1>11. After(db', <<s>>) = e
    BY AfterOne DEF e
<1>12. ScoresIn(Said(chat', <<s>>)) = ScoresIn(chat)
    <2>1. Said(chat', <<s>>) = chat \cup {s} /\ s.op # "scores"
        BY <1>1 DEF Said, Range, InsertUser
    <2> QED
        BY <2>1 DEF ScoresIn
<1>13. RInv' /\ Settled' = e /\ Announced' = ScoresIn(chat)
    BY <1>1, <1>6, <1>10, <1>11, <1>12, StartRefines
<1>14. /\ phaseOf' = PhaseAt(e) /\ currentOf' = CurrentAt(e) /\ votesOf' = VotesAt(e, ScoresIn(chat))
       /\ UsersOf(Settled, LastGame)' = {u}
       /\ AnswersOf(Settled, LastGame)' = AnswersOf(e, n)
    BY <1>6, <1>9, <1>13, MappedNext
<1>15. phaseOf' = "gather_users" /\ currentOf' = NoQuestion
    BY <1>6, <1>14 DEF row, PhaseAt, CurrentAt
<1>16. votesOf' = {}
    <2>1. PhaseAt(e) # "end"
        BY <1>14, <1>15
    <2> QED
        BY <1>6, <1>8, <1>14, <2>1 DEF VotesAt, VotesOf
<1>17. AnswersOf(e, n) = Abstract!NoAnswers
    BY <1>8 DEF AnswersOf, Abstract!NoAnswers
<1>18. phaseOf = "end"
    <2>1. phaseOf = PhaseAt(db)
        BY <1>7, Mapped
    <2>2. Len(db.game) # 0 => Len(db.game) \in GameIds(db)
        <3>1. db.game \in Seq(GameRow)
            BY <1>1 DEF TablesOK
        <3> QED
            BY <3>1 DEF GameIds
    <2> QED
        BY <1>1, <2>1, <2>2 DEF PhaseAt, Running
<1> QED
    BY <1>5, <1>7, <1>13, <1>14, <1>15, <1>16, <1>17, <1>18 DEF Abstract!NewGame

(* The Join button. *)
LEMMA JoinRefines ==
    ASSUME SingleWorker, IInv, SInv, RInv, NEW w \in Workers, Join(w)
    PROVE  /\ RInv'
           /\ UNCHANGED Abstract!vars \/ Abstract!JoinGame(worker[w].user)
<1> DEFINE x == worker[w]
           g == x.game
           u == x.user
           a == SetState(g, "gather_users")
           b == InsertUser(g, u)
           e == ApplyAll(ApplyAll(db, a), b)
<1>1. /\ TablesOK(db) /\ g \in GameIds(db) /\ u \in Users /\ worker[w].pc # "run"
      /\ db.game[g].state = "gather_users" /\ UNCHANGED <<db, chat, failures>>
    BY DEF Join, IInv, WorkerOK, SInv, WorkerFits
<1>2. CASE GoOn(w, Idle)
    <2>1. Idle.pc # "run" /\ UpToDate(db, Idle)
        BY DEF Idle, UpToDate
    <2> QED
        BY <1>1, <1>2, <2>1, ReadRefines
<1>3. CASE u \notin UsersOf(db, g) /\ GoOn(w, Run(<<a, b>>))
    <2> HIDE DEF x, g, u
    <2>1. ApplyAll(db, a) = db
        BY <1>1, SameStateApplied
    <2>2. e = [game |-> db.game, game_user |-> db.game_user \cup {<<g, u>>},
               answer |-> db.answer, vote |-> db.vote]
        <3>1. e = Apply(db, b)
            BY <2>1 DEF ApplyAll, InsertUser
        <3>2. Apply(db, b) = [game |-> db.game, game_user |-> db.game_user \cup {<<g, u>>},
                              answer |-> db.answer, vote |-> db.vote]
            BY <1>1, Applied
        <3> HIDE DEF e
        <3> QED
            BY <3>1, <3>2
    <2> HIDE DEF e
    <2>3. /\ e.game = db.game /\ e.game_user = db.game_user \cup {<<g, u>>}
          /\ e.answer = db.answer /\ e.vote = db.vote
        BY <2>2
    <2>4. /\ g = Len(db.game) /\ Len(db.game) # 0 /\ Tidy(db, ScoresIn(chat))
          /\ TokensOf(db, g) = {}
          /\ phaseOf = "gather_users" /\ currentOf = db.game[g].question
          /\ UsersOf(Settled, LastGame) = UsersOf(db, g)
          /\ AnswersOf(Settled, LastGame) = AnswersOf(db, g)
          /\ votesOf = VotesOf(db, g)
          /\ Len(Settled.answer) = Len(db.answer)
        BY <1>1, RunningGame
    <2>5. UsersOf(e, g) = UsersOf(db, g) \cup {u}
        <3>1. \A v \in Users : <<g, v>> = <<g, u>> <=> v = u
            OBVIOUS
        <3> HIDE DEF g, u
        <3> QED
            BY <1>1, <2>3, <3>1 DEF UsersOf
    <2>6. GameIds(e) = GameIds(db) /\ TokensOf(e, g) = {}
        BY <2>3, <2>4 DEF GameIds, TokensOf
    <2>7. Tidy(e, ScoresIn(chat))
        BY <1>1, <2>3, <2>4, <2>6, StaysTidy
    <2>8. After(db', <<a, b>>) = e
        <3> HIDE DEF a, b
        <3> QED
            BY <1>1, AfterTwo DEF e
    <2>9. ScoresIn(Said(chat', <<a, b>>)) = ScoresIn(chat)
        <3>1. Said(chat', <<a, b>>) = chat \cup {a, b}
            BY <1>1 DEF Said, Range
        <3>2. a.op # "scores" /\ b.op # "scores"
            BY DEF SetState, InsertUser
        <3> QED
            BY <3>1, <3>2 DEF ScoresIn
    <2>10. RInv' /\ Settled' = e /\ Announced' = ScoresIn(chat)
        BY <1>1, <1>3, <2>3, <2>7, <2>8, <2>9, StartRefines
    <2>11. /\ phaseOf' = PhaseAt(e) /\ currentOf' = CurrentAt(e)
           /\ votesOf' = VotesAt(e, ScoresIn(chat))
           /\ UsersOf(Settled, LastGame)' = UsersOf(db, g) \cup {u}
           /\ AnswersOf(Settled, LastGame)' = AnswersOf(e, g)
        BY <1>1, <2>3, <2>4, <2>5, <2>10, MappedNext
    <2>12. PhaseAt(e) = "gather_users" /\ CurrentAt(e) = db.game[g].question
        BY <1>1, <2>3, <2>4 DEF PhaseAt, CurrentAt
    <2>13. AnswersOf(e, g) = AnswersOf(db, g) /\ VotesAt(e, ScoresIn(chat)) = VotesOf(db, g)
        BY <2>3, <2>4, <2>12, SameTables DEF VotesAt
    <2> QED
        BY <1>3, <2>3, <2>4, <2>10, <2>11, <2>12, <2>13 DEF Abstract!JoinGame, u, x
<1> QED
    BY <1>2, <1>3 DEF Join

(* /status only shows the round again. *)
LEMMA StatusRefines ==
    ASSUME SingleWorker, IInv, RInv, NEW w \in Workers, Status(w)
    PROVE  RInv' /\ UNCHANGED Abstract!vars
<1> DEFINE g == worker[w].game
           m == Buttons(g, db.game[g].question)
<1>1. /\ worker[w].pc # "run" /\ UNCHANGED <<db, chat, failures>>
      /\ GoOn(w, Idle) \/ GoOn(w, Run(<<m>>))
    BY DEF Status
<1>2. CASE GoOn(w, Idle)
    <2>1. Idle.pc # "run" /\ UpToDate(db, Idle)
        BY DEF Idle, UpToDate
    <2> QED
        BY <1>1, <1>2, <2>1, ReadRefines
<1>3. CASE GoOn(w, Run(<<m>>))
    <2>1. IsMessage(m) /\ m.op # "scores"
        BY DEF IsMessage, Buttons
    <2> HIDE DEF m
    <2>2. After(db', <<m>>) = db
        BY <1>1, <2>1, AfterOne, MessagesApplied
    <2>3. Said(chat', <<m>>) = chat \cup {m}
        BY <1>1 DEF Said, Range
    <2>4. ScoresIn(Said(chat', <<m>>)) = ScoresIn(chat)
        BY <2>1, <2>3 DEF ScoresIn
    <2>5. Settled = db /\ Announced = ScoresIn(chat) /\ Tidy(db, ScoresIn(chat))
        BY <1>1, NothingLeft DEF RInv
    <2>6. RInv' /\ Settled' = db /\ Announced' = ScoresIn(chat)
        BY <1>1, <1>3, <2>2, <2>4, <2>5, StartRefines
    <2> QED
        BY <1>1, <2>5, <2>6, Stutters
<1> QED
    BY <1>1, <1>2, <1>3

(* The rules of Game are those of Bot. *)
LEMMA SameAnswerRules ==
    /\ \A t, a : Abstract!Answered(a, t) = Answered(a, t)
    /\ \A t, a : Abstract!AnswerTarget(t, a) = AnswerTarget(t, a)
    /\ \A t, a : Abstract!CanAnswer(t, a) = CanAnswer(t, a)
    /\ \A a : Abstract!AllAnswersAreIn(a) = AllAnswersAreIn(a)
    /\ \A a, vs : Abstract!NextAnswer(a, vs) = NextAnswer(a, vs)
<1>1. \A S : Abstract!Min(S) = Min(S)
    BY DEF Abstract!Min, Min
<1>2. \A t, a : Abstract!Answered(a, t) = Answered(a, t)
    BY DEF Abstract!Answered, Answered
<1>3. \A u, a : Abstract!Unanswered(u, a) = Unanswered(u, a)
    BY <1>2 DEF Abstract!Unanswered, Unanswered
<1>4. \A t, a : Abstract!AnswerTarget(t, a) = AnswerTarget(t, a)
    BY <1>1, <1>2, <1>3 DEF Abstract!AnswerTarget, AnswerTarget
<1>5. \A t, a : Abstract!CanAnswer(t, a) = CanAnswer(t, a)
    BY <1>3 DEF Abstract!CanAnswer, CanAnswer
<1>6. \A a : Abstract!AllAnswersAreIn(a) = AllAnswersAreIn(a)
    BY <1>2 DEF Abstract!AllAnswersAreIn, AllAnswersAreIn
<1>7. \A a, vs : Abstract!NextAnswer(a, vs) = NextAnswer(a, vs)
    BY <1>1 DEF Abstract!NextAnswer, NextAnswer, Abstract!Unvoted, Unvoted,
        Abstract!VotedQuestions, VotedQuestions
<1> QED
    BY <1>2, <1>4, <1>5, <1>6, <1>7

(* The answers that were read, with one of them filled. *)
FilledIn(read, target, r) == [read EXCEPT ![target].response = r]

(* All of them written back. *)
LEMMA SavedAnswers ==
    ASSUME NEW d, TablesOK(d), NEW g, NEW target \in TokensOf(d, g), NEW r \in Responses
    PROVE  LET filled == FilledIn(AnswersOf(d, g), target, r)
               e == ApplyAll(d, SaveAll(filled))
           IN  /\ e = [game |-> d.game, game_user |-> d.game_user, answer |-> e.answer,
                       vote |-> d.vote]
               /\ Len(e.answer) = Len(d.answer)
               /\ AnswersOf(e, g) = filled
               /\ \A h : TokensOf(e, h) = TokensOf(d, h)
<1> DEFINE read == AnswersOf(d, g)
           filled == FilledIn(read, target, r)
           rows == [t \in DOMAIN filled |-> filled[t].response]
           e == ApplyAll(d, SaveAll(filled))
           T == TokensOf(d, g)
<1>1. /\ DOMAIN read = T
      /\ \A t \in T : read[t] = [user |-> d.answer[t].user, question |-> d.answer[t].question,
                                 response |-> d.answer[t].response]
    BY DEF AnswersOf
<1>2. T \subseteq DOMAIN d.answer /\ \A t \in DOMAIN d.answer : d.answer[t] \in Row(d)
    BY DEF TokensOf, TablesOK
<1> HIDE DEF read, T
<1>3. /\ DOMAIN filled = T
      /\ \A t \in T : filled[t] = [user |-> d.answer[t].user, question |-> d.answer[t].question,
                                   response |-> IF t = target THEN r ELSE d.answer[t].response]
    BY <1>1 DEF T, FilledIn
<1> HIDE DEF filled
<1>4. DOMAIN rows = T /\ \A t \in T : rows[t] = filled[t].response
    BY <1>3
<1>5. e = [game |-> d.game, game_user |-> d.game_user, answer |-> Updated(d, rows),
           vote |-> d.vote]
    BY AllUpdated DEF SaveAll
<1> HIDE DEF rows, e
<1>6. e.answer = Updated(d, rows)
    BY <1>5
<1>7. /\ DOMAIN e.answer = DOMAIN d.answer
      /\ \A t \in DOMAIN d.answer :
            e.answer[t] = IF t \in T THEN [d.answer[t] EXCEPT !.response = filled[t].response]
                          ELSE d.answer[t]
    BY <1>4, <1>6 DEF Updated
<1>8. \A t \in DOMAIN d.answer :
          /\ e.answer[t].game = d.answer[t].game
          /\ e.answer[t].user = d.answer[t].user
          /\ e.answer[t].question = d.answer[t].question
          /\ t \in T => e.answer[t].response = filled[t].response
    <2> SUFFICES ASSUME NEW t \in DOMAIN d.answer
                 PROVE  /\ e.answer[t].game = d.answer[t].game
                        /\ e.answer[t].user = d.answer[t].user
                        /\ e.answer[t].question = d.answer[t].question
                        /\ t \in T => e.answer[t].response = filled[t].response
        OBVIOUS
    <2> DEFINE row == d.answer[t]
               p == filled[t].response
    <2>1. row \in Row(d) /\ e.answer[t] = IF t \in T THEN [row EXCEPT !.response = p] ELSE row
        BY <1>2, <1>7
    <2> HIDE DEF row, p
    <2>2. /\ e.answer[t].game = row.game /\ e.answer[t].user = row.user
          /\ e.answer[t].question = row.question
          /\ t \in T => e.answer[t].response = p
        BY <2>1 DEF Row
    <2> QED
        BY <2>2 DEF row, p
<1>9. \A h : TokensOf(e, h) = TokensOf(d, h)
    BY <1>7, <1>8 DEF TokensOf
<1>10. AnswersOf(e, g) = filled
    <2>1. \A t \in T : /\ filled[t].user = d.answer[t].user
                       /\ filled[t].question = d.answer[t].question
                       /\ filled[t] = [user |-> filled[t].user, question |-> filled[t].question,
                                       response |-> filled[t].response]
        BY <1>3
    <2>2. \A t \in T : filled[t] = [user |-> e.answer[t].user, question |-> e.answer[t].question,
                                    response |-> e.answer[t].response]
        BY <1>2, <1>8, <2>1
    <2>3. filled = [t \in T |-> filled[t]]
        BY <1>3 DEF filled, FilledIn, read, AnswersOf
    <2> QED
        BY <1>9, <2>2, <2>3 DEF AnswersOf, T
<1>11. Len(e.answer) = Len(d.answer)
    <2>1. d.answer \in Seq(Row(d))
        BY DEF TablesOK
    <2>2. DOMAIN e.answer = 1 .. Len(d.answer) /\ Len(d.answer) \in Nat
        BY <1>7, <2>1
    <2> QED
        BY <2>2
<1>12. e = [game |-> d.game, game_user |-> d.game_user, answer |-> e.answer, vote |-> d.vote]
    BY <1>5, <1>6
<1> QED
    BY <1>9, <1>10, <1>11, <1>12 DEF e, filled, read

(* A prompt answered: of the statements of the handler only the response and  *)
(* the state the game moves on to are left.                                   *)
LEMMA PostRefines ==
    ASSUME SingleWorker, IInv, SInv, RInv, IInv', NEW w \in Workers, Post(w)
    PROVE  /\ RInv'
           /\ UNCHANGED Abstract!vars \/ Abstract!AnswerPrompt(worker[w].token, worker[w].response)
<1> DEFINE x == worker[w]
           g == x.game
           t == x.token
           r == x.response
           read == AnswersOf(db, g)
           target == AnswerTarget(t, read)
           filled == [read EXCEPT ![target].response = r]
           q == filled[NextAnswer(filled, {})].question
           save == SaveAll(filled)
           few == <<SetState(g, "gather_answers"), save>>
           last == <<SetVoting(g, q), save, Buttons(g, q)>>
<1>1. /\ TablesOK(db) /\ g \in GameIds(db) /\ r \in Responses /\ worker[w].pc # "run"
      /\ db.game[g].state = "gather_answers" /\ UNCHANGED <<db, chat, failures>>
    BY CrowdedIsGame DEF Post, IInv, WorkerOK, SInv, WorkerFits
<1>2. CASE GoOn(w, Idle) \/ GoOn(w, Dead)
    <2>1. /\ Idle.pc # "run" /\ UpToDate(db, Idle)
          /\ Dead.pc # "run" /\ UpToDate(db, Dead)
        BY DEF Idle, Dead, UpToDate
    <2> QED
        BY <1>1, <1>2, <2>1, ReadRefines
<1>3. \/ GoOn(w, Idle) \/ GoOn(w, Dead)
      \/ CanAnswer(t, read) /\ ~AllAnswersAreIn(filled) /\ GoOn(w, Run(few))
      \/ CanAnswer(t, read) /\ AllAnswersAreIn(filled) /\ GoOn(w, Run(last))
    BY DEF Post
<1>4. ASSUME CanAnswer(t, read),
             \/ ~AllAnswersAreIn(filled) /\ GoOn(w, Run(few))
             \/ AllAnswersAreIn(filled) /\ GoOn(w, Run(last))
      PROVE  RInv' /\ Abstract!AnswerPrompt(t, r)
    <2>1. target \in TokensOf(db, g)
        <3>1. DOMAIN read = TokensOf(db, g) /\ DOMAIN read \subseteq Nat
            BY <1>1 DEF AnswersOf, TokensOf, TablesOK
        <3>2. target \in Unanswered(read[t].user, read)
            BY <1>4, <3>1, AnswerTargetIsUnanswered
        <3> QED
            BY <3>1, <3>2 DEF Unanswered
    <2>2. t \in DOMAIN db.answer
        BY <1>4 DEF CanAnswer, AnswersOf, TokensOf
    <2>3. /\ g = Len(db.game) /\ Len(db.game) # 0 /\ Tidy(db, ScoresIn(chat))
          /\ phaseOf = "gather_answers" /\ currentOf = db.game[g].question
          /\ UsersOf(Settled, LastGame) = UsersOf(db, g)
          /\ AnswersOf(Settled, LastGame) = read
          /\ votesOf = VotesOf(db, g)
          /\ Len(Settled.answer) = Len(db.answer)
        BY <1>1, RunningGame
    <2>4. Abstract!Filled(t, r) = filled
        BY <2>3, SameAnswerRules DEF Abstract!Filled
    <2> DEFINE next == IF AllAnswersAreIn(filled) THEN [state |-> "gather_votes", question |-> q]
                       ELSE db.game[g]
               todo == IF AllAnswersAreIn(filled) THEN last ELSE few
    <2> HIDE DEF x, g, t, r, read, target
    <2>5. GoOn(w, Run(todo))
        BY <1>4
    (* The tables before the answers are saved. *)
    <2>6. PICK d : /\ After(db, todo) = ApplyAll(d, save) /\ TablesOK(d)
                   /\ d = [game |-> [db.game EXCEPT ![g] = next], game_user |-> db.game_user,
                           answer |-> db.answer, vote |-> db.vote]
        <3> HIDE DEF save, filled
        <3>1. CASE ~AllAnswersAreIn(filled)
            <4>1. ApplyAll(db, SetState(g, "gather_answers")) = db
                BY <1>1, SameStateApplied
            <4>2. After(db, todo) = ApplyAll(db, save)
                BY <3>1, <4>1, AfterTwo
            <4>3. [db.game EXCEPT ![g] = next] = db.game
                BY <1>1, <3>1 DEF TablesOK, GameIds
            <4>4. db = [game |-> db.game, game_user |-> db.game_user,
                        answer |-> db.answer, vote |-> db.vote]
                BY <1>1 DEF TablesOK
            <4> QED
                BY <1>1, <4>2, <4>3, <4>4
        <3>2. CASE AllAnswersAreIn(filled)
            <4> HIDE DEF q
            <4> DEFINE a == SetVoting(g, q)
                       b == Buttons(g, q)
                       d == ApplyAll(db, a)
            <4>1. d = Apply(db, a) /\ IsMessage(b)
                BY DEF ApplyAll, SetVoting, IsMessage, Buttons
            <4>2. a \in Statements(db)
                <5>1. todo \in Seq(Statements(db))
                    <6>1. worker'[w] = Run(todo) /\ WorkerOK(db', worker'[w])
                        BY <2>5, WorkerGoesOn DEF IInv
                    <6> HIDE DEF todo
                    <6>2. Run(todo).pc = "run" /\ Run(todo).todo = todo
                        BY DEF Run
                    <6> QED
                        BY <1>1, <6>1, <6>2 DEF WorkerOK
                <5> DEFINE S == Statements(db)
                <5> HIDE DEF a, b, S
                <5>2. todo = <<a, save, b>>
                    BY <3>2 DEF a, b
                <5>3. 1 \in DOMAIN todo /\ todo[1] = a
                    BY <5>2
                <5> QED
                    BY <5>1, <5>3 DEF S
            <4>3. TablesOK(d)
                BY <1>1, <4>1, <4>2, ApplyOK
            <4>4. d = [game |-> [db.game EXCEPT ![g] = next], game_user |-> db.game_user,
                       answer |-> db.answer, vote |-> db.vote]
                <5>1. Apply(db, SetVoting(g, q)) =
                         [game |-> [db.game EXCEPT ![g] = [state |-> "gather_votes", question |-> q]],
                          game_user |-> db.game_user, answer |-> db.answer, vote |-> db.vote]
                    BY <1>1, Applied
                <5> QED
                    BY <3>2, <4>1, <5>1
            <4> HIDE DEF a, b, d
            <4>5. todo = <<a, save, b>>
                BY <3>2 DEF a, b
            <4>6. After(db, <<a, save, b>>) = ApplyAll(ApplyAll(ApplyAll(db, a), save), b)
                BY AfterThree
            <4>7. After(db, todo) = ApplyAll(d, save)
                BY <4>1, <4>5, <4>6, MessagesApplied DEF d
            <4> QED
                BY <4>3, <4>4, <4>7
        <3> QED
            BY <3>1, <3>2
    <2> DEFINE e == ApplyAll(d, save)
    <2> HIDE DEF next, todo, save, q
    <2>7. /\ d.game = [db.game EXCEPT ![g] = next] /\ d.game_user = db.game_user
          /\ d.answer = db.answer /\ d.vote = db.vote
        BY <2>6
    <2>8. TokensOf(d, g) = TokensOf(db, g) /\ AnswersOf(d, g) = read
        BY <2>7, SameTables DEF read
    <2>9. /\ e = [game |-> d.game, game_user |-> d.game_user, answer |-> e.answer,
                  vote |-> d.vote]
          /\ Len(e.answer) = Len(d.answer) /\ AnswersOf(e, g) = filled
          /\ \A h : TokensOf(e, h) = TokensOf(d, h)
        <3>1. filled = FilledIn(AnswersOf(d, g), target, r)
            BY <2>8 DEF FilledIn
        <3>2. TablesOK(d) /\ target \in TokensOf(d, g) /\ r \in Responses
            BY <1>1, <2>1, <2>6, <2>8
        <3>3. e = ApplyAll(d, SaveAll(filled))
            BY DEF save
        <3> HIDE DEF filled, e
        <3> QED
            BY <3>1, <3>2, <3>3, SavedAnswers
    <2> HIDE DEF e, filled
    <2>10. /\ e.game = [db.game EXCEPT ![g] = next] /\ e.game_user = db.game_user
           /\ e.vote = db.vote /\ Len(e.answer) = Len(db.answer)
           /\ TokensOf(e, g) = TokensOf(db, g)
        BY <2>7, <2>8, <2>9
    <2>11. /\ GameIds(e) = GameIds(db) /\ Len(e.game) = Len(db.game) /\ e.game[g] = next
           /\ \A h \in GameIds(db) : h # g => e.game[h] = db.game[h]
        <3>1. db.game \in Seq(GameRow)
            BY <1>1 DEF TablesOK
        <3> QED
            BY <1>1, <2>10, <3>1 DEF GameIds
    <2>12. next.state = IF AllAnswersAreIn(filled) THEN "gather_votes" ELSE "gather_answers"
        BY <1>1 DEF next
    <2>13. Tidy(e, ScoresIn(chat))
        BY <1>1, <2>3, <2>11, <2>12, StaysTidy
    <2>14. ScoresIn(Said(chat', todo)) = ScoresIn(chat)
        <3>1. \A i \in DOMAIN todo : todo[i].op # "scores"
            <4>1. CASE AllAnswersAreIn(filled)
                <5>1. todo = <<SetVoting(g, q), save, Buttons(g, q)>>
                    BY <4>1 DEF todo
                <5>2. /\ SetVoting(g, q).op # "scores" /\ save.op # "scores"
                      /\ Buttons(g, q).op # "scores"
                    BY DEF SetVoting, save, SaveAll, UpdateAnswers, Buttons
                <5> QED
                    BY <5>1, <5>2
            <4>2. CASE ~AllAnswersAreIn(filled)
                <5>1. todo = <<SetState(g, "gather_answers"), save>>
                    BY <4>2 DEF todo
                <5>2. SetState(g, "gather_answers").op # "scores" /\ save.op # "scores"
                    BY DEF SetState, save, SaveAll, UpdateAnswers
                <5> QED
                    BY <5>1, <5>2
            <4> QED
                BY <4>1, <4>2
        <3> QED
            BY <1>1, <3>1 DEF ScoresIn, Said, Range
    <2>15. RInv' /\ Settled' = e /\ Announced' = ScoresIn(chat)
        BY <1>1, <2>5, <2>6, <2>11, <2>13, <2>14, StartRefines DEF e
    <2>16. /\ phaseOf' = PhaseAt(e) /\ currentOf' = CurrentAt(e)
           /\ votesOf' = VotesAt(e, ScoresIn(chat))
           /\ UsersOf(Settled, LastGame)' = UsersOf(db, g)
           /\ AnswersOf(Settled, LastGame)' = filled
        BY <1>1, <2>3, <2>9, <2>10, <2>11, <2>15, MappedNext, SameTables
    <2>17. /\ PhaseAt(e) = next.state /\ CurrentAt(e) = next.question
           /\ VotesAt(e, ScoresIn(chat)) = VotesOf(db, g)
        BY <2>3, <2>10, <2>11, <2>12 DEF PhaseAt, CurrentAt, VotesAt, VotesOf
    <2>18. AllAnswersAreIn(filled) => next.question = q
        BY DEF next
    <2>19. ~AllAnswersAreIn(filled) => next.question = db.game[g].question
        BY DEF next
    <2>20. t \in 1 .. Len(Settled.answer)
        BY <1>1, <2>2, <2>3 DEF TablesOK
    <2> QED
        BY <1>4, <2>3, <2>4, <2>10, <2>12, <2>15, <2>16, <2>17, <2>18, <2>19, SameAnswerRules
        DEF Abstract!AnswerPrompt, q
<1> QED
    BY <1>2, <1>3, <1>4

LEMMA ElementsOfTwoMore ==
    ASSUME NEW T, NEW p \in Seq(T), NEW a \in T, NEW b \in T
    PROVE  Range(p \o <<a, b>>) = Range(p) \cup {a, b}
<1> DEFINE todo == p \o <<a, b>>
           n == Len(p)
<1>1. <<a, b>> \in Seq(T) /\ Len(<<a, b>>) = 2 /\ <<a, b>>[1] = a /\ <<a, b>>[2] = b
    OBVIOUS
<1>2. /\ n \in Nat /\ DOMAIN todo = 1 .. n + 2 /\ DOMAIN p = 1 .. n
      /\ \A i \in 1 .. n : todo[i] = p[i]
      /\ todo[n + 1] = a /\ todo[n + 2] = b
    BY <1>1
<1> HIDE DEF todo, n
<1>3. \A i \in 1 .. n + 2 : i \in 1 .. n \/ i = n + 1 \/ i = n + 2
    BY <1>2
<1>4. n + 1 \in 1 .. n + 2 /\ n + 2 \in 1 .. n + 2 /\ \A i \in 1 .. n : i \in 1 .. n + 2
    BY <1>2
<1>5. Range(todo) = Range(p) \cup {a, b}
    BY <1>2, <1>3, <1>4 DEF Range
<1> QED
    BY <1>5 DEF todo

LEMMA RoundsHaveNoScores ==
    ASSUME NEW g, NEW t, NEW f, NEW vs
    PROVE  \A i \in DOMAIN RoundResults(g, t, f, vs) : RoundResults(g, t, f, vs)[i].op # "scores"
<1>1. CASE Others(t, f) = {}
    BY <1>1 DEF RoundResults
<1>2. CASE Others(t, f) # {}
    <2> DEFINE s == Results(g, f[t].question,
                            {v \in vs : v.token \in {t, Min(Others(t, f))}})
    <2>1. RoundResults(g, t, f, vs) = <<s>>
        BY <1>2 DEF RoundResults
    <2>2. s.op # "scores"
        BY DEF Results
    <2> HIDE DEF s
    <2> QED
        BY <2>1, <2>2
<1> QED
    BY <1>1, <1>2

LEMMA SameVoteRules ==
    /\ \A q, a : Abstract!Pairs(q, a) = Pairs(q, a)
    /\ \A u, t, pair, a, vs : Abstract!VoteAccepted(u, t, pair, a, vs) = VoteAccepted(u, t, pair, a, vs)
    /\ \A a, vs : Abstract!AllVotesAreIn(a, vs) = AllVotesAreIn(a, vs)
    /\ \A pair, a, vs : Abstract!CurrentVotesAreIn(pair, a, vs) = CurrentVotesAreIn(pair, a, vs)
<1>1. \A S : Abstract!Cardinality(S) = Cardinality(S)
    BY DEF Abstract!Cardinality, Cardinality
<1>2. \A q, a : Abstract!Pairs(q, a) = Pairs(q, a)
    <2>1. \A t, a : Abstract!Option(t, a) = Option(t, a)
        BY DEF Abstract!Option, Option
    <2> QED
        BY <2>1 DEF Abstract!Pairs, Pairs
<1>3. \A a : Abstract!Authors(a) = Authors(a)
    BY DEF Abstract!Authors, Authors
<1>4. \A a, vs : Abstract!VotedQuestions(a, vs) = VotedQuestions(a, vs)
    BY DEF Abstract!VotedQuestions, VotedQuestions
<1>5. \A a : Abstract!AskedQuestions(a) = AskedQuestions(a)
    BY DEF Abstract!AskedQuestions, AskedQuestions
<1>6. /\ \A pair : Abstract!Tokens(pair) = Tokens(pair)
      /\ \A pair : Abstract!PairAuthors(pair) = PairAuthors(pair)
    BY DEF Abstract!Tokens, Tokens, Abstract!PairAuthors, PairAuthors
<1>7. \A pair, vs : Abstract!VotersOn(pair, vs) = VotersOn(pair, vs)
    BY <1>6 DEF Abstract!VotersOn, VotersOn
<1>8. \A u, t, pair, a, vs : Abstract!VoteAccepted(u, t, pair, a, vs) = VoteAccepted(u, t, pair, a, vs)
    BY <1>3, <1>6, <1>7 DEF Abstract!VoteAccepted, VoteAccepted
<1>9. \A a, vs : Abstract!AllVotesAreIn(a, vs) = AllVotesAreIn(a, vs)
    BY <1>1, <1>4, <1>5 DEF Abstract!AllVotesAreIn, AllVotesAreIn
<1>10. \A pair, a, vs : Abstract!RemainingVotes(pair, a, vs) = RemainingVotes(pair, a, vs)
    BY <1>3, <1>6, <1>7 DEF Abstract!RemainingVotes, RemainingVotes
<1>11. \A pair, a, vs : Abstract!CurrentVotesAreIn(pair, a, vs) = CurrentVotesAreIn(pair, a, vs)
    BY <1>10 DEF Abstract!CurrentVotesAreIn, CurrentVotesAreIn
<1> QED
    BY <1>2, <1>8, <1>9, <1>11

(* The last vote: the game ends, and the vote is only in its scores. *)
LEMMA GameOverRefines ==
    ASSUME SingleWorker, IInv, SInv, RInv, NEW w \in Workers, GameOver(w)
    PROVE  /\ RInv'
           /\ \/ UNCHANGED Abstract!vars
              \/ \E u \in Users : Abstract!Vote(u, worker[w].token)
<1> DEFINE x == worker[w]
           g == x.game
           t == x.token
           read == AnswersOf(db, g)
           results == RoundResults(g, t, read, x.votes)
           a == Scores(g, x.votes)
           b == SetState(g, "end")
           row == [db.game[g] EXCEPT !.state = "end"]
           e == ApplyAll(db, b)
           todo == results \o <<a, b>>
<1>1. /\ TablesOK(db) /\ g \in GameIds(db) /\ x.votes \in SUBSET Ballot(db)
      /\ t \in DOMAIN db.answer
      /\ worker[w].pc # "run" /\ worker[w].pc = "over"
      /\ db.game[g].state = "gather_votes" /\ UNCHANGED <<db, chat, failures>>
      /\ GoOn(w, Dead) \/ GoOn(w, Run(todo))
    BY CrowdedIsGame DEF GameOver, IInv, WorkerOK, SInv, WorkerFits
<1>2. CASE GoOn(w, Dead)
    <2>1. Dead.pc # "run" /\ UpToDate(db, Dead)
        BY DEF Dead, UpToDate
    <2> QED
        BY <1>1, <1>2, <2>1, ReadRefines
<1>3. CASE GoOn(w, Run(todo))
    <2>1. LastVote(db, g, t, x.votes)
        BY <1>1 DEF RInv, UpToDate
    <2>2. /\ g = Len(db.game) /\ Len(db.game) # 0 /\ Tidy(db, ScoresIn(chat))
          /\ \A m \in ScoresIn(chat) : m.game # g
          /\ phaseOf = "gather_votes" /\ currentOf = db.game[g].question
          /\ UsersOf(Settled, LastGame) = UsersOf(db, g)
          /\ AnswersOf(Settled, LastGame) = read
          /\ votesOf = VotesOf(db, g)
          /\ Len(Settled.answer) = Len(db.answer)
        BY <1>1, RunningGame
    <2>3. /\ results \in Seq(Statements(db))
          /\ \A i \in DOMAIN results : IsMessage(results[i]) /\ results[i].op # "scores"
        <3>1. CopyOK(db, g, read)
            BY <1>1, CopiesOK
        <3>2. /\ results \in Seq(Statements(db))
              /\ \A i \in DOMAIN results : IsMessage(results[i])
            BY <1>1, <3>1, RoundResultsOK
        <3>3. \A i \in DOMAIN results : results[i].op # "scores"
            BY RoundsHaveNoScores
        <3> QED
            BY <3>2, <3>3
    <2>4. db.game[g] \in GameRow
        BY <1>1 DEF TablesOK, GameIds
    <2> HIDE DEF x, g, t, read, results
    <2>5. row \in GameRow /\ row.state = "end" /\ row.question = db.game[g].question
        BY <2>4 DEF GameRow, States
    <2>6. e = [game |-> [db.game EXCEPT ![g] = row], game_user |-> db.game_user,
               answer |-> db.answer, vote |-> db.vote]
        <3>1. ApplyAll(db, SetState(g, "end")) = Apply(db, SetState(g, "end"))
            BY DEF ApplyAll, SetState
        <3> QED
            BY <1>1, <3>1, Applied
    <2>7. After(db, todo) = e
        <3> DEFINE T == Statements(db) \cup {a, b}
        <3>1. a \in T /\ b \in T /\ IsMessage(a)
            BY DEF IsMessage, Scores
        <3>2. results \in Seq(T)
            BY <2>3
        <3> HIDE DEF T, a, b
        <3>3. <<a, b>> \in Seq(T)
            BY <3>1
        <3>4. After(db, results \o <<a, b>>) = After(db, <<a, b>>)
            BY <2>3, <3>2, <3>3, AfterMessages
        <3>5. After(db, <<a, b>>) = ApplyAll(ApplyAll(db, a), b)
            BY AfterTwo
        <3> QED
            BY <3>1, <3>4, <3>5, MessagesApplied
    <2>8. ScoresIn(Said(chat, todo)) = ScoresIn(chat) \cup {a}
        <3> DEFINE T == Statements(db) \cup {a, b}
        <3>1. a \in T /\ b \in T /\ a.op = "scores" /\ b.op # "scores"
            BY DEF Scores, SetState
        <3>2. results \in Seq(T)
            BY <2>3
        <3> HIDE DEF T, a, b
        <3>3. Range(todo) = Range(results) \cup {a, b}
            BY <3>1, <3>2, ElementsOfTwoMore
        <3> HIDE DEF todo
        <3> QED
            BY <2>3, <3>1, <3>3 DEF ScoresIn, Said, Range
    <2> HIDE DEF row, e, todo
    <2>9. /\ e.game = [db.game EXCEPT ![g] = row] /\ e.game_user = db.game_user
          /\ e.answer = db.answer /\ e.vote = db.vote
        BY <2>6
    <2>10. /\ GameIds(e) = GameIds(db) /\ Len(e.game) = Len(db.game) /\ e.game[g] = row
           /\ \A h \in GameIds(db) : h # g => e.game[h] = db.game[h]
        BY <1>1, <2>5, <2>9, GameMoved DEF GameIds
    <2>11. a.game = g /\ a.votes = x.votes
        BY DEF Scores
    <2> HIDE DEF a
    <2>12. Tidy(e, ScoresIn(chat) \cup {a})
        <3> DEFINE more == ScoresIn(chat) \cup {a}
        <3>1. \A m \in more : m \in ScoresIn(chat) \/ (m.game = g /\ e.game[g].state = "end")
            BY <2>5, <2>10, <2>11
        <3>2. e.game[g].state # "gather_users" /\ db.game[g].state # "end"
            BY <1>1, <2>5, <2>10 DEF g, x
        <3>3. g \in GameIds(db) /\ Tidy(db, ScoresIn(chat))
            BY <1>1, <2>2
        <3> HIDE DEF more
        <3>4. Tidy(e, more)
            BY <2>10, <3>1, <3>2, <3>3, StaysTidy
        <3> QED
            BY <3>4 DEF more
    <2>13. RInv' /\ Settled' = e /\ Announced' = ScoresIn(chat) \cup {a}
        BY <1>1, <1>3, <2>7, <2>8, <2>10, <2>12, StartRefines
    <2>14. /\ phaseOf' = PhaseAt(e) /\ currentOf' = CurrentAt(e)
           /\ votesOf' = VotesAt(e, ScoresIn(chat) \cup {a})
           /\ UsersOf(Settled, LastGame)' = UsersOf(db, g)
           /\ AnswersOf(Settled, LastGame)' = read
           /\ Len(Settled'.answer) = Len(db.answer)
        BY <1>1, <2>2, <2>9, <2>10, <2>13, MappedNext, SameTables DEF read
    <2>15. PhaseAt(e) = "end" /\ CurrentAt(e) = db.game[g].question
        BY <2>2, <2>5, <2>10 DEF PhaseAt, CurrentAt
    <2>16. VotesAt(e, ScoresIn(chat) \cup {a}) = x.votes
        <3>1. {s \in ScoresIn(chat) \cup {a} : s.game = g} = {a}
            BY <2>2, <2>11
        <3>2. UNION {m.votes : m \in {a}} = x.votes
            BY <2>11
        <3> QED
            BY <2>2, <2>10, <2>15, <3>1, <3>2 DEF VotesAt
    <2>17. PICK u \in Users : \E pair \in PairsOf(db, g) :
              /\ VoteAccepted(u, t, pair, read, VotesOf(db, g))
              /\ x.votes = VotesOf(db, g) \cup {[user |-> u, token |-> t]}
              /\ AllVotesAreIn(read, x.votes)
        BY <2>1 DEF LastVote, read
    <2>18. PairsOf(db, g) = Pairs(db.game[g].question, read)
        BY DEF PairsOf, read
    <2>19. Abstract!Vote(u, t)
        BY <2>2, <2>13, <2>14, <2>15, <2>16, <2>17, <2>18, SameVoteRules DEF Abstract!Vote
    <2> QED
        BY <2>13, <2>19 DEF t, x
<1> QED
    BY <1>1, <1>2, <1>3

(* What a round sends: its results, and the buttons of the next one. *)
LEMMA NewsAreMessages ==
    ASSUME NEW g, NEW t, NEW f, NEW vs, NEW q, NEW news,
           news = <<>> \/ news = RoundResults(g, t, f, vs) \o <<Buttons(g, q)>>
    PROVE  /\ news \in Seq(Range(news))
           /\ \A i \in DOMAIN news : IsMessage(news[i]) /\ news[i].op # "scores"
<1> DEFINE s == Results(g, f[t].question, {v \in vs : v.token \in {t, Min(Others(t, f))}})
           b == Buttons(g, q)
<1>1. /\ IsMessage(s) /\ IsMessage(b) /\ s.op # "scores" /\ b.op # "scores"
    BY DEF IsMessage, Results, Buttons
<1>2. news = <<>> \/ news = <<>> \o <<b>> \/ news = <<s>> \o <<b>>
    BY DEF RoundResults
<1> HIDE DEF s, b
<1>3. <<>> \o <<b>> = <<b>> /\ <<s>> \o <<b>> = <<s, b>>
    <2> DEFINE T == {s, b}
    <2>1. s \in T /\ b \in T
        OBVIOUS
    <2> HIDE DEF T
    <2>2. <<>> \in Seq(T) /\ <<s>> \in Seq(T) /\ <<b>> \in Seq(T) /\ <<s, b>> \in Seq(T)
        BY <2>1
    <2>3. /\ Len(<<>> \o <<b>>) = 1 /\ (<<>> \o <<b>>)[1] = b /\ <<>> \o <<b>> \in Seq(T)
          /\ Len(<<b>>) = 1 /\ <<b>>[1] = b
        BY <2>1, <2>2
    <2>4. <<>> \o <<b>> = <<b>>
        BY <2>2, <2>3
    <2>5. <<s>> \o <<b>> = <<s, b>>
        <3> DEFINE y == <<s>> \o <<b>>
                   z == <<s, b>>
        <3>1. y \in Seq(T) /\ z \in Seq(T) /\ Len(y) = 2 /\ Len(z) = 2
            BY <2>1, <2>2
        <3>2. y[1] = s /\ y[2] = b /\ z[1] = s /\ z[2] = b
            BY <2>1, <2>2
        <3> HIDE DEF y, z
        <3>3. y = z
            BY <3>1, <3>2
        <3> QED
            BY <3>3 DEF y, z
    <2> QED
        BY <2>4, <2>5
<1>4. news = <<>> \/ news = <<b>> \/ news = <<s, b>>
    BY <1>2, <1>3
<1>5. CASE news = <<>>
    BY <1>5
<1>6. CASE news = <<b>>
    <2>1. news \in Seq({b}) /\ DOMAIN news = {1} /\ news[1] = b
        BY <1>6
    <2>2. Range(news) = {b}
        BY <2>1 DEF Range
    <2> QED
        BY <1>1, <2>1, <2>2
<1>7. CASE news = <<s, b>>
    <2>1. news \in Seq({s, b}) /\ DOMAIN news = {1, 2} /\ news[1] = s /\ news[2] = b
        BY <1>7
    <2>2. Range(news) = {s, b}
        BY <2>1 DEF Range
    <2> QED
        BY <1>1, <2>1, <2>2
<1> QED
    BY <1>4, <1>5, <1>6, <1>7

(* A vote saved: the messages before it show nothing new in the tables. *)
LEMMA VoteSaved ==
    ASSUME TablesOK(db), NEW g \in GameIds(db), NEW q, NEW v, NEW news,
           news \in Seq(Range(news)),
           \A i \in DOMAIN news : IsMessage(news[i]) /\ news[i].op # "scores"
    PROVE  LET todo == news \o <<SetVoting(g, q), InsertVote(v)>>
           IN  /\ After(db, todo) =
                     [game |-> [db.game EXCEPT ![g] = [state |-> "gather_votes", question |-> q]],
                      game_user |-> db.game_user, answer |-> db.answer, vote |-> db.vote \cup {v}]
               /\ ScoresIn(Said(chat, todo)) = ScoresIn(chat)
<1> DEFINE a == SetVoting(g, q)
           b == InsertVote(v)
           f == [db.game EXCEPT ![g] = [state |-> "gather_votes", question |-> q]]
           d == [game |-> f, game_user |-> db.game_user, answer |-> db.answer, vote |-> db.vote]
           T == Range(news) \cup {a, b}
           todo == news \o <<a, b>>
<1>1. ApplyAll(db, a) = d
    <2>1. ApplyAll(db, a) = Apply(db, a)
        BY DEF ApplyAll, SetVoting
    <2>2. Apply(db, a) = d
        BY Applied
    <2> QED
        BY <2>1, <2>2
<1>2. ApplyAll(d, b) = [game |-> f, game_user |-> db.game_user, answer |-> db.answer,
                        vote |-> db.vote \cup {v}]
    <2> HIDE DEF f
    <2>1. ApplyAll(d, b) = Apply(d, b)
        BY DEF ApplyAll, InsertVote
    <2>2. Apply(d, b) = [d EXCEPT !.vote = @ \cup {v}]
        BY DEF Apply, InsertVote, IsMessage
    <2> QED
        BY <2>1, <2>2
<1>3. a \in T /\ b \in T /\ a.op # "scores" /\ b.op # "scores"
    BY DEF SetVoting, InsertVote
<1>4. news \in Seq(T)
    OBVIOUS
<1> HIDE DEF a, b, d, T
<1>5. <<a, b>> \in Seq(T)
    BY <1>3
<1>6. After(db, todo) = ApplyAll(d, b)
    <2>1. After(db, todo) = After(db, <<a, b>>)
        BY <1>4, <1>5, AfterMessages
    <2>2. After(db, <<a, b>>) = ApplyAll(ApplyAll(db, a), b)
        BY AfterTwo
    <2> QED
        BY <1>1, <2>1, <2>2
<1>7. Range(todo) = Range(news) \cup {a, b}
    BY <1>3, <1>4, ElementsOfTwoMore
<1>8. ScoresIn(Said(chat, todo)) = ScoresIn(chat)
    <2>1. \A m \in Range(news) : m.op # "scores"
        BY DEF Range
    <2> HIDE DEF todo
    <2> QED
        BY <1>3, <1>7, <2>1 DEF ScoresIn, Said
<1> QED
    BY <1>2, <1>6, <1>8 DEF a, b

(* A vote: refused, the last one, or counted and saved. *)
LEMMA VotePairRefines ==
    ASSUME SingleWorker, IInv, SInv, RInv, NEW w \in Workers, VotePair(w)
    PROVE  /\ RInv'
           /\ \/ UNCHANGED Abstract!vars
              \/ Abstract!Vote(worker[w].user, worker[w].token)
<1> DEFINE x == worker[w]
           g == x.game
           u == x.user
           t == x.token
           read == AnswersOf(db, g)
           cast == VotesOf(db, g)
           ballot == [user |-> u, token |-> t]
           votes == cast \cup {ballot}
<1>1. /\ TablesOK(db) /\ g \in GameIds(db) /\ u \in Users /\ t \in DOMAIN db.answer
      /\ worker[w].pc # "run" /\ db.game[g].state = "gather_votes"
      /\ UNCHANGED <<db, chat, failures>> /\ x.pc = "pair"
    BY CrowdedIsGame DEF VotePair, IInv, WorkerOK, SInv, WorkerFits
<1>2. x.answers = read /\ x.votes = cast
    BY <1>1 DEF RInv, UpToDate
<1>3. PICK pair \in PairsOf(db, g) :
          IF VoteAccepted(u, t, pair, read, cast) THEN VoteCounted(w, x, pair, votes)
          ELSE GoOn(w, Idle)
    BY <1>2 DEF VotePair
<1>4. /\ Idle.pc # "run" /\ UpToDate(db, Idle) /\ Dead.pc # "run" /\ UpToDate(db, Dead)
    BY DEF Idle, Dead, UpToDate
<1>5. CASE GoOn(w, Idle) \/ GoOn(w, Dead)
    BY <1>1, <1>4, <1>5, ReadRefines
<1> DEFINE over == AllVotesAreIn(read, votes)
           closed == CurrentVotesAreIn(pair, read, votes)
           first == IF closed THEN NextAnswer(read, votes) ELSE pair[1].token
           q == IF closed THEN read[first].question ELSE pair[1].question
           news == IF first = t THEN <<>> ELSE RoundResults(g, t, read, votes) \o <<Buttons(g, q)>>
           end == [pc |-> "over", game |-> g, token |-> t, votes |-> votes]
           todo == news \o <<SetVoting(g, q), InsertVote(ballot)>>
<1>6. \/ GoOn(w, Idle) \/ GoOn(w, Dead)
      \/ VoteAccepted(u, t, pair, read, cast) /\ over /\ GoOn(w, end)
      \/ /\ VoteAccepted(u, t, pair, read, cast) /\ ~over /\ GoOn(w, Run(todo))
         /\ closed => ~NextPanics(read, votes)
    <2> SUFFICES ASSUME VoteAccepted(u, t, pair, read, cast), VoteCounted(w, x, pair, votes),
                        ~GoOn(w, Dead)
                 PROVE  \/ over /\ GoOn(w, end)
                        \/ ~over /\ GoOn(w, Run(todo)) /\ (closed => ~NextPanics(read, votes))
        BY <1>3
    <2> DEFINE panics == \/ \E v \in votes : v.token \notin DOMAIN read
                         \/ ~over /\ closed /\ NextPanics(read, votes)
                         \/ ~over /\ first # t /\ ResultsPanic(t, read)
    <2>1. GoOn(w, IF panics THEN Dead ELSE IF over THEN end ELSE Run(todo))
        BY <1>2 DEF VoteCounted, AnnounceThenSave, SaveVote
    <2> HIDE DEF over, closed, first, end, todo, votes, read
    <2> QED
        BY <2>1
<1>7. CASE VoteAccepted(u, t, pair, read, cast) /\ over /\ GoOn(w, end)
    <2>1. LastVote(db, g, t, votes)
        BY <1>1, <1>3, <1>7 DEF LastVote
    <2>2. end.pc # "run" /\ UpToDate(db, end)
        BY <2>1 DEF UpToDate
    <2> HIDE DEF end
    <2> QED
        BY <1>1, <1>7, <2>2, ReadRefines
<1>8. CASE /\ VoteAccepted(u, t, pair, read, cast) /\ ~over /\ GoOn(w, Run(todo))
           /\ closed => ~NextPanics(read, votes)
    <2>1. /\ g = Len(db.game) /\ Len(db.game) # 0 /\ Tidy(db, ScoresIn(chat))
          /\ phaseOf = "gather_votes" /\ currentOf = db.game[g].question
          /\ UsersOf(Settled, LastGame) = UsersOf(db, g)
          /\ AnswersOf(Settled, LastGame) = read
          /\ votesOf = cast
          /\ Len(Settled.answer) = Len(db.answer)
        BY <1>1, RunningGame
    <2>2. t \in TokensOf(db, g)
        <3>1. PICK a, b \in DOMAIN read : Tokens(pair) = {a, b}
            BY <1>3, PairTokens DEF PairsOf
        <3> QED
            BY <1>8, <3>1 DEF VoteAccepted, AnswersOf
    <2>3. ~closed => q = db.game[g].question
        BY <1>1, <1>3, PairOfCurrent
    <2>4. closed => q = read[NextAnswer(read, votes)].question
        OBVIOUS
    <2>5. q \in Questions
        <3>1. CASE closed
            <4> HIDE DEF read, votes, closed
            <4>1. q = read[NextAnswer(read, votes)].question /\ ~NextPanics(read, votes)
                BY <1>8, <3>1
            <4>2. CopyOK(db, g, read)
                BY <1>1, CopiesOK DEF read
            <4> HIDE DEF q
            <4> QED
                BY <1>1, <4>1, <4>2, NextAnswerIsRead
        <3>2. CASE ~closed
            BY <1>1, <1>3, <2>3, <3>2, PairOfCurrent
        <3> QED
            BY <3>1, <3>2
    <2>6. /\ news \in Seq(Range(news))
          /\ \A i \in DOMAIN news : IsMessage(news[i]) /\ news[i].op # "scores"
        <3>1. news = <<>> \/ news = RoundResults(g, t, read, votes) \o <<Buttons(g, q)>>
            OBVIOUS
        <3> HIDE DEF news, q
        <3> QED
            BY <3>1, NewsAreMessages
    <2> DEFINE row == [state |-> "gather_votes", question |-> q]
               e == After(db, todo)
    <2> HIDE DEF news, q, x, g, u, t, read, cast, ballot
    <2>7. /\ e = [game |-> [db.game EXCEPT ![g] = row], game_user |-> db.game_user,
                  answer |-> db.answer, vote |-> db.vote \cup {ballot}]
          /\ ScoresIn(Said(chat, todo)) = ScoresIn(chat)
        BY <1>1, <2>6, VoteSaved
    <2>8. row \in GameRow
        BY <2>5 DEF GameRow, States
    <2>9. /\ e.game = [db.game EXCEPT ![g] = row] /\ e.game_user = db.game_user
          /\ e.answer = db.answer /\ e.vote = db.vote \cup {ballot}
        BY <2>7
    <2> HIDE DEF row, e, todo
    <2>10. /\ GameIds(e) = GameIds(db) /\ Len(e.game) = Len(db.game) /\ e.game[g] = row
          /\ \A h \in GameIds(db) : h # g => e.game[h] = db.game[h]
        BY <1>1, <2>8, <2>9, GameMoved DEF GameIds
    <2>11. row.state = "gather_votes" /\ row.question = q
        BY DEF row
    <2>12. Tidy(e, ScoresIn(chat))
        BY <1>1, <2>1, <2>10, <2>11, StaysTidy
    <2>13. RInv' /\ Settled' = e /\ Announced' = ScoresIn(chat)
        BY <1>1, <1>8, <2>7, <2>10, <2>12, StartRefines DEF e
    <2>14. VotesOf(e, g) = votes
        <3>1. \A h : TokensOf(e, h) = TokensOf(db, h)
            BY <2>9 DEF TokensOf
        <3>2. ballot.token = t
            BY DEF ballot
        <3> QED
            BY <2>2, <2>9, <3>1, <3>2 DEF VotesOf, cast
    <2>15. /\ phaseOf' = PhaseAt(e) /\ currentOf' = CurrentAt(e)
           /\ votesOf' = VotesAt(e, ScoresIn(chat))
           /\ UsersOf(Settled, LastGame)' = UsersOf(db, g)
           /\ AnswersOf(Settled, LastGame)' = read
           /\ Len(Settled'.answer) = Len(db.answer)
        BY <1>1, <2>1, <2>9, <2>10, <2>13, MappedNext, SameTables DEF read
    <2>16. /\ PhaseAt(e) = "gather_votes" /\ CurrentAt(e) = q
           /\ VotesAt(e, ScoresIn(chat)) = votes
        BY <2>1, <2>10, <2>11, <2>14 DEF PhaseAt, CurrentAt, VotesAt
    <2>17. pair \in Pairs(db.game[g].question, read)
        BY <1>3 DEF PairsOf, read
    <2>18. Abstract!Vote(u, t)
        <3>1. /\ pair \in Abstract!Pairs(currentOf, AnswersOf(Settled, LastGame))
              /\ Abstract!VoteAccepted(u, t, pair, AnswersOf(Settled, LastGame), votesOf)
            BY <1>8, <2>1, <2>17, SameVoteRules
        <3>2. votesOf' = votesOf \cup {[user |-> u, token |-> t]} /\ votesOf' = votes
            BY <2>1, <2>15, <2>16 DEF ballot
        <3>3. ~Abstract!AllVotesAreIn(AnswersOf(Settled, LastGame), votesOf')
            BY <1>8, <2>1, <2>15, <2>16, SameVoteRules
        <3>4. phaseOf' = phaseOf
            BY <2>1, <2>15, <2>16
        <3>5. IF Abstract!CurrentVotesAreIn(pair, AnswersOf(Settled, LastGame), votesOf')
              THEN currentOf' = read[Abstract!NextAnswer(AnswersOf(Settled, LastGame), votesOf')].question
              ELSE currentOf' = currentOf
            BY <2>1, <2>3, <2>4, <2>15, <2>16, <3>2, SameVoteRules, SameAnswerRules
        <3>6. UNCHANGED <<UsersOf(Settled, LastGame), AnswersOf(Settled, LastGame), Len(Settled.answer)>>
            BY <2>1, <2>13, <2>15
        <3> QED
            BY <2>1, <3>1, <3>2, <3>3, <3>4, <3>5, <3>6 DEF Abstract!Vote
    <2> QED
        BY <2>13, <2>18 DEF u, t, x
<1> QED
    BY <1>5, <1>6, <1>7, <1>8

Begun(g, order, draw) == <<SetState(g, "gather_answers")>> \o DealRows(g, order, draw)

(* A deal saved: the prompts of the game are those dealt, numbered after the  *)
(* rows that were there.                                                     *)
LEMMA DealSaved ==
    ASSUME TablesOK(db), NEW g \in GameIds(db), TokensOf(db, g) = {},
           NEW S \in SUBSET Users, NEW n, n = Cardinality(S), n >= 1,
           NEW order \in Bijection(1 .. n, S), NEW draw \in [1 .. n -> Questions]
    PROVE  LET todo == Begun(g, order, draw)
               e == After(db, todo)
           IN  /\ e.game = [db.game EXCEPT ![g] = [db.game[g] EXCEPT !.state = "gather_answers"]]
               /\ e.game_user = db.game_user /\ e.vote = db.vote
               /\ Len(e.answer) = Len(db.answer) + 2 * n
               /\ AnswersOf(e, g) = Deal(order, draw, Len(db.answer))
               /\ VotesOf(e, g) = {} /\ VotesOf(db, g) = {}
               /\ ScoresIn(Said(chat, todo)) = ScoresIn(chat)
<1> DEFINE s == SetState(g, "gather_answers")
           rows == DealRows(g, order, draw)
           todo == <<s>> \o rows
           f == [db.game EXCEPT ![g] = [db.game[g] EXCEPT !.state = "gather_answers"]]
           d == [game |-> f, game_user |-> db.game_user, answer |-> db.answer, vote |-> db.vote]
           slot(k) == DealtSlot(order, draw, k)
           row(k) == [game |-> g, user |-> slot(k).user, question |-> slot(k).question,
                      response |-> NoResponse]
           last == Len(db.answer)
<1>1. n \in Nat
    BY BotAssumption, FS_Subset, FS_CardinalityType
<1>2. /\ DOMAIN Deal(order, draw, 0) = 1 .. 2 * n
      /\ DOMAIN Deal(order, draw, last) = last + 1 .. last + 2 * n
      /\ Deal(order, draw, last) = [t \in last + 1 .. last + 2 * n |-> slot(t - last)]
      /\ last \in Nat
    <2>1. DOMAIN draw = 1 .. n /\ Cardinality(1 .. n) = n /\ last \in Nat
        BY <1>1, FS_Interval DEF TablesOK
    <2> QED
        BY <1>1, <2>1 DEF Deal
<1>3. \A k \in 1 .. 2 * n : Deal(order, draw, 0)[k] = slot(k)
    <2>1. SUFFICES ASSUME NEW k \in 1 .. 2 * n PROVE Deal(order, draw, 0)[k] = slot(k)
        OBVIOUS
    <2>2. k - 0 = k
        BY <1>1
    <2> QED
        BY <1>2, <2>2 DEF Deal
<1>4. \A k : slot(k) = [user |-> slot(k).user, question |-> slot(k).question,
                        response |-> NoResponse]
    BY DEF DealtSlot
<1> HIDE DEF slot, last
<1>5. \A k \in 1 .. 2 * n : row(k) \in Row(db)
    <2>1. SoundDeal(Deal(order, draw, 0), n, S, Questions, 0)
        BY <1>1, DealIsSound
    <2>2. Deal(order, draw, 0) \in [1 .. 2 * n -> [user : S, question : Questions, response : {NoResponse}]]
        BY <1>1, <1>2, <2>1 DEF SoundDeal
    <2>3. \A k \in 1 .. 2 * n : slot(k).user \in S /\ slot(k).question \in Questions
        BY <1>3, <2>2
    <2> QED
        BY <2>3 DEF Row
<1> DEFINE stmt(k) == InsertAnswer(row(k))
<1>6. rows = [k \in 1 .. 2 * n |-> stmt(k)]
    BY <1>2, <1>3 DEF DealRows
<1>7. \A k : stmt(k).op = "insert_answer" /\ stmt(k).row = row(k) /\ stmt(k) = InsertAnswer(stmt(k).row)
    BY DEF InsertAnswer
<1>8. \A k : /\ row(k).game = g /\ row(k).user = slot(k).user /\ row(k).question = slot(k).question
             /\ row(k).response = NoResponse
    OBVIOUS
<1> DEFINE U == {stmt(k) : k \in 1 .. 2 * n} \cup {s}
<1> HIDE DEF rows, stmt, row
<1>9. rows \in Seq(U) /\ Len(rows) = 2 * n /\ DOMAIN rows = 1 .. 2 * n /\ s \in U
    <2>1. s \in U /\ \A k \in 1 .. 2 * n : stmt(k) \in U
        OBVIOUS
    <2>2. 2 * n \in Nat
        BY <1>1
    <2> HIDE DEF U
    <2>3. rows \in [1 .. 2 * n -> U]
        BY <1>6, <2>1
    <2> QED
        BY <2>1, <2>2, <2>3
<1> HIDE DEF U
<1>10. ApplyAll(db, s) = d /\ s.op # "scores"
    <2>1. ApplyAll(db, s) = Apply(db, s) /\ s.op # "scores"
        BY DEF ApplyAll, SetState
    <2>2. Apply(db, s) = d
        BY Applied
    <2> QED
        BY <2>1, <2>2
<1> HIDE DEF s
<1>11. todo \in Seq(U) /\ todo # <<>> /\ Head(todo) = s /\ Tail(todo) = rows
    <2>1. <<s>> \in Seq(U) /\ Len(<<s>>) = 1 /\ <<s>>[1] = s
        BY <1>9
    <2>2. todo \in Seq(U) /\ Len(todo) = 2 * n + 1 /\ todo[1] = s
        BY <1>1, <1>9, <2>1
    <2>3. \A i \in 1 .. 2 * n : todo[i + 1] = rows[i]
        BY <1>1, <1>9, <2>1
    <2> HIDE DEF todo
    <2>4. Tail(todo) \in Seq(U) /\ Len(Tail(todo)) = 2 * n /\ \A i \in 1 .. 2 * n : Tail(todo)[i] = todo[i + 1]
        BY <1>1, <2>2
    <2>5. Tail(todo) = rows
        BY <1>1, <1>9, <2>3, <2>4
    <2> QED
        BY <1>1, <2>2, <2>5
<1>12. After(db, todo) = After(d, rows)
    BY <1>10, <1>11, AfterFirst
<1> DEFINE all == [t \in 1 .. last + 2 * n |-> IF t =< last THEN db.answer[t] ELSE row(t - last)]
           e == After(db, todo)
<1>13. e = [game |-> f, game_user |-> db.game_user, answer |-> all, vote |-> db.vote]
    <2>1. /\ d.game = f /\ d.game_user = db.game_user /\ d.answer = db.answer /\ d.vote = db.vote
          /\ d = [game |-> d.game, game_user |-> d.game_user, answer |-> d.answer, vote |-> d.vote]
        OBVIOUS
    <2> HIDE DEF d
    <2>2. d.answer \in Seq(Row(db))
        BY <2>1 DEF TablesOK
    <2>3. \A i \in DOMAIN rows : rows[i] = InsertAnswer(rows[i].row) /\ rows[i].row \in Row(db)
        BY <1>5, <1>6, <1>7, <1>9
    <2> DEFINE T == Row(db)
    <2>4. d.answer \in Seq(T) /\ \A i \in DOMAIN rows : rows[i] = InsertAnswer(rows[i].row) /\ rows[i].row \in T
        BY <2>2, <2>3
    <2> HIDE DEF T, all, e, todo, f
    <2>5. After(d, rows) =
               [game |-> d.game, game_user |-> d.game_user,
                answer |-> Inserted(d, rows), vote |-> d.vote]
        BY <1>9, <2>1, <2>4, AfterInserts
    <2>6. \A t \in 1 .. last + 2 * n : t > last => rows[t - last].row = row(t - last)
        <3>1. \A t \in 1 .. last + 2 * n : t > last => t - last \in 1 .. 2 * n
            BY <1>1, <1>2
        <3> QED
            BY <1>6, <1>7, <3>1
    <2>7. [t \in 1 .. last + 2 * n |-> IF t =< last THEN db.answer[t] ELSE rows[t - last].row] = all
        BY <1>1, <1>2, <2>6 DEF all
    <2> QED
        BY <1>9, <1>12, <2>1, <2>5, <2>7 DEF last, e, Inserted
<1> HIDE DEF e, todo, f
<1>14. e.game = f /\ e.game_user = db.game_user /\ e.vote = db.vote /\ e.answer = all
    BY <1>13
<1>15. Len(e.answer) = last + 2 * n /\ DOMAIN e.answer = 1 .. last + 2 * n
    BY <1>1, <1>2, <1>14
<1>16. DOMAIN db.answer = 1 .. last
    BY DEF TablesOK, last
<1>17. TokensOf(e, g) = last + 1 .. last + 2 * n
    <2>1. \A t \in 1 .. last : t \in DOMAIN db.answer /\ e.answer[t] = db.answer[t]
        BY <1>1, <1>2, <1>14, <1>16
    <2>2. \A t \in 1 .. last : e.answer[t].game # g
        BY <2>1 DEF TokensOf
    <2>3. \A t \in last + 1 .. last + 2 * n : e.answer[t].game = g
        BY <1>1, <1>2, <1>8, <1>14
    <2>4. \A t \in 1 .. last + 2 * n : t \in 1 .. last \/ t \in last + 1 .. last + 2 * n
        BY <1>1, <1>2
    <2>5. last + 1 .. last + 2 * n \subseteq 1 .. last + 2 * n
        BY <1>1, <1>2
    <2> QED
        BY <1>15, <2>2, <2>3, <2>4, <2>5 DEF TokensOf
<1>18. AnswersOf(e, g) = Deal(order, draw, last)
    <2>1. \A t \in last + 1 .. last + 2 * n : e.answer[t] = row(t - last)
        BY <1>1, <1>2, <1>14
    <2>2. \A t \in last + 1 .. last + 2 * n :
              [user |-> e.answer[t].user, question |-> e.answer[t].question,
               response |-> e.answer[t].response] = slot(t - last)
        <3> SUFFICES ASSUME NEW t \in last + 1 .. last + 2 * n
                     PROVE  [user |-> e.answer[t].user, question |-> e.answer[t].question,
                             response |-> e.answer[t].response] = slot(t - last)
            OBVIOUS
        <3> DEFINE k == t - last
        <3>1. e.answer[t] = row(k)
            BY <2>1
        <3> HIDE DEF k
        <3>2. slot(k) = [user |-> slot(k).user, question |-> slot(k).question,
                         response |-> NoResponse]
            BY <1>4
        <3>3. /\ e.answer[t].user = slot(k).user /\ e.answer[t].question = slot(k).question
              /\ e.answer[t].response = NoResponse
            BY <1>8, <3>1
        <3>4. [user |-> e.answer[t].user, question |-> e.answer[t].question,
               response |-> e.answer[t].response] = slot(k)
            BY <3>2, <3>3
        <3> QED
            BY <3>4 DEF k
    <2> QED
        BY <1>2, <1>17, <2>2 DEF AnswersOf
<1>19. VotesOf(e, g) = {} /\ VotesOf(db, g) = {}
    <2>1. \A v \in db.vote : v.token \in 1 .. last
        BY <1>16 DEF TablesOK, Ballot
    <2>2. \A v \in db.vote : v.token \notin last + 1 .. last + 2 * n
        BY <1>1, <1>2, <2>1
    <2> QED
        BY <1>14, <1>17, <2>2 DEF VotesOf
<1>20. ScoresIn(Said(chat, todo)) = ScoresIn(chat)
    <2>1. \A m \in U : m.op # "scores"
        BY <1>7, <1>10 DEF U
    <2>2. Range(todo) \subseteq U
        BY <1>11 DEF Range
    <2> QED
        BY <2>1, <2>2 DEF Said, ScoresIn
<1> QED
    BY <1>14, <1>15, <1>18, <1>19, <1>20 DEF e, todo, f, last, rows, s, Begun

LEMMA SameDealRules ==
    /\ \A S : Abstract!Cardinality(S) = Cardinality(S)
    /\ \A order, draw, last : Abstract!Deal(order, draw, last) = Deal(order, draw, last)
    /\ \A S, T : Abstract!Bijection(S, T) = Bijection(S, T)
    /\ \A f : Abstract!IsInjective(f) <=> IsInjective(f)
    /\ Abstract!MinPlayers = 3
<1>1. \A S : Abstract!Cardinality(S) = Cardinality(S)
    BY DEF Abstract!Cardinality, Cardinality
<1>2. \A order, draw, k : Abstract!DealtSlot(order, draw, k) = DealtSlot(order, draw, k)
    BY <1>1 DEF Abstract!DealtSlot, DealtSlot
<1>3. \A order, draw, last : Abstract!Deal(order, draw, last) = Deal(order, draw, last)
    BY <1>1, <1>2 DEF Abstract!Deal, Deal
<1>4. \A f : Abstract!IsInjective(f) <=> IsInjective(f)
    BY DEF Abstract!IsInjective, IsInjective
<1>5. \A S, T : Abstract!Bijection(S, T) = Bijection(S, T)
    <2>1. \A S, T : Abstract!Injection(S, T) = Injection(S, T)
        BY <1>4 DEF Abstract!Injection, Injection
    <2>2. \A S, T : Abstract!Surjection(S, T) = Surjection(S, T)
        BY DEF Abstract!Surjection, Surjection
    <2> QED
        BY <2>1, <2>2 DEF Abstract!Bijection, Bijection
<1>6. Abstract!MinPlayers = 3
    BY DEF Abstract!MinPlayers
<1> QED
    BY <1>1, <1>3, <1>4, <1>5, <1>6

(* /begin: nothing happens, or the questions are dealt. *)
LEMMA BeginRefines ==
    ASSUME SingleWorker, IInv, SInv, RInv, NEW w \in Workers, BeginDraw(w)
    PROVE  /\ RInv'
           /\ UNCHANGED Abstract!vars \/ Abstract!BeginGame
<1> DEFINE x == worker[w]
           g == x.game
           S == UsersOf(db, g)
           n == Cardinality(S)
           order == x.order
           last == Len(db.answer)
<1>1. /\ TablesOK(db) /\ g \in GameIds(db) /\ worker[w].pc # "run"
      /\ db.game[g].state = "gather_users" /\ UNCHANGED <<db, chat, failures>>
      /\ S \in SUBSET Users
    BY DEF BeginDraw, IInv, WorkerOK, SInv, WorkerFits, UsersOf
<1>2. order \in Bijection(1 .. n, S) /\ last + 2 * n =< MaxAnswers
    BY DEF BeginDraw, RInv, UpToDate
<1>3. n \in Nat /\ last \in Nat
    BY <1>1, BotAssumption, FS_Subset, FS_CardinalityType DEF TablesOK
<1>4. Len(order) = n
    <2>1. order \in [1 .. n -> S]
        BY <1>2 DEF Bijection, Injection
    <2> QED
        BY <1>3, <2>1
<1>5. CASE GoOn(w, Idle) \/ GoOn(w, Dead)
    <2>1. /\ Idle.pc # "run" /\ UpToDate(db, Idle) /\ Dead.pc # "run" /\ UpToDate(db, Dead)
        BY DEF Idle, Dead, UpToDate
    <2> QED
        BY <1>1, <1>5, <2>1, ReadRefines
<1>6. CASE ~GoOn(w, Idle) /\ ~GoOn(w, Dead)
    <2>1. PICK draw \in Draws(n) :
              GoOn(w, Run(<<SetState(g, "gather_answers")>> \o DealRows(g, order, draw)))
        BY <1>6 DEF BeginDraw
    <2>2. n >= 3 /\ draw \in [1 .. n -> Questions] /\ (Repeats \/ IsInjective(draw))
        BY <1>4, <1>6, <2>1 DEF BeginDraw, MinPlayers, Draws
    <2>3. /\ g = Len(db.game) /\ Len(db.game) # 0 /\ Tidy(db, ScoresIn(chat))
          /\ phaseOf = "gather_users" /\ currentOf = db.game[g].question
          /\ UsersOf(Settled, LastGame) = S
          /\ AnswersOf(Settled, LastGame) = AnswersOf(db, g)
          /\ votesOf = VotesOf(db, g)
          /\ Len(Settled.answer) = last
          /\ TokensOf(db, g) = {}
        BY <1>1, RunningGame
    <2> DEFINE todo == Begun(g, order, draw)
               e == After(db, todo)
               row == [db.game[g] EXCEPT !.state = "gather_answers"]
    <2>4. GoOn(w, Run(todo))
        BY <2>1 DEF Begun
    <2> HIDE DEF x, g, order, S
    <2>5. /\ e.game = [db.game EXCEPT ![g] = row]
          /\ e.game_user = db.game_user /\ e.vote = db.vote
          /\ Len(e.answer) = last + 2 * n
          /\ AnswersOf(e, g) = Deal(order, draw, last)
          /\ VotesOf(e, g) = {} /\ VotesOf(db, g) = {}
          /\ ScoresIn(Said(chat, todo)) = ScoresIn(chat)
        <3>1. /\ TablesOK(db) /\ g \in GameIds(db) /\ TokensOf(db, g) = {}
              /\ S \in SUBSET Users /\ n = Cardinality(S) /\ n >= 1
              /\ order \in Bijection(1 .. n, S) /\ draw \in [1 .. n -> Questions]
            BY <1>1, <1>2, <1>3, <2>2, <2>3
        <3> HIDE DEF n
        <3> QED
            BY <3>1, DealSaved
    <2>6. db.game[g] \in GameRow
        BY <1>1 DEF TablesOK, GameIds
    <2>7. row \in GameRow /\ row.state = "gather_answers" /\ row.question = db.game[g].question
        BY <2>6 DEF GameRow, States
    <2> HIDE DEF todo, e, row, n, last
    <2>8. /\ GameIds(e) = GameIds(db) /\ Len(e.game) = Len(db.game) /\ e.game[g] = row
          /\ \A h \in GameIds(db) : h # g => e.game[h] = db.game[h]
        BY <1>1, <2>5, <2>7, GameMoved DEF GameIds
    <2>9. Tidy(e, ScoresIn(chat))
        BY <1>1, <2>3, <2>7, <2>8, StaysTidy
    <2>10. RInv' /\ Settled' = e /\ Announced' = ScoresIn(chat)
        BY <1>1, <2>4, <2>5, <2>8, <2>9, StartRefines DEF e
    <2>11. /\ phaseOf' = PhaseAt(e) /\ currentOf' = CurrentAt(e)
           /\ votesOf' = VotesAt(e, ScoresIn(chat))
           /\ UsersOf(Settled, LastGame)' = S
           /\ AnswersOf(Settled, LastGame)' = Deal(order, draw, last)
           /\ Len(Settled'.answer) = last + 2 * n
        BY <1>1, <2>3, <2>5, <2>8, <2>10, MappedNext, SameTables DEF S
    <2>12. /\ PhaseAt(e) = "gather_answers" /\ CurrentAt(e) = currentOf
           /\ VotesAt(e, ScoresIn(chat)) = {} /\ votesOf = {}
        BY <2>3, <2>5, <2>7, <2>8 DEF PhaseAt, CurrentAt, VotesAt
    <2>13. order \in Abstract!Orders
        BY <1>2, <2>3, SameDealRules DEF Abstract!Orders, n
    <2>14. draw \in Abstract!Draws
        BY <2>2, <2>3, SameDealRules DEF Abstract!Draws, n
    <2>15. Abstract!BeginGame
        BY <1>2, <2>2, <2>3, <2>10, <2>11, <2>12, <2>13, <2>14, SameDealRules
        DEF Abstract!BeginGame, n
    <2> QED
        BY <2>10, <2>15
<1> QED
    BY <1>5, <1>6

-------------------------------------------------------------------------------
(* Every step.                                                              *)

LEMMA InitRefines == Init => RInv /\ Abstract!Init
<1> SUFFICES ASSUME Init PROVE RInv /\ Abstract!Init
    OBVIOUS
<1>1. /\ db.game = <<>> /\ db.game_user = {} /\ db.answer = <<>> /\ db.vote = {} /\ chat = {}
      /\ \A w \in Workers : worker[w].pc = "idle"
    BY DEF Init, EmptyDb, Idle
<1>2. Rest = <<>>
    BY <1>1 DEF Rest, Busy
<1>3. Settled = db
    BY <1>2, AfterNothing DEF Settled
<1>4. Announced = {}
    BY <1>1, <1>2 DEF Announced, ScoresIn, Said, Range
<1>5. Tidy(Settled, Announced)
    BY <1>1, <1>3, <1>4 DEF Tidy, Running, GameIds
<1>6. RInv
    BY <1>1, <1>3, <1>5 DEF RInv, UpToDate
<1>7. LastGame = 0 /\ phaseOf = "end" /\ currentOf = NoQuestion /\ votesOf = {}
    BY <1>1 DEF LastGame, phaseOf, currentOf, votesOf
<1>8. UsersOf(Settled, LastGame) = {} /\ Len(Settled.answer) = 0
    BY <1>1, <1>3 DEF UsersOf
<1>9. AnswersOf(Settled, LastGame) = Abstract!NoAnswers
    <2>1. TokensOf(Settled, LastGame) = {}
        BY <1>1, <1>3 DEF TokensOf
    <2> QED
        BY <2>1 DEF AnswersOf, Abstract!NoAnswers
<1> QED
    BY <1>6, <1>7, <1>8, <1>9 DEF Abstract!Init

LEMMA NothingRefines ==
    ASSUME RInv, UNCHANGED vars
    PROVE  RInv' /\ UNCHANGED Abstract!vars
<1>1. db' = db /\ worker' = worker /\ chat' = chat
    BY DEF vars
<1>2. Rest' = Rest
    BY <1>1 DEF Rest, Busy
<1>3. Settled' = Settled /\ Announced' = Announced
    BY <1>1, <1>2 DEF Settled, Announced
<1> QED
    BY <1>1, <1>3, Stutters DEF RInv

LEMMA StepRefines ==
    ASSUME SingleWorker, IInv, SInv, RInv, IInv', NEW w \in Workers, Step(w)
    PROVE  RInv' /\ (UNCHANGED Abstract!vars \/ Abstract!Next)
<1> DEFINE x == worker[w]
           Fine == RInv' /\ (UNCHANGED Abstract!vars \/ Abstract!Next)
<1>1. WorkerOK(db, x) /\ TablesOK(db)
    BY DEF IInv
<1>2. worker[w].pc # "run" => Settled = db
    BY NothingLeft
<1>3. \A t \in DOMAIN db.answer : worker[w].pc # "run" => t \in 1 .. Len(Settled.answer)
    BY <1>1, <1>2 DEF TablesOK
<1>4. ASSUME CreateGame(w) PROVE Fine
    <2>1. x.user \in Users
        BY <1>1, <1>4 DEF WorkerOK, CreateGame
    <2> QED
        BY <1>4, <2>1, CreateRefines DEF Abstract!Next
<1>5. ASSUME Join(w) PROVE Fine
    <2>1. x.user \in Users
        BY <1>1, <1>5 DEF WorkerOK, Join
    <2> QED
        BY <1>5, <2>1, JoinRefines DEF Abstract!Next
<1>6. ASSUME BeginUsers(w) \/ VoteAnswers(w) \/ VoteVotes(w) PROVE Fine
    BY <1>6, SelectRefines
<1>7. ASSUME BeginDraw(w) PROVE Fine
    BY <1>7, BeginRefines DEF Abstract!Next
<1>8. ASSUME Post(w) PROVE Fine
    <2>1. x.response \in Responses /\ x.pc # "run"
        BY <1>1, <1>8 DEF WorkerOK, Post
    <2>2. CASE UNCHANGED Abstract!vars
        BY <1>8, <2>2, PostRefines
    <2>3. CASE Abstract!AnswerPrompt(x.token, x.response)
        <3>1. x.token \in DOMAIN AnswersOf(Settled, LastGame)
            BY <2>3, SameAnswerRules DEF Abstract!AnswerPrompt, CanAnswer
        <3>2. x.token \in DOMAIN db.answer
            BY <1>2, <2>1, <3>1 DEF AnswersOf, TokensOf
        <3>3. x.token \in 1 .. Len(Settled.answer)
            BY <1>3, <2>1, <3>2
        <3> QED
            BY <1>8, <2>1, <2>3, <3>3, PostRefines DEF Abstract!Next
    <2> QED
        BY <1>8, <2>2, <2>3, PostRefines
<1>9. ASSUME VotePair(w) PROVE Fine
    <2>1. x.user \in Users /\ x.token \in 1 .. Len(Settled.answer)
        BY <1>1, <1>3, <1>9 DEF WorkerOK, VotePair
    <2> QED
        BY <1>9, <2>1, VotePairRefines DEF Abstract!Next
<1>10. ASSUME GameOver(w) PROVE Fine
    <2>1. x.token \in 1 .. Len(Settled.answer)
        BY <1>1, <1>3, <1>10 DEF WorkerOK, GameOver
    <2> QED
        BY <1>10, <2>1, GameOverRefines DEF Abstract!Next
<1>11. ASSUME Status(w) PROVE Fine
    BY <1>11, StatusRefines
<1>12. ASSUME Execute(w) PROVE Fine
    BY <1>12, ExecuteRefines
<1> HIDE DEF Fine
<1>13. Fine
    BY <1>4, <1>5, <1>6, <1>7, <1>8, <1>9, <1>10, <1>11, <1>12 DEF Step
<1> QED
    BY <1>13 DEF Fine

LEMMA NextRefines ==
    ASSUME SingleWorker, NoFailures
    PROVE  IInv /\ SInv /\ RInv /\ IInv' /\ [Next]_vars => RInv' /\ [Abstract!Next]_(Abstract!vars)
<1> SUFFICES ASSUME IInv, SInv, RInv, IInv', [Next]_vars
             PROVE  RInv' /\ [Abstract!Next]_(Abstract!vars)
    OBVIOUS
<1>1. CASE UNCHANGED vars
    BY <1>1, NothingRefines
<1>2. CASE Wait
    BY <1>2, NothingRefines DEF Wait
<1>3. ASSUME NEW w \in Workers, Receive(w) PROVE RInv' /\ [Abstract!Next]_(Abstract!vars)
    <2>1. CASE FindEnd(w)
        BY <2>1, EndRefines DEF Abstract!Next
    <2>2. CASE ~FindEnd(w)
        BY <1>3, <2>2, ReceiveRefines
    <2> QED
        BY <2>1, <2>2
<1>4. ASSUME NEW w \in Workers, Step(w) PROVE RInv' /\ [Abstract!Next]_(Abstract!vars)
    BY <1>4, StepRefines
<1>5. ASSUME NEW w \in Workers PROVE ~Fail(w)
    BY DEF Fail, StatementFails, MessageFails, NoFailures, IInv
<1> QED
    BY <1>1, <1>2, <1>3, <1>4, <1>5 DEF Next

-------------------------------------------------------------------------------
(* With one worker and nothing that fails, the statements of a handler add up *)
(* to one action of Game, whatever requests arrive: what is proved of Game    *)
(* holds of the bot.                                                         *)
THEOREM BotImplementsGame == ASSUME SingleWorker, NoFailures PROVE Spec => ImplementsGame
<1>1. Init => (IInv /\ SInv /\ RInv) /\ Abstract!Init
    BY InitIInv, InitSInv, InitRefines
<1>2. IInv /\ SInv /\ RInv /\ [Next]_vars => (IInv /\ SInv /\ RInv)' /\ [Abstract!Next]_(Abstract!vars)
    BY NextIInv, NextSInv, NextRefines
<1> QED
    BY <1>1, <1>2, PTL DEF Spec, ImplementsGame, Abstract!Spec

-------------------------------------------------------------------------------
(* What the theorems about Game say of the bot.                             *)

(* The same instance, with the theorems.                                    *)
Proved == INSTANCE GameProofs WITH
    phase <- phaseOf,
    users <- UsersOf(Settled, LastGame),
    answers <- AnswersOf(Settled, LastGame),
    current <- currentOf,
    votes <- votesOf,
    issued <- Len(Settled.answer),
    MaxTokens <- MaxAnswers

LEMMA SameGame == Abstract!Spec => Proved!Spec
<1>1. Abstract!Init => Proved!Init
    BY DEF Abstract!Init, Proved!Init, Abstract!NoAnswers, Proved!NoAnswers
<1>2. \A S : Abstract!Min(S) = Proved!Min(S) /\ Abstract!Cardinality(S) = Proved!Cardinality(S)
    BY DEF Abstract!Min, Proved!Min, Abstract!Cardinality, Proved!Cardinality
<1>3. \A u \in Users : Abstract!NewGame(u) => Proved!NewGame(u)
    BY DEF Abstract!NewGame, Proved!NewGame, Abstract!NoAnswers, Proved!NoAnswers
<1>4. \A u \in Users : Abstract!JoinGame(u) => Proved!JoinGame(u)
    BY DEF Abstract!JoinGame, Proved!JoinGame
<1>5. Abstract!BeginGame => Proved!BeginGame
    BY DEF Abstract!BeginGame, Proved!BeginGame, Abstract!MinPlayers, Proved!MinPlayers,
        Abstract!Orders, Proved!Orders, Abstract!Draws, Proved!Draws,
        Abstract!Deal, Proved!Deal, Abstract!DealtSlot, Proved!DealtSlot,
        Abstract!Bijection, Proved!Bijection, Abstract!Injection, Proved!Injection,
        Abstract!Surjection, Proved!Surjection, Abstract!IsInjective, Proved!IsInjective,
        Abstract!Cardinality, Proved!Cardinality
<1>6. \A t \in 1 .. Len(Settled.answer), r \in Responses :
          Abstract!AnswerPrompt(t, r) => Proved!AnswerPrompt(t, r)
    BY DEF Abstract!AnswerPrompt, Proved!AnswerPrompt, Abstract!Filled, Proved!Filled,
        Abstract!CanAnswer, Proved!CanAnswer, Abstract!Unanswered, Proved!Unanswered,
        Abstract!Answered, Proved!Answered, Abstract!AnswerTarget, Proved!AnswerTarget,
        Abstract!AllAnswersAreIn, Proved!AllAnswersAreIn,
        Abstract!NextAnswer, Proved!NextAnswer, Abstract!Unvoted, Proved!Unvoted,
        Abstract!VotedQuestions, Proved!VotedQuestions, Abstract!Min, Proved!Min
<1>7. \A u \in Users, t \in 1 .. Len(Settled.answer) : Abstract!Vote(u, t) => Proved!Vote(u, t)
    BY DEF Abstract!Vote, Proved!Vote, Abstract!Pairs, Proved!Pairs,
        Abstract!Option, Proved!Option, Abstract!VoteAccepted, Proved!VoteAccepted,
        Abstract!VotersOn, Proved!VotersOn, Abstract!Tokens, Proved!Tokens,
        Abstract!PairAuthors, Proved!PairAuthors, Abstract!Authors, Proved!Authors,
        Abstract!AllVotesAreIn, Proved!AllVotesAreIn,
        Abstract!VotedQuestions, Proved!VotedQuestions,
        Abstract!AskedQuestions, Proved!AskedQuestions,
        Abstract!CurrentVotesAreIn, Proved!CurrentVotesAreIn,
        Abstract!RemainingVotes, Proved!RemainingVotes,
        Abstract!NextAnswer, Proved!NextAnswer, Abstract!Unvoted, Proved!Unvoted,
        Abstract!Min, Proved!Min, Abstract!Cardinality, Proved!Cardinality
<1>8. Abstract!EndGame => Proved!EndGame
    BY DEF Abstract!EndGame, Proved!EndGame
<1>9. [Abstract!Next]_(Abstract!vars) => [Proved!Next]_(Proved!vars)
    BY <1>3, <1>4, <1>5, <1>6, <1>7, <1>8 DEF Abstract!Next, Proved!Next, Abstract!vars, Proved!vars
<1> QED
    BY <1>1, <1>9, PTL DEF Abstract!Spec, Proved!Spec

(* What the invariants of Game say of the game that runs. *)
LEMMA RunningGameGoesOn ==
    ASSUME IInv, RInv, AllDone, Proved!AlwaysAVoter, Proved!PromptIsOpen, NEW g \in Playing
    PROVE  LET read == AnswersOf(db, g)
           IN  IF g \in Voting
               THEN \E pair \in PairsOf(db, g) : RemainingVotes(pair, read, VotesOf(db, g)) # {}
               ELSE ~AllAnswersAreIn(read)
<1> DEFINE read == AnswersOf(db, g)
<1>1. Rest = <<>>
    BY DEF Rest, Busy, AllDone
<1>2. Settled = db
    BY <1>1, AfterNothing DEF Settled
<1>3. g = Len(db.game)
    BY <1>2 DEF RInv, Tidy, Playing, Running
<1>4. Len(db.game) # 0
    BY <1>3 DEF Playing, GameIds, IInv, TablesOK
<1>5. /\ phaseOf = db.game[g].state /\ currentOf = db.game[g].question
      /\ AnswersOf(Settled, LastGame) = read
    BY <1>2, <1>3, <1>4 DEF LastGame, phaseOf, currentOf
<1>6. CASE g \in Voting
    <2>1. phaseOf = "gather_votes" /\ votesOf = VotesOf(db, g)
        BY <1>2, <1>3, <1>4, <1>5, <1>6 DEF Voting, votesOf, LastGame
    <2>2. PICK pair \in Proved!Pairs(db.game[g].question, read) :
              Proved!RemainingVotes(pair, read, VotesOf(db, g)) # {}
        BY <1>5, <2>1 DEF Proved!AlwaysAVoter
    <2>3. pair \in PairsOf(db, g)
        BY DEF PairsOf, Pairs, Proved!Pairs, Option, Proved!Option
    <2>4. RemainingVotes(pair, read, VotesOf(db, g)) # {}
        BY <2>2 DEF RemainingVotes, Proved!RemainingVotes, Authors, Proved!Authors,
            VotersOn, Proved!VotersOn, Tokens, Proved!Tokens, PairAuthors, Proved!PairAuthors
    <2> QED
        BY <1>6, <2>3, <2>4
<1>7. CASE g \notin Voting
    <2>1. phaseOf = "gather_answers"
        BY <1>5, <1>7 DEF Playing, Voting
    <2>2. ~Proved!AllAnswersAreIn(read)
        BY <1>5, <2>1 DEF Proved!PromptIsOpen
    <2>3. ~AllAnswersAreIn(read)
        BY <2>2 DEF AllAnswersAreIn, Proved!AllAnswersAreIn, Answered, Proved!Answered
    <2> QED
        BY <1>7, <2>3
<1> QED
    BY <1>6, <1>7

(* Whenever the worker is done a game under way waits for an answer nobody    *)
(* has given or a vote somebody may still cast, not for /end alone.  (With two *)
(* workers, or a statement that fails, TLC finds it violated.)                *)
THEOREM GamesNeverHang == ASSUME SingleWorker, NoFailures PROVE Spec => []NeverHangs
<1>1. Spec => [](IInv /\ SInv /\ RInv)
    <2>1. Init => IInv /\ SInv /\ RInv
        BY InitIInv, InitSInv, InitRefines
    <2>2. IInv /\ SInv /\ RInv /\ [Next]_vars => (IInv /\ SInv /\ RInv)'
        BY NextIInv, NextSInv, NextRefines
    <2> QED
        BY <2>1, <2>2, PTL DEF Spec
<1>2. Proved!ConstantsAssumption
    BY BotAssumption DEF Proved!ConstantsAssumption
<1>3. Proved!Spec => []Proved!AlwaysAVoter
    BY <1>2, Proved!GameNeverHangs
<1>4. Proved!Spec => []Proved!PromptIsOpen
    BY <1>2, Proved!SpecPromptIsOpen
<1>5. Spec => Proved!Spec
    BY BotImplementsGame, SameGame DEF ImplementsGame
<1>6. IInv /\ RInv /\ Proved!AlwaysAVoter /\ Proved!PromptIsOpen => NeverHangs
    BY RunningGameGoesOn DEF NeverHangs
<1> QED
    BY <1>1, <1>3, <1>4, <1>5, <1>6, PTL
===============================================================================
