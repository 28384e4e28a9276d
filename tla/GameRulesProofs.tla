---------------------------- MODULE GameRulesProofs ----------------------------
(***************************************************************************)
(* Lemmas about the pure functions of the game, for any answers and votes:   *)
(* what the proofs about Game, PromptPage and Bot have in common.            *)
(***************************************************************************)
EXTENDS GameRules, Functions, FiniteSetTheorems, WellFoundedInduction, TLAPS

-------------------------------------------------------------------------------
(* The rows the code takes first.                                           *)

(* A non-empty set of tokens has a first one, which find() returns. *)
LEMMA MinOfNaturals ==
    ASSUME NEW S, S \subseteq Nat, S # {}
    PROVE  Min(S) \in S /\ \A y \in S : Min(S) =< y
<1>1. \E x \in S : \A y \in S : ~ (<<y, x>> \in OpToRel(<, Nat))
    BY NatLessThanWellFounded, WFMin
<1>2. PICK x \in S : \A y \in S : ~ (<<y, x>> \in OpToRel(<, Nat))
    BY <1>1
<1>3. \A y \in S : x =< y
    <2> SUFFICES ASSUME NEW y \in S PROVE x =< y
        OBVIOUS
    <2>1. <<y, x>> \in Nat \X Nat
        OBVIOUS
    <2>2. ~ (y < x)
        BY <1>2, <2>1 DEF OpToRel
    <2> QED
        BY <2>2
<1> QED
    BY <1>3 DEF Min

(* A response goes to an unanswered prompt of the player whose token it came *)
(* with.                                                                     *)
LEMMA AnswerTargetIsUnanswered ==
    ASSUME NEW f, DOMAIN f \subseteq Nat, NEW t, CanAnswer(t, f)
    PROVE  AnswerTarget(t, f) \in Unanswered(f[t].user, f)
<1>1. CASE ~Answered(f, t)
    BY <1>1 DEF AnswerTarget, Unanswered, CanAnswer
<1>2. CASE Answered(f, t)
    <2>1. Unanswered(f[t].user, f) \subseteq Nat /\ Unanswered(f[t].user, f) # {}
        BY DEF Unanswered, CanAnswer
    <2> QED
        BY <1>2, <2>1, MinOfNaturals DEF AnswerTarget
<1> QED
    BY <1>1, <1>2

-------------------------------------------------------------------------------
(* The deal.                                                                *)

(* n questions of Q dealt to the users S fill the 2n rows after `last': every *)
(* user is prompted and every row has another one with the same question.     *)
SoundDeal(f, n, S, Q, last) ==
    /\ DOMAIN f = last + 1 .. last + 2 * n
    /\ f \in [DOMAIN f -> [user : S, question : Q, response : {NoResponse}]]
    /\ Authors(f) = S
    /\ \A t \in DOMAIN f : Others(t, f) # {}

(* The two rows of question i are next to each other: the first is the i-th    *)
(* user's, the second that of the one after.                                  *)
Rows(f, n, order, draw, last) ==
    /\ DOMAIN f = last + 1 .. last + 2 * n
    /\ \A i \in 1 .. n :
        /\ last + (2 * i - 1) \in DOMAIN f /\ last + 2 * i \in DOMAIN f
        /\ f[last + (2 * i - 1)] =
              [user |-> order[i], question |-> draw[i], response |-> NoResponse]
        /\ f[last + 2 * i] =
              [user |-> IF i = n THEN order[1] ELSE order[i + 1],
               question |-> draw[i], response |-> NoResponse]
    /\ \A t \in DOMAIN f :
        \E i \in 1 .. n : t = last + (2 * i - 1) \/ t = last + 2 * i

LEMMA DealFillsRows ==
    ASSUME NEW n \in Nat, n >= 1, NEW S, NEW order \in Bijection(1 .. n, S),
           NEW Q, NEW draw \in [1 .. n -> Q], NEW last \in Nat
    PROVE  Rows(Deal(order, draw, last), n, order, draw, last)
<1> DEFINE dealt == Deal(order, draw, last)
<1>1. order \in [1 .. n -> S]
    BY DEF Bijection, Injection
<1>2. DOMAIN order = 1 .. n /\ DOMAIN draw = 1 .. n /\ Cardinality(1 .. n) = n
    BY <1>1, FS_Interval
<1>3. DOMAIN dealt = last + 1 .. last + 2 * n
    BY <1>2 DEF Deal
<1>4. \A t \in DOMAIN dealt : dealt[t] = DealtSlot(order, draw, t - last)
    BY <1>2, <1>3 DEF Deal
<1>5. \A i \in 1 .. n :
        /\ last + (2 * i - 1) \in DOMAIN dealt /\ last + 2 * i \in DOMAIN dealt
        /\ dealt[last + (2 * i - 1)] =
              [user |-> order[i], question |-> draw[i], response |-> NoResponse]
        /\ dealt[last + 2 * i] =
              [user |-> IF i = n THEN order[1] ELSE order[i + 1],
               question |-> draw[i], response |-> NoResponse]
    <2> SUFFICES ASSUME NEW i \in 1 .. n
                 PROVE  /\ last + (2 * i - 1) \in DOMAIN dealt /\ last + 2 * i \in DOMAIN dealt
                        /\ dealt[last + (2 * i - 1)] =
                              [user |-> order[i], question |-> draw[i], response |-> NoResponse]
                        /\ dealt[last + 2 * i] =
                              [user |-> IF i = n THEN order[1] ELSE order[i + 1],
                               question |-> draw[i], response |-> NoResponse]
        OBVIOUS
    <2>1. last + (2 * i - 1) \in DOMAIN dealt /\ last + 2 * i \in DOMAIN dealt
        BY <1>3
    <2>2. ((2 * i - 1) + 1) \div 2 = i /\ (2 * i - 1) % 2 = 1
        OBVIOUS
    <2>3. (2 * i + 1) \div 2 = i /\ (2 * i) % 2 = 0
        OBVIOUS
    <2>4. (last + (2 * i - 1)) - last = 2 * i - 1 /\ (last + 2 * i) - last = 2 * i
        OBVIOUS
    <2>5. dealt[last + (2 * i - 1)] = DealtSlot(order, draw, 2 * i - 1)
        BY <1>4, <2>1, <2>4
    <2>6. dealt[last + 2 * i] = DealtSlot(order, draw, 2 * i)
        BY <1>4, <2>1, <2>4
    <2> QED
        BY <1>2, <2>1, <2>2, <2>3, <2>5, <2>6 DEF DealtSlot
<1>6. \A t \in DOMAIN dealt : \E i \in 1 .. n : t = last + (2 * i - 1) \/ t = last + 2 * i
    <2> SUFFICES ASSUME NEW t \in DOMAIN dealt
                 PROVE  \E i \in 1 .. n : t = last + (2 * i - 1) \/ t = last + 2 * i
        OBVIOUS
    <2>1. PICK k \in 1 .. 2 * n : t = last + k
        BY <1>3
    <2>2. k = 2 * ((k + 1) \div 2) - 1 \/ k = 2 * ((k + 1) \div 2)
        OBVIOUS
    <2>3. (k + 1) \div 2 \in 1 .. n
        OBVIOUS
    <2> QED
        BY <2>1, <2>2, <2>3
<1> QED
    BY <1>3, <1>5, <1>6 DEF Rows

(* begin_game deals like that: the two slots of a question are next to each   *)
(* other, and the first one goes through all the users.                       *)
LEMMA DealIsSound ==
    ASSUME NEW n \in Nat, n >= 1, NEW S, NEW order \in Bijection(1 .. n, S),
           NEW Q, NEW draw \in [1 .. n -> Q], NEW last \in Nat
    PROVE  SoundDeal(Deal(order, draw, last), n, S, Q, last)
<1> DEFINE dealt == Deal(order, draw, last)
<1>1. order \in [1 .. n -> S] /\ \A u \in S : \E i \in 1 .. n : order[i] = u
    BY DEF Bijection, Injection, Surjection
<1>2. Rows(dealt, n, order, draw, last)
    BY DealFillsRows
<1>3. DOMAIN dealt = last + 1 .. last + 2 * n
    BY <1>2 DEF Rows
<1>4. \A i \in 1 .. n :
        /\ last + (2 * i - 1) \in DOMAIN dealt /\ last + 2 * i \in DOMAIN dealt
        /\ dealt[last + (2 * i - 1)] =
              [user |-> order[i], question |-> draw[i], response |-> NoResponse]
        /\ dealt[last + 2 * i] =
              [user |-> IF i = n THEN order[1] ELSE order[i + 1],
               question |-> draw[i], response |-> NoResponse]
    BY <1>2 DEF Rows
<1>5. \A t \in DOMAIN dealt : \E i \in 1 .. n : t = last + (2 * i - 1) \/ t = last + 2 * i
    BY <1>2 DEF Rows
<1> HIDE DEF dealt
<1>6. dealt \in [DOMAIN dealt -> [user : S, question : Q, response : {NoResponse}]]
    <2>1. \A t \in DOMAIN dealt : dealt[t] \in [user : S, question : Q, response : {NoResponse}]
        <3> SUFFICES ASSUME NEW t \in DOMAIN dealt
                     PROVE  dealt[t] \in [user : S, question : Q, response : {NoResponse}]
            OBVIOUS
        <3>1. PICK i \in 1 .. n : t = last + (2 * i - 1) \/ t = last + 2 * i
            BY <1>5
        <3>2. order[i] \in S /\ (IF i = n THEN order[1] ELSE order[i + 1]) \in S /\ draw[i] \in Q
            BY <1>1
        <3>3. CASE t = last + (2 * i - 1)
            <4>1. dealt[t] = [user |-> order[i], question |-> draw[i], response |-> NoResponse]
                BY <1>4, <3>3
            <4> QED
                BY <3>2, <4>1
        <3>4. CASE t = last + 2 * i
            <4>1. dealt[t] = [user |-> IF i = n THEN order[1] ELSE order[i + 1],
                              question |-> draw[i], response |-> NoResponse]
                BY <1>4, <3>4
            <4> QED
                BY <3>2, <4>1
        <3> QED
            BY <3>1, <3>3, <3>4
    <2>2. dealt = [t \in DOMAIN dealt |-> dealt[t]]
        BY DEF dealt, Deal
    <2> QED
        BY <2>1, <2>2
<1>7. Authors(dealt) = S
    <2>1. Authors(dealt) \subseteq S
        BY <1>6 DEF Authors
    <2>2. ASSUME NEW u \in S PROVE u \in Authors(dealt)
        <3>1. PICK i \in 1 .. n : order[i] = u
            BY <1>1
        <3>2. last + (2 * i - 1) \in DOMAIN dealt
            BY <1>4
        <3>3. dealt[last + (2 * i - 1)] =
                  [user |-> order[i], question |-> draw[i], response |-> NoResponse]
            BY <1>4
        <3>4. dealt[last + (2 * i - 1)].user = u
            BY <3>1, <3>3
        <3> QED
            BY <3>2, <3>4 DEF Authors
    <2> QED
        BY <2>1, <2>2
<1>8. \A t \in DOMAIN dealt : Others(t, dealt) # {}
    <2> SUFFICES ASSUME NEW t \in DOMAIN dealt PROVE \E s : s \in Others(t, dealt)
        OBVIOUS
    <2>1. PICK i \in 1 .. n : t = last + (2 * i - 1) \/ t = last + 2 * i
        BY <1>5
    <2>2. last + (2 * i - 1) # last + 2 * i
        OBVIOUS
    <2>3. last + (2 * i - 1) \in DOMAIN dealt /\ last + 2 * i \in DOMAIN dealt
        BY <1>4
    <2>4. dealt[last + (2 * i - 1)].question = draw[i] /\ dealt[last + 2 * i].question = draw[i]
        <3>1. dealt[last + (2 * i - 1)] =
                  [user |-> order[i], question |-> draw[i], response |-> NoResponse]
            BY <1>4
        <3>2. dealt[last + 2 * i] =
                  [user |-> IF i = n THEN order[1] ELSE order[i + 1],
                   question |-> draw[i], response |-> NoResponse]
            BY <1>4
        <3> QED
            BY <3>1, <3>2
    <2>5. CASE t = last + (2 * i - 1)
        BY <2>2, <2>3, <2>4, <2>5 DEF Others
    <2>6. CASE t = last + 2 * i
        BY <2>2, <2>3, <2>4, <2>6 DEF Others
    <2> QED
        BY <2>1, <2>5, <2>6
<1> QED
    BY <1>3, <1>6, <1>7, <1>8 DEF dealt, SoundDeal

-------------------------------------------------------------------------------
(* Votes and pairs.                                                         *)

(* The game goes on only while some question has no vote. *)
LEMMA NotAllInMeansUnvoted ==
    ASSUME NEW f, NEW ballots, \A v \in ballots : v.token \in DOMAIN f,
           ~ AllVotesAreIn(f, ballots)
    PROVE  Unvoted(f, ballots) # {}
<1> SUFFICES ASSUME Unvoted(f, ballots) = {}
             PROVE  VotedQuestions(f, ballots) = AskedQuestions(f)
    BY DEF AllVotesAreIn
<1>1. VotedQuestions(f, ballots) \subseteq AskedQuestions(f)
    BY DEF VotedQuestions, AskedQuestions
<1>2. AskedQuestions(f) \subseteq VotedQuestions(f, ballots)
    BY DEF AskedQuestions, Unvoted
<1> QED
    BY <1>1, <1>2

(* all_votes_are_in compares the sizes of two sets, which are the same set    *)
(* then, since no vote is on a question that was not asked.                  *)
LEMMA AllInMeansAllVoted ==
    ASSUME NEW f, IsFiniteSet(DOMAIN f), NEW ballots, \A v \in ballots : v.token \in DOMAIN f
    PROVE  AllVotesAreIn(f, ballots) <=> VotedQuestions(f, ballots) = AskedQuestions(f)
<1>1. IsFiniteSet(AskedQuestions(f))
    <2> DEFINE asks == [t \in DOMAIN f |-> f[t].question]
    <2>1. asks \in Surjection(DOMAIN f, AskedQuestions(f))
        BY DEF AskedQuestions, Surjection
    <2> QED
        BY <2>1, FS_Surjection
<1>2. VotedQuestions(f, ballots) \subseteq AskedQuestions(f)
    BY DEF VotedQuestions, AskedQuestions
<1> QED
    BY <1>1, <1>2, FS_Subset DEF AllVotesAreIn

(* The prompts are finitely many. *)
LEMMA RowsFinite ==
    ASSUME NEW f, NEW m \in Nat, DOMAIN f \subseteq 1 .. m
    PROVE  IsFiniteSet(DOMAIN f) /\ \A t : IsFiniteSet(Others(t, f))
<1>1. IsFiniteSet(1 .. m)
    BY FS_Interval
<1>2. IsFiniteSet(DOMAIN f)
    BY <1>1, FS_Subset
<1>3. \A t : Others(t, f) \subseteq DOMAIN f
    BY DEF Others
<1> QED
    BY <1>2, <1>3, FS_Subset

(* A row with one other row only has no two. *)
LEMMA OneOther ==
    ASSUME NEW f, NEW t, IsFiniteSet(Others(t, f)), Cardinality(Others(t, f)) = 1,
           NEW r \in Others(t, f), NEW s \in Others(t, f)
    PROVE  r = s
<1>1. PICK x : Others(t, f) = {x}
    BY FS_Singleton
<1> QED
    BY <1>1

LEMMA PairHasTwo == ASSUME NEW x, NEW y, x # y PROVE Cardinality({x, y}) = 2
<1>1. IsFiniteSet({x}) /\ Cardinality({x}) = 1
    BY FS_Singleton
<1>2. Cardinality({x} \cup {y}) = 2
    BY <1>1, FS_AddElement
<1>3. {x} \cup {y} = {x, y}
    OBVIOUS
<1> QED
    BY <1>2, <1>3, Zenon

(* A draw without repetition gives every row one other row. *)
LEMMA InjectiveDrawIsDistinct ==
    ASSUME NEW n \in Nat, NEW Q, NEW draw \in [1 .. n -> Q], IsInjective(draw),
           NEW order, NEW last \in Nat, NEW f, Rows(f, n, order, draw, last)
    PROVE  \A t \in DOMAIN f : Cardinality(Others(t, f)) = 1
<1> SUFFICES ASSUME NEW t \in DOMAIN f PROVE \E x : Others(t, f) = {x}
    BY FS_Singleton
<1>1. \A k \in 1 .. n :
        /\ last + (2 * k - 1) \in DOMAIN f /\ last + 2 * k \in DOMAIN f
        /\ f[last + (2 * k - 1)].question = draw[k] /\ f[last + 2 * k].question = draw[k]
    <2> SUFFICES ASSUME NEW k \in 1 .. n
                 PROVE  /\ last + (2 * k - 1) \in DOMAIN f /\ last + 2 * k \in DOMAIN f
                        /\ f[last + (2 * k - 1)].question = draw[k]
                        /\ f[last + 2 * k].question = draw[k]
        OBVIOUS
    <2>1. /\ last + (2 * k - 1) \in DOMAIN f /\ last + 2 * k \in DOMAIN f
          /\ f[last + (2 * k - 1)] =
                [user |-> order[k], question |-> draw[k], response |-> NoResponse]
          /\ f[last + 2 * k] =
                [user |-> IF k = n THEN order[1] ELSE order[k + 1],
                 question |-> draw[k], response |-> NoResponse]
        BY DEF Rows
    <2> QED
        BY <2>1
<1>2. \A k, l \in 1 .. n : draw[k] = draw[l] => k = l
    BY DEF IsInjective
<1>3. \A s \in DOMAIN f : \E k \in 1 .. n : s = last + (2 * k - 1) \/ s = last + 2 * k
    BY DEF Rows
<1>4. PICK i \in 1 .. n : t = last + (2 * i - 1) \/ t = last + 2 * i
    BY <1>3
<1>5. \A s \in Others(t, f) : s = last + (2 * i - 1) \/ s = last + 2 * i
    <2> SUFFICES ASSUME NEW s \in Others(t, f) PROVE s = last + (2 * i - 1) \/ s = last + 2 * i
        OBVIOUS
    <2>1. s \in DOMAIN f /\ f[s].question = f[t].question
        BY DEF Others
    <2>2. PICK k \in 1 .. n : s = last + (2 * k - 1) \/ s = last + 2 * k
        BY <1>3, <2>1
    <2>3. f[s].question = draw[k] /\ f[t].question = draw[i]
        BY <1>1, <1>4, <2>2
    <2> QED
        BY <1>2, <2>1, <2>2, <2>3
<1>6. last + (2 * i - 1) # last + 2 * i
    OBVIOUS
<1>7. CASE t = last + (2 * i - 1)
    <2>1. Others(t, f) = {last + 2 * i}
        BY <1>1, <1>5, <1>6, <1>7 DEF Others
    <2> QED
        BY <2>1
<1>8. CASE t = last + 2 * i
    <2>1. Others(t, f) = {last + (2 * i - 1)}
        BY <1>1, <1>5, <1>6, <1>8 DEF Others
    <2> QED
        BY <2>1
<1> QED
    BY <1>4, <1>7, <1>8

(* The question dealt before question i, the first one after the last. *)
Before(i, n) == IF i = 1 THEN n ELSE i - 1

(* User u has two prompts, to two questions if none is repeated. *)
FairTo(u, f) ==
    LET mine == {t \in DOMAIN f : f[t].user = u}
    IN  /\ Cardinality(mine) = 2
        /\ (\A t \in DOMAIN f : Cardinality(Others(t, f)) = 1)
              => Cardinality({f[t].question : t \in mine}) = 2

(* Every player gets two prompts: the first row of a question, and the second *)
(* row of the question before.  Were the two to the same question, it would   *)
(* have four rows.                                                            *)
LEMMA DealIsFair ==
    ASSUME NEW n \in Nat, n >= 3, NEW S, NEW order \in Bijection(1 .. n, S),
           NEW draw, NEW last \in Nat, NEW f, Rows(f, n, order, draw, last),
           NEW u \in S
    PROVE  FairTo(u, f)
<1> DEFINE mine == {t \in DOMAIN f : f[t].user = u}
<1>1. \A k \in 1 .. n :
        /\ last + (2 * k - 1) \in DOMAIN f /\ last + 2 * k \in DOMAIN f
        /\ f[last + (2 * k - 1)].user = order[k]
        /\ f[last + 2 * k].user = order[IF k = n THEN 1 ELSE k + 1]
        /\ f[last + (2 * k - 1)].question = draw[k] /\ f[last + 2 * k].question = draw[k]
    <2> SUFFICES ASSUME NEW k \in 1 .. n
                 PROVE  /\ last + (2 * k - 1) \in DOMAIN f /\ last + 2 * k \in DOMAIN f
                        /\ f[last + (2 * k - 1)].user = order[k]
                        /\ f[last + 2 * k].user = order[IF k = n THEN 1 ELSE k + 1]
                        /\ f[last + (2 * k - 1)].question = draw[k]
                        /\ f[last + 2 * k].question = draw[k]
        OBVIOUS
    <2>1. /\ last + (2 * k - 1) \in DOMAIN f /\ last + 2 * k \in DOMAIN f
          /\ f[last + (2 * k - 1)] =
                [user |-> order[k], question |-> draw[k], response |-> NoResponse]
          /\ f[last + 2 * k] =
                [user |-> IF k = n THEN order[1] ELSE order[k + 1],
                 question |-> draw[k], response |-> NoResponse]
        BY DEF Rows
    <2> QED
        BY <2>1
<1>2. \A k, l \in 1 .. n : order[k] = order[l] => k = l
    BY DEF Bijection, Injection, IsInjective
<1>3. PICK i \in 1 .. n : order[i] = u
    BY DEF Bijection, Surjection
<1> DEFINE j == Before(i, n)
           a == last + (2 * i - 1)
           b == last + 2 * j
<1>4. j \in 1 .. n /\ j # i /\ (IF j = n THEN 1 ELSE j + 1) = i
    BY DEF Before
<1>5. \A k \in 1 .. n : k # j => (IF k = n THEN 1 ELSE k + 1) # i
    BY DEF Before
<1> HIDE DEF j
<1>6. mine = {a, b}
    <2>1. a \in mine /\ b \in mine
        BY <1>1, <1>3, <1>4
    <2>2. ASSUME NEW t \in mine PROVE t \in {a, b}
        <3>1. PICK k \in 1 .. n : t = last + (2 * k - 1) \/ t = last + 2 * k
            BY <2>2 DEF Rows
        <3>2. CASE t = last + (2 * k - 1)
            BY <1>1, <1>2, <1>3, <3>2
        <3>3. CASE t = last + 2 * k
            <4>1. (IF k = n THEN 1 ELSE k + 1) \in 1 .. n
                OBVIOUS
            <4>2. (IF k = n THEN 1 ELSE k + 1) = i
                BY <1>1, <1>2, <1>3, <3>3, <4>1
            <4>3. k = j
                BY <1>5, <4>2
            <4> QED
                BY <3>3, <4>3
        <3> QED
            BY <3>1, <3>2, <3>3
    <2> QED
        BY <2>1, <2>2
<1>7. a # b /\ a \in Nat /\ b \in Nat
    BY <1>4
<1>8. \A x, y : x # y => Cardinality({x, y}) = 2
    BY PairHasTwo
<1>9. /\ a \in DOMAIN f /\ a + 1 \in DOMAIN f /\ b \in DOMAIN f /\ b - 1 \in DOMAIN f
      /\ f[a].question = draw[i] /\ f[a + 1].question = draw[i]
      /\ f[b].question = draw[j] /\ f[b - 1].question = draw[j]
    <2>1. a + 1 = last + 2 * i /\ b - 1 = last + (2 * j - 1)
        BY <1>4
    <2> QED
        BY <1>1, <1>4, <2>1
<1>10. ASSUME \A t \in DOMAIN f : Cardinality(Others(t, f)) = 1
       PROVE  f[a].question # f[b].question
    <2> SUFFICES ASSUME f[a].question = f[b].question PROVE FALSE
        OBVIOUS
    <2>1. b - 1 = last + (2 * j - 1)
        BY <1>4
    <2>2. b # a /\ b - 1 # a /\ b - 1 # b
        BY <1>4, <1>7, <2>1
    <2>3. b \in Others(a, f) /\ b - 1 \in Others(a, f)
        BY <1>9, <2>2 DEF Others
    <2>4. IsFiniteSet(Others(a, f))
        <3>1. last + 2 * n \in Nat /\ last + 1 .. last + 2 * n \subseteq 1 .. last + 2 * n
            OBVIOUS
        <3>2. DOMAIN f \subseteq 1 .. last + 2 * n
            BY <3>1 DEF Rows
        <3> QED
            BY <3>1, <3>2, RowsFinite
    <2> QED
        BY <1>9, <1>10, <2>2, <2>3, <2>4, OneOther
<1> HIDE DEF a, b
<1>11. {f[t].question : t \in mine} = {f[a].question, f[b].question}
    BY <1>6
<1> QED
    <2>1. Cardinality({a, b}) = 2
        BY <1>7, <1>8
    <2>2. (\A t \in DOMAIN f : Cardinality(Others(t, f)) = 1)
              => Cardinality({f[a].question, f[b].question}) = 2
        BY <1>8, <1>10
    <2> QED
        BY <1>6, <1>11, <2>1, <2>2 DEF FairTo

(* The two players of a question are two: there are at least as many players  *)
(* as it takes for the one after another to be another.                       *)
LEMMA DealPairsPlayers ==
    ASSUME NEW n \in Nat, n >= 2, NEW S, NEW order \in Bijection(1 .. n, S),
           NEW draw, NEW last \in Nat, NEW f, Rows(f, n, order, draw, last),
           NEW t \in DOMAIN f
    PROVE  \E s \in Others(t, f) : f[s].user # f[t].user
<1>1. PICK i \in 1 .. n : t = last + (2 * i - 1) \/ t = last + 2 * i
    BY DEF Rows
<1> DEFINE a == last + (2 * i - 1)
           b == last + 2 * i
           j == IF i = n THEN 1 ELSE i + 1
<1>2. /\ a \in DOMAIN f /\ b \in DOMAIN f
      /\ f[a] = [user |-> order[i], question |-> draw[i], response |-> NoResponse]
      /\ f[b] = [user |-> order[j], question |-> draw[i], response |-> NoResponse]
    <2>1. order[j] = IF i = n THEN order[1] ELSE order[i + 1]
        OBVIOUS
    <2> QED
        BY <2>1 DEF Rows
<1>3. i \in 1 .. n /\ j \in 1 .. n /\ i # j /\ a # b
    OBVIOUS
<1>4. order[i] # order[j]
    <2> HIDE DEF j
    <2> QED
        BY <1>3 DEF Bijection, Injection, IsInjective
<1> HIDE DEF a, b, j
<1>5. /\ f[a].user = order[i] /\ f[b].user = order[j]
      /\ f[a].question = draw[i] /\ f[b].question = draw[i]
    BY <1>2
<1>6. t = a \/ t = b
    BY <1>1 DEF a, b
<1> QED
    BY <1>2, <1>3, <1>4, <1>5, <1>6 DEF Others

LEMMA TwoAreAPair ==
    ASSUME NEW S, IsFiniteSet(S), Cardinality(S) = 2
    PROVE  \E a, b : a # b /\ S = {a, b}
<1>1. S # {}
    BY FS_EmptySet
<1>2. PICK a \in S : TRUE
    BY <1>1
<1>3. IsFiniteSet(S \ {a}) /\ Cardinality(S \ {a}) = 1
    BY <1>2, FS_RemoveElement
<1>4. PICK b : S \ {a} = {b}
    BY <1>3, FS_Singleton
<1> QED
    BY <1>2, <1>4

(* A pair is two prompts to its question, and without repetition all of them: *)
(* it names all its players, and all who voted on it.                         *)
LEMMA PairTokens ==
    ASSUME NEW f, NEW q, NEW pair \in Pairs(q, f)
    PROVE  \E a, b \in DOMAIN f :
              /\ a # b /\ f[a].question = q /\ f[b].question = q
              /\ Tokens(pair) = {a, b} /\ PairAuthors(pair) = {f[a].user, f[b].user}
<1>1. PICK p \in (DOMAIN f) \X (DOMAIN f) :
          /\ p[1] # p[2] /\ f[p[1]].question = q /\ f[p[2]].question = q
          /\ pair = <<Option(p[1], f), Option(p[2], f)>>
    BY DEF Pairs
<1>2. pair[1] = Option(p[1], f) /\ pair[2] = Option(p[2], f)
    BY <1>1
<1>3. Tokens(pair) = {p[1], p[2]} /\ PairAuthors(pair) = {f[p[1]].user, f[p[2]].user}
    BY <1>2 DEF Tokens, PairAuthors, Option
<1> QED
    BY <1>1, <1>3

LEMMA PairIsWholeQuestion ==
    ASSUME NEW f, \A t : IsFiniteSet(Others(t, f)),
           \A t \in DOMAIN f : Cardinality(Others(t, f)) = 1,
           NEW q, NEW pair \in Pairs(q, f),
           NEW ballots, \A v \in ballots : v.token \in DOMAIN f
    PROVE  /\ Tokens(pair) = {t \in DOMAIN f : f[t].question = q}
           /\ PairAuthors(pair) = {f[t].user : t \in {s \in DOMAIN f : f[s].question = q}}
           /\ VotersOn(pair, ballots) = {v.user : v \in {w \in ballots : f[w.token].question = q}}
<1>1. PICK a, b \in DOMAIN f :
          /\ a # b /\ f[a].question = q /\ f[b].question = q
          /\ Tokens(pair) = {a, b} /\ PairAuthors(pair) = {f[a].user, f[b].user}
    BY PairTokens
<1>2. ASSUME NEW t \in DOMAIN f, f[t].question = q PROVE t \in {a, b}
    <2> SUFFICES ASSUME t # a PROVE t = b
        OBVIOUS
    <2>1. t \in Others(a, f) /\ b \in Others(a, f)
        BY <1>1, <1>2 DEF Others
    <2> QED
        BY <2>1, OneOther
<1>3. {t \in DOMAIN f : f[t].question = q} = {a, b}
    BY <1>1, <1>2
<1>4. {w \in ballots : w.token \in Tokens(pair)} = {w \in ballots : f[w.token].question = q}
    BY <1>1, <1>3
<1> QED
    BY <1>1, <1>3, <1>4 DEF VotersOn

(* Two answers to a question make a pair, which gather_votes can take.        *)
LEMMA TwoMakeAPair ==
    ASSUME NEW f, NEW q, NEW a \in DOMAIN f, NEW b \in DOMAIN f, a # b,
           f[a].question = q, f[b].question = q
    PROVE  <<Option(a, f), Option(b, f)>> \in Pairs(q, f)
<1> DEFINE pair == <<Option(a, f), Option(b, f)>>
           S == {r \in (DOMAIN f) \X (DOMAIN f) :
                   r[1] # r[2] /\ f[r[1]].question = q /\ f[r[2]].question = q}
<1>1. <<a, b>>[1] = a /\ <<a, b>>[2] = b /\ <<a, b>> \in S
    OBVIOUS
<1> HIDE DEF S
<1>2. \E p \in S : pair = <<Option(p[1], f), Option(p[2], f)>>
    BY <1>1
<1>3. pair \in {<<Option(p[1], f), Option(p[2], f)>> : p \in S}
    BY <1>2
<1> QED
    BY <1>3 DEF Pairs, S
===============================================================================
