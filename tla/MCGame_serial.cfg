SPECIFICATION Spec
CONSTANTS
    u1 = u1
    u2 = u2
    u3 = u3
    u4 = u4
    q1 = q1
    q2 = q2
    q3 = q3
    q4 = q4
    r1 = r1
    r2 = r2
    NoResponse = NoResponse
    NoQuestion = NoQuestion
    Users <- FourUsers
    Questions <- FourQuestions
    Responses <- TwoResponses
    Repeats = FALSE
    MaxTokens = 8
SYMMETRY Symmetry
INVARIANTS TypeOK AlwaysAVoter FairDeal VotesSeeResponses NoVoteOnOwnQuestion OneVotePerQuestion ClosedRoundsComplete
PROPERTIES AnswersKept
