SPECIFICATION FairPageSpec
CONSTANTS
    u1 = u1
    u2 = u2
    u3 = u3
    q1 = q1
    q2 = q2
    q3 = q3
    r1 = r1
    NoResponse = NoResponse
    NoQuestion = NoQuestion
    Users <- ThreeUsers
    Questions <- ThreeQuestions
    Responses <- OneResponse
    Repeats = TRUE
    MaxTokens = 6
    Tabs <- OneTab
    MaxLost = 2
INVARIANTS PageTypeOK DoneIsTrue 
PROPERTIES  AllPromptsAnswered
\* The game has ended and the pages are closed: nothing is left to do.
CHECK_DEADLOCK FALSE
