SPECIFICATION Spec
CONSTANTS
    u1 = u1
    u2 = u2
    u3 = u3
    u4 = u4
    q1 = q1
    q2 = q2
    q3 = q3
    q4 = q4
    r1 = r1
    w1 = w1
    w2 = w2
    NoResponse = NoResponse
    NoQuestion = NoQuestion
    Users <- FourUsers
    Questions <- OneQuestion
    Responses <- OneResponse
    Workers <- TwoWorkers
    Kinds <- LobbyKinds
    Repeats = TRUE
    MaxGames = 1
    MaxAnswers = 8
    MaxFailures = 0
SYMMETRY Symmetry
INVARIANTS TypeOK EnoughPlayers PromptsArePaired
