SPECIFICATION Spec
CONSTANTS
    a = a
    b = b
    c = c
    Agents = {a, b, c}
    Runs = {r1}
    Graphs <- JoinAndLadder
    MaxConcurrent = 2
CHECK_DEADLOCK FALSE
INVARIANTS
    CompletedMeansAnswered
