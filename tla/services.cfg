\* One component at a time; the bounds are those each needs for its cases.
CONSTANTS
    Agents = {a1, a2}
    Expiry = 2
    Callers = {c1, c2}
    Texts = {x1}
    MaxLines = 2
    MaxBoots = 2
    MaxStm = 2
    MaxPrompts = 2
    MaxPolls = 2
    Threshold = 9
    Target = 8
    Overlap = 1
    MaxPieces = 4
    N = 3
    Full = 2
    MaxProblems = 2
SPECIFICATION ServicesSpec
INVARIANTS
    OneEventPerTear EventsHaveRows
    ClientTypeOK OneEffectPerPrompt ReportIsTrue
    ChunksCoverTurn ChunkLength ExcessIsOnePiece
    SelectionIsBest
PROPERTIES
    PunctualAgentsStay StoppedAgentsLeave PromptsEnd
CHECK_DEADLOCK FALSE
