SPECIFICATION QueriesSpec
CONSTANTS
    Mods = {m1, m2}
    MaxQueries = 3
    MaxGames = 1
INVARIANTS
    AnswersAreTrue
    CacheIsRight
CHECK_DEADLOCK FALSE
SYMMETRY Symmetry
