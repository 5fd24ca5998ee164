SPECIFICATION Spec
CONSTANTS
    Pipelines = {p1, p2}
    Reviews = {r1}
    Aucs = {1, 2, 3}
    MinAuc = 2
    Nobody = Nobody
    MaxRuns = 4
SYMMETRY PipelinesAreAlike
INVARIANTS
    TypeOK
    ChampionIsFinished
PROPERTIES
    PipelinePromotesOwnOrNewer
    AliasGoesBackOnlyInRace
    ReviewPromotesImprovement
CHECK_DEADLOCK FALSE
