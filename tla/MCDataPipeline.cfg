\* Up to five points; files with and without their end.
CONSTANTS
    Counts <- SomeCounts
    Seeds <- SomeSeeds
    RAND_MAX <- SomeRandMax
    Haversine <- SomeHaversine
    Losses <- SomeLosses
    Values <- SomeValues
    Garbage <- UninitializedValue
SPECIFICATION Spec
INVARIANT TypeOK
INVARIANT StatsAreOfTheDraws
INVARIANT ClustersAreOfEqualSize
INVARIANT GeneratedFilesFit
INVARIANT PointsSurvive
