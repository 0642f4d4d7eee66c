SPECIFICATION MCSpec
CONSTANTS
    Texts <- SomeTexts
    Saves <- SomeSaves
    Additions <- SomeAdditions
    Inside <- AInsideBA
    Written <- SomeFiles
    Kinds <- KnownKinds
    MaxBegun = 3
    MaxSaves = 1
INVARIANTS EditIsOneEntry RemovesTheNamed LoadedMeansWatched
CHECK_DEADLOCK FALSE
