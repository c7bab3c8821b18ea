SPECIFICATION FormSpec
CONSTANTS
    Root = Root
    PageSize = 1
    AllowEarly = FALSE
    GroupExceptions = {}
    Snapshots <- TwoVersions
    Levels = {1, 2, 3, 4}
    NameWords = {"zhangwei", "lina", "gu", "beizhu"}
    ExistingPhone = "136"
    NewDetail <- NewDetailWords
    Mixes <- SomeMixes
INVARIANTS RegionsAreReal NothingLost ReviewIsAsked
CHECK_DEADLOCK FALSE
