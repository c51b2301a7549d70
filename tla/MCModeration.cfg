SPECIFICATION Spec
CONSTANTS
    owner = owner  ann = ann  bob = bob
    t1 = t1  t2 = t2
    a1 = a1
    NoAlias = NoAlias  TooLong = TooLong
    Users = {owner, ann, bob}
    Owner = owner
    Aliases = {a1}
    RequireAlias = TRUE
    Tasks = {t1, t2}
    Commands <- MCCommands
    InitialRole <- MCInitialRole
    PageSize = 1
    MaxUpdates = 4
    MaxCrashes = 1
SYMMETRY Handlers
INVARIANTS TypeOK LogTellsTables PublishedWasAllowed TogglesCount
PROPERTIES PageNotBlank OnlyOwnerMakesAdmins
CHECK_DEADLOCK FALSE
