CONSTANTS
    mark = mark
    poison = poison
    rumour = rumour
    seal = seal
    seraphyne = seraphyne
    hall = hall
    crypt = crypt
    guild = guild
    heist = heist
    ritual = ritual
    key = key
    scar = scar
    SecretList <- TwoSecrets
    Invented = {rumour}
    Conditions = {seal}
    NoCondition = NoCondition
    Declares <- SharedSeal
    NpcList <- OneNpc
    PlaceList <- TwoPlaces
    NoOne = NoOne
    Nowhere = Nowhere
    Factions = {guild}
    Quests = {heist}
    Objectives = {key}
    Clocks = {ritual}
    OpenQuests = {heist}
    OpenPlaces = {hall, crypt}
    Player = Player
    Clues = {"residue"}
    Items = {key}
    SheetIds = {scar}
    GmFactLimit = 2
    PlayerMemoryLimit = 1
    GmMemoryLimit = 1
    ResolutionLimit = 1
    MessageLimit = 2
    Topics = {"reveals", "people", "chronicle", "things"}
    Repertoire <- Repertoires
    MaxChanges = 2
    MaxTurns = 2
SPECIFICATION Spec
INVARIANTS
    TypeOK
    RevealsWereLinked
    SecretsStayHidden
    IdsHold
    LimitsCutTheTail
    
PROPERTIES
    RevealsAreCited
    PatchNamesChanges
CHECK_DEADLOCK FALSE
