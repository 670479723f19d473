SPECIFICATION FeaturesSpec
CONSTANTS
    MediaOwners = {"u", "v"}
    Uploader = "u"
    MaxFileBytes = 2
    MaxPartRows = 4
    MaxUserBytes = 3
    MediaClients = {"c1", "c2"}
    PartSweepers = {"s1"}
    Reclaimers = {"r1"}
    Erasers = {"e1"}
    AssemblySlots = 1
    SecretUsers = {"a", "b"}
    SecretCallers = {p1, p2}
    MaxOutstandingSecretChats = 1
    maxDiffEvents = 1
    Sockets = {c1, c2}
    Networks = {n1}
    AuthKeys = {k1}
    Owners = {u1}
    None = None
    MaxConns = 1
    MaxConnsPerNet = 1
    MaxConnsPerUnboundKey = 1
    MaxPendingLoginConns = 1
    MaxUserConns = 1
    BoxOwners = {"a", "b", "c"}
    ChatPeer = "chat"
    ChatCreator = "a"
    ReadCallers = {p1}
    FolderTitles = {"t"}
    DefaultTitles <- TitlesOfDefaults
    MaxFolders = 2
    x1 = x1
    x2 = x2
    x3 = x3
    FolderConns = {x1, x2, x3}
    RecoveryBatch = 1
    RecoverySlots = 1
    Copies <- PollCopies
    Direct = {3, 4}
    Author = 2
    GroupCreator = 1
    Quizzes = {1, 4}
    Multiple = {2}
    Timed = {1}
    PollOptions = {"x", "y"}
    PollCalls = {1, 2}
    ChatUsers = {1, 2, 3}
    ChatFounder = 1
    Devices <- RoleDevices
    RolesPerDifference = 1
INVARIANTS
    RolesAreLearned
    BallotsAreFair
    ReactionsAgree
    MediaKeepsBytes
    SecretChatsAgree
    EncryptedQueueIsWhole
    SlotsAccounted
    ReceiptsAreTrue
    FoldersAreCurrent
PROPERTY LeftoversAreReclaimed
CHECK_DEADLOCK FALSE
