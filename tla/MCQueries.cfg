SPECIFICATION Spec
CONSTANTS
    TheParts = {"reputation", "sound files", "range", "clock", "calendar", "quests", "auras", "friends", "units", "gossip", "notices", "bags", "item info", "encodings", "serialization", "toc"}
    FactionDbc <- MCFactionDbc
    Headers <- MCHeaders
    MaxStanding = 1
    SoundFileNames = {"a", "b", "c"}
    Spellings = {"as is", "other case"}
    RecentSlots = 2
    MaxOpens = 5
    SwingTypes = {0, 2}
    RangedWeapons = {"wand", "bow"}
    SecondsPerMinute = 3
    TickRange = 5
    MaxClock = 8
    Dates <- MCDates
    DayShifts <- MCDayShifts
    MinuteShifts <- MCMinuteShifts
    MaxShifts = 3
    Items = {"q1", "q2"}
    Exists = {"q1"}
    Owned = {}
    MaxTransfers = 1
    MaxReloads = 1
    EngineAsks = TRUE
    SpellDbc <- MCSpellDbc
    Tracking = {"track"}
    AuraEntries <- MCAuraEntries
    InlineSize = 1
    Players = {"p", "q"}
    UnitTokens = {"target"}
    Classes <- MCClasses
    Areas <- MCAreas
    FriendNotes = {"", "n"}
    MaxFriends = 2
    Me = "me"
    Mates = {"mate"}
    Creatures = {"boar"}
    Keywords = {"target"}
    Stats <- MCStats
    Divisors <- MCDivisors
    Bytes <- MCBytes
    Npcs = {"innkeeper", "guard"}
    Menus <- MCMenus
    Greetings <- MCGreetings
    GREETING_QUESTS_MAX = 2
    InventorySlots = {15, 16, 18}
    RelicClasses = {"druid"}
    PlayerClasses = {"druid", "mage"}
    MaxNotices = 2
    EquipmentSlots = 1
    BagSlot = 1
    Ranges <- MCRanges
    SlotCounts = {6}
    BagSizes = {1}
    MaxStacks <- MCMaxStacks
    StartingItems <- MCStartingItems
    Named <- MCNamed
    MaxUnderWay = 2
    Records <- MCRecords
    Dbc <- MCDbc
    Unreal = {3}
    Suffixes = {55}
    Instances <- MCInstances
    Places = {"head", "bag"}
    Characters <- MCCharacters
    MaxNames = 2
    Payloads <- MCPayloads
    RoomFactor = 1
    RoomSlack = 1
    Ceiling = 8
    Values <- MCLuaValues
    kMaxDepth = 2
    Lines <- MCLines
    Paths <- MCPaths
    Locales = {"deDE", "enUS"}
    CLIENT_INTERFACE_VERSION = 30300
    MaxLines = 2
INVARIANTS TypeOK EventsTell AnswersAgree MovesAreTrue ClockRight RoundTrips
PROPERTY QuestPromiseKept
CHECK_DEADLOCK FALSE
