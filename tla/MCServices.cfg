SPECIFICATION Spec
CONSTANTS
    TheParts = {"frame", "cvars", "registry"}
    MaxSounds = 2
    HandlersPlay = FALSE
    Stacks = {1, 2}
    Amounts = {1}
    ItemOf <- MCItemOf
    Quests = {1, 2}
    MaxRebuilds = 1
    MaxStimuli = 4
    CVars = {"c1", "c2"}
    Values = {"low", "high", "max", "bad"}
    Refused = {"bad"}
    Default = "low"
    MaxSetting = 2
    Coincidences = FALSE
    Reentrant = FALSE
    Events = {"e1", "e2"}
    Plain = {"p1", "p2"}
    Once = {"o1"}
    All = {"a1"}
    MaxTriggers = 2
    MaxCount = 4
    MaxCalls = 4
    HandlesTwice = FALSE
INVARIANTS TypeOK NoSoundForgotten ChangesAreTold NoTempLeaks CallbacksHear
PROPERTIES FrameEventsAreTrue KeepsTheChoice TriggersReachOnce
CHECK_DEADLOCK FALSE
