SPECIFICATION SynthSpec
CONSTANTS
    keysymtab <- Table
    Codes = {1, 2, 3}
    Buttons = {101}
    Mods = {"Shift", "Mod5"}
    Keymap <- MCKeymap
    Matters <- MCMatters
    Spare <- MCSpare
    NumberSign = 2
    Taken <- MCTaken
    LookedUp <- MCLookedUp
    Sessions <- MCSessions
    None = 0
    ResetDelay = 3
    Patience = 1
    MaxLoans = 3
    MaxUnread = 2
    MaxNotes = 2
INVARIANTS
    SynthConsistent
PROPERTIES
    TypedAsMeant
    LocksRestored
    GivenBack
    RelatchHappens
