CONSTANTS
    Number <- Numbers
    Abbreviation <- Abbrevs
    MulticastHost <- Multicasts
    AmountLimit = 1000000
    Scenario <- ScenarioDef
    HostOf <- HostOfDef
SPECIFICATION FairSpec
INVARIANTS TypeOK CountIsRight NothingCutOff ReverseAsAsked SettingsFollowTheLine
CHECK_DEADLOCK FALSE
PROPERTY ProgramsEnd
