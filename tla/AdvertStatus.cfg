SPECIFICATION Spec
CONSTANTS
    Devices <- MCDevices
    Kind <- MCKind
    Truths <- MCTruths
    Forms <- MCForms
INVARIANTS
    WrongOnlyIfOvertaken
    LearnedAsItIs
    BatteryIsShown
    AlarmReportedOnce
