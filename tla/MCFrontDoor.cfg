\* Crashes, failures, changing inputs, --rerun and partial evidence lists.
SPECIFICATION FairSpec
CONSTANTS
    EvidenceSets <- AllThenDumps
    Reruns = {TRUE, FALSE}
    NoRow = NoRow
    Nothing = Nothing
    Zipped = FALSE
    MaxExtracted = 0
    Changing = {"disk", "dumps", "rules"}
    MaxVersion = 2
    MaxFaults = 2
INVARIANTS
    DoneIsFinished
    LegsFirst
    FreshAfterLegs
PROPERTY Converges
