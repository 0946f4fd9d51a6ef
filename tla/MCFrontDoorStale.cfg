\* A run that stops between ingest and correlate.
SPECIFICATION Spec
CONSTANTS
    EvidenceSets <- DiskOnly
    Reruns = {FALSE}
    NoRow = NoRow
    Nothing = Nothing
    Zipped = FALSE
    MaxExtracted = 0
    Changing = {"disk"}
    MaxVersion = 2
    MaxFaults = 1
INVARIANT SkippedIsFresh
