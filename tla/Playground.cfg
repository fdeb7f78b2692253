\* Two requests and two streamed words, the page opened twice, one failure.
CONSTANTS
    Styles <- Streaming
    MaxStored = 2
    MaxRequests = 2
    Deltas <- Repeating
    MaxWords = 2
    MaxMounts = 2
    MaxEdits = 1
    MaxFaults = 1
SPECIFICATION Spec
CHECK_DEADLOCK FALSE
INVARIANTS TypeOK NothingPendingAtRest AnswerIsOwn  SavedWhenQuiet GeneratingIsShown
PROPERTIES FinalAnswerStays
