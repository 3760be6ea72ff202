SPECIFICATION FairSpec
CONSTANTS
    Senders = {s1, s2}
    Timeout = 1
    Margin = 2
    Lifetimes = {1, 3}
    Ports = {25, 465, 587}
    MaxAge = 2
    MaxDays = 1
    MaxFaults = 1
INVARIANTS PushTokenIsValid SubmissionIsEncrypted RecordIsComplete LinesAreKept
PROPERTIES PushesEnd
CHECK_DEADLOCK FALSE
