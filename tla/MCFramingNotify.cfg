\* The comment on notify, against the code.
CONSTANTS
    Messages = 4
    End <- MCEnd
    Misread <- MCMisread
    HeadBytes = 4
    Nothing = Nothing
SPECIFICATION FrameSpec
INVARIANTS CompleteIsNotified
CHECK_DEADLOCK FALSE
