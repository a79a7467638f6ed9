\* Any way to cut the frames of four messages.
CONSTANTS
    Messages = 4
    End <- MCEnd
    Misread <- MCMisread
    HeadBytes = 4
    Nothing = Nothing
SPECIFICATION FrameSpec
INVARIANTS FrameTypeOK NothingInvented WholeFramesArrive
CHECK_DEADLOCK FALSE
