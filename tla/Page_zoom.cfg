SPECIFICATION Spec
CONSTANTS
    Folder = {top, sub}
    Top = top
    Setting = {off, on}
    Default = off
    MaxAttempts = 2
    MaxEdits = 2
    MaxLosses = 1
    MaxScans = 2
    MaxDown = 2

PROPERTIES ProgressNeverZooms
CHECK_DEADLOCK FALSE
