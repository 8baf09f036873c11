SPECIFICATION Spec
CONSTANTS
    Grace = 2
    MaxOpen = 2
    MaxOpened = 3
PROPERTIES ShutsDownOnlyIdle ShutsDown Exits
CHECK_DEADLOCK FALSE
