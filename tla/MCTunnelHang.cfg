CONSTANTS
    MaxData <- MCMaxData
    IdleTimeout <- MCIdleTimeout
    BufCap <- MCBufCap
    Window <- MCWindow
SPECIFICATION FairSpec
PROPERTY TunnelEventuallyEnds
\* The tunnel task terminates: a closed tunnel has no further steps.
CHECK_DEADLOCK FALSE
