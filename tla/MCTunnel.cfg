CONSTANTS
    MaxData <- MCMaxData
    IdleTimeout <- MCIdleTimeout
    BufCap <- MCBufCap
    Window <- MCWindow
SPECIFICATION FairSpec
INVARIANT NoDataLost
INVARIANT IInv
PROPERTY ClientCloseEndsTunnel
PROPERTY TunnelImplementsPipe
\* The tunnel task terminates: a closed tunnel has no further steps.
CHECK_DEADLOCK FALSE
