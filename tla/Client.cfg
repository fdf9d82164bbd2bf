SPECIFICATION Spec
CONSTANTS
    MaxJobs = 2
    MaxViewModels = 2
    MayFail = FALSE
    ServerMayDie = FALSE
INVARIANTS
    OneLiveJob
    ScreenShowsSession
    StartFindsLiveScope
    TrackOutlivesPlayer
    
CHECK_DEADLOCK FALSE
VIEW LiveState
