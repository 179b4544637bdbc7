CONSTANTS
 K = 2
 N = 2
 ClearTicks = 2
 ClampStreakToBrake = 1
 MaxClamps = 1
 StopConfirm = 2
 BrakeTimeout = 2
 Rearm = "auto"
 RearmHold = 1
 MaxRearms = 1
 EscalateAfter = 1
 HandoffTimeout = 1
 ClampMode = "project"
 Mode = "enforce"
 U8Max = 2
 U16Max = 2
 U32Max = 2
 Positions = {0, 2}
 BoxLo = 0
 BoxHi = 1
 Operators = {"o1"}
 Acks <- MCAcks
 NoAck = NoAck
SPECIFICATION HSpec
INVARIANTS TypeOK WaitsAreBounded HeldMeansStopped NeverMovesOverThreshold ClampsAreBounded CountersAreHonest
PROPERTIES WaitsAreFull AutoRearmEarned HoldPinned TokensSpentOnce StopsCountDown EpisodesRunDown PromiseKept
