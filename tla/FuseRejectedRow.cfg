CONSTANTS
 K = 1
 N = 1
 ClearTicks = 1
 ClampStreakToBrake = 1
 MaxClamps = 1
 StopConfirm = 1
 BrakeTimeout = 1
 Rearm = "auto"
 RearmHold = 1
 MaxRearms = 1
 EscalateAfter = 1
 HandoffTimeout = 1
 ClampMode = "project"
 Mode = "enforce"
 U8Max = 1
 U16Max = 1
 U32Max = 2
 Positions = {0, 2}
 BoxLo = 0
 BoxHi = 1
 Operators = {"o1"}
 Acks <- MCAcks
 NoAck = NoAck
SPECIFICATION FuseSpec
INVARIANT RejectedRowNeverPassed
