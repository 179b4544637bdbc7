CONSTANTS
 K = 2
 N = 2
 ClearTicks = 1
 ClampStreakToBrake = 2
 MaxClamps = 1
 StopConfirm = 1
 BrakeTimeout = 1
 Rearm = "auto"
 RearmHold = 1
 MaxRearms = 1
 EscalateAfter = 1
 HandoffTimeout = 1
 ClampMode = "project"
 Mode = "enforce"
 U8Max = 2
 U16Max = 2
 U32Max = 2
 Positions = {0, 2}
 BoxLo = 0
 BoxHi = 1
 Operators = {"o1"}
 Acks = {}
 NoAck = NoAck
SPECIFICATION FuseSpec
INVARIANT PolicyRowIsRaw
