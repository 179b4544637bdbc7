CONSTANTS
 K = 3
 N = 5
 ClearTicks = 5
 ClampStreakToBrake = 2
 MaxClamps = 3
 StopConfirm = 1
 BrakeTimeout = 1
 Rearm = "ack_only"
 RearmHold = 1
 MaxRearms = 1
 EscalateAfter = 1
 HandoffTimeout = 1
 ClampMode = "project"
 Mode = "enforce"
 U8Max = 5
 U16Max = 6
 U32Max = 6
 Positions = {0}
 BoxLo = 0
 BoxHi = 1
 Operators = {"o1"}
 Acks = {}
 NoAck = NoAck
SPECIFICATION CSpec
INVARIANT SustainedHitsBrake
