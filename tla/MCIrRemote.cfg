CONSTANTS
    ByteBits = 2
    TimerRange = 65536
    Gaps = {300, 2240, 4480, 27000, 70016}
    IrBufferSize = 1
SPECIFICATION IrSpec
INVARIANT CountersAgree
PROPERTIES GlitchesForgeNothing CleanFrameIsStored
