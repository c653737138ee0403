\* Six key events through a ring with room for two; the console is a framebuffer.
SPECIFICATION Spec
CONSTANTS
    MaxLen = 3
    Char = {"s", "x"}
    Nul = "nul"
    Blank = "blank"
    Framebuffer = TRUE
    Rows = 3
    Cols = 3
    CurMod = 12
    Home = {0}
    Codes = {"s", "x", "ENTER", "BACKSPACE", "LEFT"}
    Messages <- MCMessages
    QueueSize = 2
    MaxEvents = 6
    ScanCmd <- MCScanCmd
    Answer <- MCAnswer
    Found = 8
    MaxControllers = 16
INVARIANTS LineVisible EnterKept
PROPERTY LastEnterRuns
