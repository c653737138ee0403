SPECIFICATION Spec
CONSTANTS
    MaxVolumes = 2
    FileSizes = {0, 5}
    PageSize = 4
    InfoSize = 2
    Window = 4
    StackPages = 1
    MemPages = 4
    MaxChanges = 3
    Displays <- MCDisplays
    Functions = 3
    MaxPciDevices = 2
    BarCount = 3
    Layouts <- MCLayouts
    IoAddress <- MCIoAddress
    MemAddress <- MCMemAddress
    UpperHalf = 5
    Lines = {0, 11, 255}
    MaxIrqs = 2
INVARIANTS HandoverSafe MapFits ReturnsClean KernelNotMissed IoBaseReal ConsoleReal
PROPERTIES BootEnds LastServed
CHECK_DEADLOCK FALSE
