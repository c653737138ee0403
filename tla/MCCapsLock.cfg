\* A PS/2 keyboard with a CapsLock key and no USB keyboard.
SPECIFICATION Spec
CONSTANTS
    Cap = 2
    Kinds <- MCKinds
    LockNames = {"CAPS"}
    Slots = {0}
    IdMod = 256
    MaxId = 0
    Layouts = {"azerty"}
    tbl <- MCtbl
    ext_kc <- MCext
    KeyOf <- MCKeyOf
    Reports <- MCReports
    Ps2Keys <- CapsOnly
    NoCode <- None
INVARIANT CapsLockToggles
