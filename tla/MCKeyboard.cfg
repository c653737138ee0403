\* Two USB keyboards and a PS/2 keyboard share g_mods and rings of one element.
SPECIFICATION Spec
CONSTANTS
    Cap = 2
    Kinds <- MCKinds
    LockNames = {"CAPS"}
    Slots = {0, 1}
    IdMod = 256
    MaxId = 2
    Layouts = {"azerty"}
    tbl <- MCtbl
    ext_kc <- MCext
    KeyOf <- MCKeyOf
    Reports <- MCReports
    Ps2Keys <- MCPs2Keys
    NoCode <- None
INVARIANTS TypeOK NoStuckModifier NoStuckKey
VIEW MCView
