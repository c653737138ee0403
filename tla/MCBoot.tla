-------------------------------- MODULE MCBoot --------------------------------
\* Functions with an I/O range alone, behind a 64-bit range, and without one.
EXTENDS Boot

MCLayouts == {<<"io", "none", "none">>, <<"mem64", "upper", "io">>, <<"mem32", "none", "none">>}
\* Displays that can be drawn on, that have no linear framebuffer, and no scan line.
MCDisplays == {Fields, Fields \ {"base"}, Fields \ {"stride"}}
MCIoAddress == [n \in 1 .. 3 |-> 32 * n]
MCMemAddress == [n \in 1 .. 3 |-> 64 * n]
=============================================================================
