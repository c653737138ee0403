\* Lines of up to three characters on a VGA screen of four rows of three cells:
\* the prompts end at cells 7 and 10, so a line wraps on the screen above the
\* last row and scrolls it in the last one.  No bound on the keys typed.
SPECIFICATION LineSpec
CONSTANTS
    MaxLen = 4
    Char = {"a", "b"}
    Nul = "nul"
    Blank = "blank"
    Framebuffer = FALSE
    Rows = 4
    Cols = 3
    CurMod = 16
    Home = {1, 4}
    Codes = {"a", "b", "ENTER", "BACKSPACE", "DELETE", "LEFT", "RIGHT", "HOME", "END", "TAB"}
    Messages <- MCMessages
INVARIANTS LineInv LineVisible
PROPERTY EditSpec
