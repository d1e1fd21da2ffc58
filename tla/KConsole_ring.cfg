SPECIFICATION Spec
CONSTANTS
    screen_width = 31
    screen_height = 70
    Glyphs = {97, 98}
    Texts <- MCTexts
INVARIANTS TypeOK ScreenShowsBuffer
PROPERTY IsTerminal
