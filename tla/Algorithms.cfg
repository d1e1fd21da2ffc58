SPECIFICATION Spec
CONSTANTS
    BufferEnd = 9
    SignColumn = 4
    Nibbles = 2
    IntRange = 16
    MaxDigits = 3
    CharRange = 64
    BRange = 64
    CondRange = 32
    AdrpRange = 32
    AdrpWindow = 8
    PageSize = 4
    RelRange = 256
    config_base = 80
    AllOnes = 240
    PCI_BUS_MAX = 2
    PCI_SLOT_MAX = 2
    PCI_FUNC_MAX = 2
    width = 5
    height = 4
    Wrap = 128
    Glyph = 2
    Leading = 1
    BarNumbers = {0, 1}
    Texts <- MCTexts
    Loads <- MCLoads
    Spaces <- MCSpaces
    Devices <- MCDevices
    Rects <- MCRects
    Lines <- MCLines
    Captions <- MCCaptions
INVARIANTS
    StringsCompared FormatText RelocatedTargets
    PciDeviceFound CapabilitiesLocated StructuresDisjoint
    RectClipped LineDrawn TextDrawn TreeLookup
