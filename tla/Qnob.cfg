SPECIFICATION Spec
CONSTANTS
    KeyTexts <- MCKeyTexts
    Numbers <- MCNumbers
    Colors = {"red"}
    Files = {"/qnob/bar.png", "/qnob/beep.wav", "/qnob/locked.wav"}
    ReadableFiles = {"/qnob/bar.png", "/qnob/beep.wav"}
    Images <- MCImages
    AbsolutePaths = {}
    BasePath = "/qnob"
    ForeignHotKeys <- MCForeignHotKeys
    NativeWindows <- MCNativeWindows
    FirstWindows = {{"w3"}, {"w1", "w3"}, {"w1", "w2"}}
    Configs <- MCConfigs
    Screens <- MCScreens
    FirstScreen = "left"
    CommandLines <- MCCommandLines
    MessagesAtStart <- MCMessagesAtStart
    BufferSize = 2
    LogFiles = {"./qnob.log", "a.log"}
    ConsoleWidths <- MCConsoleWidths
    PressedKeys <- MCPressedKeys
    TurnedWheels <- MCTurnedWheels
    TraySizes = {16, 24}
    ScreenSizes <- MCScreenSizes
    MaxEvents = 2
INVARIANTS
    NothingIsLeftBehind
    DisplaysFit
    EventsReachTheirTarget
    LogIsComplete
    HelpIsReadable
PROPERTIES
    PoolIsAtomic
