-------------------------------- MODULE Qnob --------------------------------
(***************************************************************************)
(* qnob/: a run of the program from main() to its exit.  Logging is set up,   *)
(* the command line is parsed, one of the modes is run; the service mode     *)
(* reads the configuration, creates and loads the entities, and handles the  *)
(* messages of Windows until it is told to quit.  Whatever is thrown is      *)
(* logged, and the entities, the platform and the logger go down in order.   *)
(*                                                                         *)
(* The main thread runs one step after the other; the user and Windows act   *)
(* in between.                                                              *)
(***************************************************************************)
EXTENDS Entities, CommandLine, Logging

CONSTANTS
    CommandLines,   \* the command lines the program is started with
    MessagesAtStart,\* line counts of what the platform may log when it is initialized
    LogFiles,       \* the paths of log files that can be opened
    ConsoleWidths,  \* widths of the console, 0 when there is none
    PressedKeys,    \* key combinations the user presses
    TurnedWheels,   \* and wheel events
    TraySizes,      \* sizes of tray icons
    ScreenSizes,    \* sizes a screen may get
    MaxEvents       \* bound: how often the user and Windows act

ASSUME CommandLinesAssumption ==
    \A l \in CommandLines : ~ParseFails(Options, l) => Args(l).configPath \in DOMAIN Configs
ASSUME MessagesAssumption == MessagesAtStart \subseteq Seq(Nat)
ASSUME WidthsAssumption == ConsoleWidths \subseteq Nat
ASSUME EventsAssumption ==
    /\ NoTraySize \notin TraySizes
    /\ \A c \in PressedKeys :
        c = Combination(c.mods, c.key) /\ Combination(c.mods \cap {"Num"}, c.key) \in BindableKeys

VARIABLES
    pc,             \* what the main thread does next
    line,           \* the command line
    order,          \* the order in which the hash table of configurations is iterated
    index,          \* the position in it
    throws,         \* an exception is on its way to Qnob::run(int, char**)
    exitCode,       \* its result
    help,           \* what runHelp() printed, and the length of its lines
    listed,         \* what runList() printed
    outcome,        \* history: how loadEntities() ended
    events          \* how often the user and Windows acted

mainVars == <<line, order, index, exitCode, help, listed>>
worldVars == <<entityVars, desktopVars, settingVars, screenVars, quitting, handled>>
vars == <<pc, mainVars, throws, outcome, events, config, worldVars, logVars>>

NoHelp == [size |-> 0, sections |-> <<>>]

Init ==
    /\ pc = "start" /\ line \in CommandLines
    /\ config = (IF ParseFails(Options, line) THEN "" ELSE Args(line).configPath)
    /\ EntitiesInit /\ DesktopInit /\ LogInit
    /\ order = <<>> /\ index = 0 /\ throws = FALSE /\ exitCode = 0
    /\ help = NoHelp /\ listed = {} /\ outcome = "pending" /\ events = 0

GoTo(next) == pc' = next /\ UNCHANGED <<throws, outcome, events, config>>
Throw(next) == pc' = next /\ throws' = TRUE /\ UNCHANGED <<outcome, events, config>>

-----------------------------------------------------------------------------
(* Qnob::run(), from the installation of a logger on. *)

InstallBufferLogger ==
    /\ pc = "start" /\ GoTo("initialize")
    /\ InstallGlobalLogger("buffer")
    /\ UNCHANGED <<mainVars, worldVars, emitted, early, buffer, written>>

InitializePlatform ==
    /\ pc = "initialize" /\ GoTo("parse")
    /\ \E lines \in MessagesAtStart : Log(lines)
    /\ UNCHANGED <<mainVars, worldVars>>

ParseArguments ==
    /\ pc = "parse" /\ ~ParseFails(Options, line)
    /\ GoTo(Mode(line))
    /\ consoleHidden' = Args(line).hideConsole
    /\ UNCHANGED <<mainVars, entityVars, hotKeyVars, messages, trayVars,
                   windows, minimized, settingVars, screenVars, quitting, handled, logVars>>

(* catch (const CommandLineException&): a message for stderr. *)
RefuseArguments ==
    /\ pc = "parse" /\ ParseFails(Options, line) /\ GoTo("cleanup")
    /\ exitCode' = 1
    /\ UNCHANGED <<line, order, index, help, listed, worldVars, logVars>>

(* catch (const Exception&): xCritical() with the exception, and its cause on  *)
(* another line.                                                            *)
Catch ==
    /\ pc = "caught" /\ GoTo("cleanup")
    /\ Log(<<2>>) /\ exitCode' = 1
    /\ UNCHANGED <<line, order, index, help, listed, worldVars>>

(* The workers are waited for, the platform is destroyed, then ~Qnob().       *)
CleanUp ==
    /\ pc = "cleanup" /\ GoTo("done")
    /\ InstallGlobalLogger("none")
    /\ UNCHANGED <<mainVars, worldVars, emitted, early, buffer, written>>

-----------------------------------------------------------------------------
(* The modes that print something. *)

RunHelp ==
    /\ pc = "help" /\ GoTo("cleanup")
    /\ \E w \in ConsoleWidths, garbage \in BOOLEAN :
        LET consoleWidth == IF w = 0 THEN 80 ELSE Max({w, 40})
            sections == PrintSections(Options, consoleWidth, garbage)
        IN  /\ help' = [size |-> consoleWidth, sections |-> sections]
            /\ LogLines(IF w = 0 THEN 1 ELSE 0)
    /\ UNCHANGED <<line, order, index, exitCode, listed, worldVars>>

RunVersion ==
    /\ pc = "version" /\ GoTo("cleanup")
    /\ UNCHANGED <<mainVars, worldVars, logVars>>

ListEntities ==
    /\ pc = "list" /\ Args(line).list = "entities" /\ GoTo("close")
    /\ CreateBuiltins
    /\ listed' = DOMAIN Builtins
    /\ UNCHANGED <<line, order, index, exitCode, help, settingVars, screenVars, quitting, handled,
                   logVars>>

ListKeys ==
    /\ pc = "list" /\ Args(line).list = "keys" /\ GoTo("cleanup")
    /\ listed' = {SerializeKey(c) : c \in ListedKeys}
    /\ UNCHANGED <<line, order, index, exitCode, help, worldVars, logVars>>

-----------------------------------------------------------------------------
(* Qnob::runService(). *)

(* The log goes to stderr when the file cannot be opened.                    *)
OpenLog ==
    /\ pc = "service"
    /\ FlushAndInstall
    /\ IF Args(line).logPath \in LogFiles \cup {"-"} THEN GoTo("config") ELSE Throw("caught")
    /\ UNCHANGED <<mainVars, worldVars>>

LoadConfig ==
    /\ pc = "config"
    /\ IF ConfigLoads(File) THEN GoTo("pool") ELSE Throw("caught")
    /\ UNCHANGED <<mainVars, worldVars, logVars>>

MakePool ==
    /\ pc = "pool" /\ GoTo("check")
    /\ CreateBuiltins
    /\ UNCHANGED <<mainVars, settingVars, screenVars, quitting, handled, logVars>>

(* EntityPool::loadEntities(). *)

IdsAreFree == "" \notin Ids /\ Ids \cap DOMAIN pool = {}

Return == pc' = "exec" /\ outcome' = "loaded" /\ UNCHANGED <<throws, events, config>>
Refused == pc' = "close" /\ outcome' = "failed" /\ throws' = TRUE /\ UNCHANGED <<events, config>>

CheckIds ==
    /\ pc = "check"
    /\ IF Ids = {} THEN Return ELSE IF IdsAreFree THEN GoTo("create") ELSE Refused
    /\ order' \in SetToSeqs(Ids) /\ index' = 1
    /\ UNCHANGED <<line, exitCode, help, listed, worldVars, logVars>>

(* One iteration of a loop over the configurations. *)
Current == order[index]
Continue(here, next) ==
    IF index < Len(order) THEN GoTo(here) /\ index' = index + 1 ELSE next /\ index' = 1

CreateNext ==
    /\ pc = "create" /\ Creatable(Record(Current))
    /\ CreateEntity(Current, TypeOf(Record(Current)))
    /\ Continue("create", GoTo("load"))
    /\ UNCHANGED <<line, order, exitCode, help, listed, settingVars, screenVars, quitting, handled,
                   logVars>>

CannotCreate ==
    /\ pc = "create" /\ ~Creatable(Record(Current)) /\ Throw("erase")
    /\ UNCHANGED <<mainVars, worldVars, logVars>>

(* Warnings of a load: a hotkey that is not notified, a native OSD that is    *)
(* searched for.                                                            *)
LoadWarnings(id) ==
    CASE pool[id] = "hotkey" /\ ~IsRefused(pool, id) /\ ~CanNotify(P(id, "trigger")) -> 1
      [] pool[id] = "win10" /\ HidesNativeOsd(id) -> SearchWarnings
      [] OTHER -> 0

LoadNext ==
    /\ pc = "load" /\ ~LoadFails(Current)
    /\ LoadEntity(Current)
    /\ LogLines(LoadWarnings(Current))
    /\ Continue("load", Return)
    /\ UNCHANGED <<line, order, exitCode, help, listed, settingVars, screenVars, quitting, handled>>

CannotLoad ==
    /\ pc = "load" /\ LoadFails(Current) /\ Throw("erase")
    /\ PartOfLoad(Current)
    /\ LogLines(LoadWarnings(Current))
    /\ UNCHANGED <<mainVars, settingVars, screenVars, quitting, handled>>

(* catch (...): what was added is erased.  Mutant: only what was loaded.      *)
OnlyLoaded(ids) == ids \cap loaded
Erased(ids) == ids
Erase ==
    /\ pc = "erase" /\ Refused
    /\ DestroyEntities(Erased(Ids))
    /\ LogLines(SearchWarnings * Cardinality(hiding))
    /\ UNCHANGED <<mainVars, settingVars, screenVars, quitting, handled>>

(* QApplication::exec() returns, or runService() throws: ~DefaultEntityPool(). *)
ClosePool ==
    /\ pc = "close"
    /\ pc' = (IF throws THEN "caught" ELSE "cleanup") /\ outcome' = "closed"
    /\ DestroyEntities(DOMAIN pool)
    /\ LogLines(SearchWarnings * Cardinality(hiding))
    /\ UNCHANGED <<mainVars, throws, events, config, settingVars, screenVars, quitting, handled>>

Quit ==
    /\ pc = "exec" /\ quitting /\ GoTo("close")
    /\ UNCHANGED <<mainVars, worldVars, logVars>>

-----------------------------------------------------------------------------
(* The event loop. *)

InEventLoop == pc = "exec" /\ ~quitting /\ GoTo("exec") /\ UNCHANGED mainVars

(* What the methods of closures log. *)
LogCalls(closures) ==
    LET Calls(method) == Cardinality({c \in closures : c.action = method})
    IN  LogLines(Calls("debugAction") + SearchWarnings * Calls("ensureNativeOsdHidden"))

DispatchHotkey == InEventLoop /\ HandleHotkey /\ LogCalls(handled'.invoked)
ProcessInput == InEventLoop /\ HandleInput /\ LogCalls(handled'.invoked)
UpdateTrayIconSize == InEventLoop /\ HandleTaskbarCreated /\ LogLines(1)

(* The user and Windows.  Windows posts messages as soon as it has somebody   *)
(* to post them to.                                                         *)
Acts(when) ==
    /\ pc \in when /\ events < MaxEvents /\ events' = events + 1
    /\ UNCHANGED <<pc, mainVars, throws, outcome, config, logVars>>
Posts == Acts({"load", "exec"}) /\ UNCHANGED <<entityVars, settingVars, screenVars, quitting, handled>>

UserPressesKey == Posts /\ \E c \in PressedKeys : PressKey(c)
UserTurnsWheel == Posts /\ \E c \in TurnedWheels : TurnWheel(c)
DpiChanges == Posts /\ \E size \in TraySizes : ChangeDpi(size)
WindowsChange ==
    /\ Acts({"exec"}) /\ \E w \in DOMAIN NativeWindows : ChangeWindows(w)
    /\ UNCHANGED <<entityVars, settingVars, screenVars, quitting, handled>>
BackendChanges == Acts({"exec"}) /\ \E s \in OfType("setting") : SettingChanged(s)
PrimaryScreenChanges == Acts({"exec"}) /\ \E s \in DOMAIN screens : ChangePrimaryScreen(s)
GeometryChanges ==
    Acts({"exec"}) /\ \E s \in DOMAIN screens, size \in ScreenSizes : ChangeGeometry(s, size)

(* With nobody acting any more, the event loop waits. *)
Waits == pc = "exec" /\ events = MaxEvents /\ messages = <<>> /\ ~quitting /\ UNCHANGED vars

Terminated == pc = "done" /\ UNCHANGED vars

Next ==
    \/ InstallBufferLogger \/ InitializePlatform \/ ParseArguments \/ RefuseArguments
    \/ RunHelp \/ RunVersion \/ ListEntities \/ ListKeys
    \/ OpenLog \/ LoadConfig \/ MakePool \/ CheckIds \/ CreateNext \/ CannotCreate
    \/ LoadNext \/ CannotLoad \/ Erase \/ ClosePool \/ Quit \/ Catch \/ CleanUp
    \/ DispatchHotkey \/ ProcessInput \/ UpdateTrayIconSize
    \/ UserPressesKey \/ UserTurnsWheel \/ DpiChanges \/ WindowsChange
    \/ BackendChanges \/ PrimaryScreenChanges \/ GeometryChanges
    \/ Waits \/ Terminated

Spec == Init /\ [][Next]_vars

-----------------------------------------------------------------------------
(* What a configuration may lead to, whatever the order it is loaded in.      *)

Types ==
    [id \in Ids \cup DOMAIN Builtins |-> IF id \in Ids THEN TypeOf(Record(id)) ELSE Builtins[id]]
Hotkeys == {id \in Ids : Types[id] = "hotkey"}
Native(id) == ConvertToNativeKey(ValueIn(Types, id, "trigger"))

(* The hotkey can get its native key, and its closure cannot be made.         *)
IsTrap(id) == Native(id).code # 0 /\ Native(id) \notin ForeignHotKeys /\ ClosureFails(Types, id)

IsAcceptable ==
    /\ "" \notin Ids /\ Ids \cap DOMAIN Builtins = {}
    /\ \A id \in Ids : Creatable(Record(id))
    /\ \A id \in Ids : ~IsRefused(Types, id)

MayLoad ==
    /\ IsAcceptable
    /\ \A id \in Hotkeys : IsTrap(id) =>
            \E other \in Hotkeys : Native(other) = Native(id) /\ ~ClosureFails(Types, other)
MayFail == ~IsAcceptable \/ \E id \in Hotkeys : IsTrap(id)

(* While loadEntities() runs, nobody else sees the pool. *)
Exists == ConfigLoads(File)
Loading == INSTANCE EntityLoading WITH
    Builtin <- DOMAIN Builtins,
    present <- IF pc \in {"create", "load", "erase"} THEN DOMAIN pool \ Ids ELSE DOMAIN pool,
    requested <- IF Exists THEN Ids ELSE {},
    mayLoad <- Exists /\ MayLoad,
    mayFail <- Exists /\ MayFail

(* The entities of the configuration come into the pool all together or not  *)
(* at all, and whether they do does not depend on the order of the hash      *)
(* table, except that of two hotkeys with one trigger the first gets it and  *)
(* the closure of the other is never made (EntityPool::loadEntities(),       *)
(* Hotkey::loadFromConfig()).                                                *)
PoolIsAtomic == Loading!Spec

(* When the pool is gone, after a failure half way as well as after the event *)
(* loop, no hot key is registered with Windows, no notifier, icon or control *)
(* is registered with the platform, and the native OSD is not left minimized *)
(* if it can be found.                                                      *)
NothingIsLeftBehind ==
    pc \in {"caught", "cleanup", "done"} =>
        /\ pool = <<>> /\ osds = <<>> /\ shown = <<>> /\ loaded = {} /\ hiding = {}
        /\ hotKeys = {} /\ notifiers = <<>> /\ icons = {} /\ controls = {}
        /\ NativeOsdControl \cap minimized = {}

(* In the event loop each OSD has the size of its skin and its place on the   *)
(* primary screen, in whatever order they were loaded and whatever screens   *)
(* came and changed; each icon is shown once its setting is initialized, in  *)
(* the size of the task bar unless the news of it is on its way (Osd,        *)
(* OsdWindow, TrayIcon, WinMetrics).                                        *)
OsdIsPlaced(id) ==
    /\ osds[id].size = SkinSize(P(id, "skin"), DOMAIN pool)
    /\ osds[id].alignment = P(id, "position") /\ osds[id].offset = P(id, "offset")
    /\ osds[id] = UpdatePosition(osds[id], screens[primary])
IconFits(id) ==
    /\ (shown[id] = 0) = (P(id, "target") \notin initialized)
    /\ shown[id] \in {0, traySize} \/ \E m \in Range(messages) : m.kind = "taskbar"
DisplaysFit ==
    pc = "exec" =>
        /\ \A id \in OfType("osd") : OsdIsPlaced(id)
        /\ \A id \in OfType("tray_icon") : IconFits(id)

(* A key invokes the closure of one hotkey that has it for a trigger, and of   *)
(* no other; the wheel invokes those of all tray events for it and the thing *)
(* under the cursor; and every hotkey whose trigger Windows has to give      *)
(* is registered, or another with the same trigger is (WinShortcutManager,   *)
(* WinWheelEventManager, Hotkey, TrayEvent).                                 *)
IsRegistered(trigger) ==
    \E h \in hotKeys :
        /\ h.native = NativeKey(trigger)
        /\ h.id \in DOMAIN notifiers /\ P(notifiers[h.id], "trigger") = trigger
EventsReachTheirTarget ==
    pc = "exec" =>
        /\ handled.kind = "hotkey" =>
                \E id \in OfType("hotkey") :
                    P(id, "trigger") = handled.combination /\ handled.invoked = {Closure(id)}
        /\ handled.kind = "input" =>
                handled.invoked = {Closure(id) : id \in {id \in OfType("tray_event") :
                    P(id, "trigger") = handled.combination /\ P(id, "source") \in handled.over}}
        /\ \A id \in OfType("hotkey") :
                LET trigger == P(id, "trigger")
                IN  Combination(trigger.mods \cap {"Num"}, trigger.key) \in BindableKeys =>
                        NativeKey(trigger) \in ForeignHotKeys \/ IsRegistered(trigger)

(* The log has every message in order, but for the oldest of those that came  *)
(* before the log file was known, when they were too many; in the service    *)
(* mode that includes the message of what ended it (BufferLogger, FileLogger,*)
(* Qnob::runService()).                                                      *)
Lost == IF early > BufferSize THEN early - BufferSize ELSE 0
LogIsComplete ==
    LET numbers == [i \in 1..(Len(emitted) - Lost) |-> Lost + i]
        Entry(n) == [number |-> n, lines |-> emitted[n]]
    IN  IF logger = "buffer" \/ (pc = "done" /\ written = <<>>)
        THEN written = <<>> /\ buffer = [i \in DOMAIN numbers |-> Entry(numbers[i])]
        ELSE /\ buffer = <<>>
             /\ written = FlattenSeq([i \in DOMAIN numbers |-> Pieces(Entry(numbers[i]))])
             /\ throws /\ pc = "done" => Last(written).line = 2

(* The help text says all it has to say, but for a last word that a missing   *)
(* column costs it, between the columns and inside the console               *)
(* (CommandLineParser::printSections(), wrapText()).                         *)
HelpIsReadable ==
    \A s \in Range(help.sections) :
        /\ GoesOn(s.text, s.lines) /\ NothingLost(s.text, s.lines, help.size - s.others)
        /\ s.first = s.others
        /\ \A l \in Range(s.lines) : s.others + (l.to - l.from) <= help.size
=============================================================================
