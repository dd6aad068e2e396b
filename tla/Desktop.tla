------------------------------- MODULE Desktop -------------------------------
(***************************************************************************)
(* platform/win as the entities see it: global hot keys, wheel events over    *)
(* the tray, the size of tray icons, the volume OSD that Windows has itself, *)
(* and the shared event window that all messages of Windows arrive at.       *)
(*                                                                         *)
(* Windows is the environment: which hot keys it has registered and which    *)
(* windows exist is state of the model that only the calls named here and    *)
(* the user change.                                                         *)
(***************************************************************************)
EXTENDS Keys, TLC

CONSTANTS
    ForeignHotKeys, \* the native key combinations that other programs have
    NativeWindows,  \* the windows of class NativeHWNDHost that may exist, and what is found about each
    FirstWindows    \* which of them may exist at the start

ASSUME WindowsAssumption ==
    IsFiniteSet(DOMAIN NativeWindows) /\ FirstWindows \subseteq SUBSET DOMAIN NativeWindows

VARIABLES
    notifiers,      \* WinShortcutManager::m_notifierById
    nextId,         \* WinShortcutManager::m_nextId
    hotKeys,        \* Windows: the hot keys registered for the shared event window
    messages,       \* Windows: the messages posted to the shared event window
    icons,          \* WinWheelEventManager::m_icons
    controls,       \* WinWheelEventManager::m_controls
    traySize,       \* Windows: the size of tray icons at the DPI of the primary monitor
    cachedTraySize, \* WinMetrics::m_cachedTrayIconSize
    windows,        \* Windows: the windows among NativeWindows that exist
    minimized,      \* Windows: those of them that are minimized
    consoleHidden   \* Windows: the console is hidden

hotKeyVars == <<notifiers, nextId, hotKeys>>
trayVars == <<icons, controls, traySize, cachedTraySize>>
windowVars == <<windows, minimized, consoleHidden>>
desktopVars == <<hotKeyVars, messages, trayVars, windowVars>>

NoTraySize == 0     \* an invalid QSize

(* An entry more of a map, or another value of it. *)
With(f, x, value) == [y \in DOMAIN f \cup {x} |-> IF y = x THEN value ELSE f[y]]

(* WinPlatform::WinPlatform(). *)
DesktopInit ==
    /\ notifiers = <<>> /\ nextId = 1 /\ hotKeys = {} /\ messages = <<>>
    /\ icons = {} /\ controls = {}
    /\ traySize = 16 /\ cachedTraySize = NoTraySize
    /\ windows \in FirstWindows /\ minimized = {} /\ consoleHidden = FALSE

-----------------------------------------------------------------------------
(* WinShortcutManager. *)

(* RegisterHotKey() fails for a combination that is taken. *)
IsTaken(native) ==
    native \in ForeignHotKeys \/ \E h \in hotKeys : h.native = native

(* createShortcutNotifier() returns a notifier. *)
CanNotify(trigger) ==
    ConvertToNativeKey(trigger).code # 0 /\ ~IsTaken(ConvertToNativeKey(trigger))

CreateShortcutNotifier(owner, trigger) ==
    IF CanNotify(trigger)
    THEN /\ hotKeys' = hotKeys \cup {[id |-> nextId, native |-> ConvertToNativeKey(trigger)]}
         /\ notifiers' = With(notifiers, nextId, owner)
         /\ nextId' = nextId + 1
    ELSE UNCHANGED hotKeyVars

(* removeShortcutNotifier(), for the notifiers of some hotkeys. *)
RemoveShortcutNotifiers(owners) ==
    LET ids == {id \in DOMAIN notifiers : notifiers[id] \in owners}
    IN  /\ hotKeys' = {h \in hotKeys : h.id \notin ids}
        /\ notifiers' = [id \in DOMAIN notifiers \ ids |-> notifiers[id]]
        /\ UNCHANGED nextId

(* dispatchEvent(): the notifier a WM_HOTKEY message is for. *)
NotifierOf(message) ==
    IF message.id \in DOMAIN notifiers THEN {notifiers[message.id]} ELSE {}

-----------------------------------------------------------------------------
(* WinWheelEventManager::processInput() with the cursor over the things whose *)
(* geometry is in "over": the event goes to one icon or to all the controls. *)
Receivers(over) ==
    IF over \cap icons # {} THEN {{i} : i \in over \cap icons}
    ELSE {over \cap controls}

-----------------------------------------------------------------------------
(* WinMetrics. *)

TrayIconSize == IF cachedTraySize = NoTraySize THEN traySize ELSE cachedTraySize

(* updateTrayIconSize() emits trayIconSizeChanged(). *)
SizeIsNew == cachedTraySize # traySize

-----------------------------------------------------------------------------
(* WinPlatform::createNativeOsdControl(): the window it finds, if there is    *)
(* only one.                                                                *)
Candidates ==
    {w \in windows : NativeWindows[w].hasChild /\ NativeWindows[w].opens /\ NativeWindows[w].isExplorer}
NativeOsdControl == IF Cardinality(Candidates) = 1 THEN Candidates ELSE {}

-----------------------------------------------------------------------------
(* The user, other programs and Windows.  The code of a key of the keyboard   *)
(* is the one of the table.                                                 *)

NativeKey(combination) ==
    [mods |-> combination.mods \ {"Num"},
     code |-> WinKeyByQtKey[Combination(combination.mods \cap {"Num"}, combination.key)]]

Message(kind, id, combination) == [kind |-> kind, id |-> id, combination |-> combination]
NoCombination == Combination({}, UnknownKey)
Post(message) == messages' = Append(messages, message)

PressKey(combination) ==
    /\ \E h \in hotKeys :
        h.native = NativeKey(combination) /\ Post(Message("hotkey", h.id, combination))
    /\ UNCHANGED <<hotKeyVars, trayVars, windowVars>>

(* Shift, Control and Alt are looked at, the Windows keys are not. *)
TurnWheel(combination) ==
    /\ IsMouseWheel(combination.key)
    /\ Post(Message("input", 0, combination))
    /\ UNCHANGED <<hotKeyVars, trayVars, windowVars>>

(* The primary monitor gets another DPI, and the task bar is created anew. *)
ChangeDpi(size) ==
    /\ size # traySize
    /\ traySize' = size
    /\ Post(Message("taskbar", 0, NoCombination))
    /\ UNCHANGED <<hotKeyVars, icons, controls, cachedTraySize, windowVars>>

(* The explorer starts or ends: windows come, not minimized, and go. *)
ChangeWindows(w) ==
    /\ windows' = IF w \in windows THEN windows \ {w} ELSE windows \cup {w}
    /\ minimized' = minimized \ {w}
    /\ UNCHANGED <<hotKeyVars, messages, trayVars, consoleHidden>>
=============================================================================
