------------------------------ MODULE Entities ------------------------------
(***************************************************************************)
(* core/: the entities of the pool, from their construction over their      *)
(* loadFromConfig() to their destruction, and what they do with the messages *)
(* of Windows.  What a knob does to a setting is in module Setting; here a   *)
(* setting is only initialized or not.                                      *)
(*                                                                         *)
(* Assertions are compiled out, as they are in a release build.              *)
(***************************************************************************)
EXTENDS Desktop, EntityConfig

CONSTANTS
    Configs,        \* what is at the paths that are given for the configuration file
    Screens,        \* the screens, with their first sizes
    FirstScreen     \* the primary one at the start

NoScreen == ""      \* a null QScreen*

ASSUME ConfigsAssumption == \A path \in DOMAIN Configs : IsFiniteSet(DOMAIN Configs[path].tables)
ASSUME ScreensAssumption == FirstScreen \in DOMAIN Screens /\ NoScreen \notin DOMAIN Screens

VARIABLES
    config,         \* the path of the configuration file
    pool,           \* EntityPool::m_entityById, with the types of the entities
    loaded,         \* Entity::m_loaded
    osds,           \* what each Osd and its OsdWindow hold
    shown,          \* the size of the pixmap each TrayIcon shows, 0 when it is hidden
    hiding,         \* the Win10 entities with m_systemOsdHidden
    initialized,    \* the settings whose isInitialized() holds
    screens,        \* the size of each screen
    primary,        \* the primary screen
    quitting,       \* QCoreApplication::quit() was called
    handled         \* history: the last message, and the closures invoked for it

entityVars == <<pool, loaded, osds, shown, hiding>>
settingVars == <<initialized>>
screenVars == <<screens, primary>>

File == Configs[config]
Ids == DOMAIN File.tables
Record(id) == Records(File)[id]
ValueIn(types, id, key) == Result(Read(Record(id), types[id], key, types))
P(id, key) == ValueIn(pool, id, key)
OfType(type) == {id \in DOMAIN pool : pool[id] = type}
Loaded(type) == OfType(type) \cap loaded

(* DefaultEntityPool. *)
Builtins == [app |-> "app", brightness |-> "setting", heos |-> "heos", keyboard |-> "keyboard",
             volume |-> "setting", volume_icon |-> "standard_tray_icon"]

Handled(kind, combination, over, invoked) ==
    [kind |-> kind, combination |-> combination, over |-> over, invoked |-> invoked]

EntitiesInit ==
    /\ pool = <<>> /\ loaded = {} /\ osds = <<>> /\ shown = <<>> /\ hiding = {}
    /\ initialized = {"volume"}
    /\ screens = Screens /\ primary = FirstScreen
    /\ quitting = FALSE /\ handled = Handled("none", NoCombination, {}, {})

-----------------------------------------------------------------------------
(* Osd and OsdWindow. *)

Half(n) == IF n >= 0 THEN n \div 2 ELSE -((-n) \div 2)

Along(where, whole, part) ==
    CASE where \in {"left", "top"} -> 0
      [] where \in {"right", "bottom"} -> whole - part
      [] where = "center" -> Half(whole - part)

UpdatePosition(o, screen) ==
    [o EXCEPT !.position = <<Along(o.alignment[2], screen[1], o.size[1]) + o.offset[1],
                             Along(o.alignment[1], screen[2], o.size[2]) + o.offset[2]>>]

(* setAlignment(), setOffset(), and a resize() of the window. *)
Change(o, field, value) ==
    IF o[field] = value THEN o
    ELSE UpdatePosition([o EXCEPT ![field] = value], screens[primary])

(* Mutant: the Osd stays with the screen that was the primary one.           *)
KeepScreen(o, screen, all) == UpdatePosition(o, all[screen])
UpdatePrimaryScreen(o, screen, all) ==
    IF o.screen = screen THEN o ELSE UpdatePosition([o EXCEPT !.screen = screen], all[screen])

NewOsd ==
    UpdatePrimaryScreen([alignment |-> <<"bottom", "center">>, offset |-> <<0, -100>>, skin |-> "",
                         size |-> <<0, 0>>, position |-> <<0, 0>>, screen |-> NoScreen],
                        primary, screens)

(* Skin::size(). *)
SkinSize(skin, ready) ==
    IF pool[skin] = "horizontal_bar_skin"
    THEN IF skin \in ready THEN P(skin, "background") ELSE <<0, 0>>
    ELSE IF skin \in ready THEN P(skin, "size") ELSE NoSize

SetSkin(o, skin) == Change([o EXCEPT !.skin = skin], "size", SkinSize(skin, loaded))

LoadedOsd(id) ==
    SetSkin(Change(Change(osds[id], "alignment", P(id, "position")), "offset", P(id, "offset")),
            P(id, "skin"))

(* OsdWindow::updateSize(), when a skin is loaded. *)
ResizeOsds(skin) ==
    osds' = [id \in DOMAIN osds |->
                IF osds[id].skin = skin
                THEN Change(osds[id], "size", SkinSize(skin, loaded \cup {skin})) ELSE osds[id]]

-----------------------------------------------------------------------------
(* TrayIcon::updateIcon(), for icons that have a skin and a setting. *)
UpdateIcons(ids, ready, size) ==
    shown' = [id \in DOMAIN shown |->
                IF id \in ids THEN IF P(id, "target") \in ready THEN size ELSE 0 ELSE shown[id]]

-----------------------------------------------------------------------------
(* Win10.  Each search for the native OSD logs a warning for a process that   *)
(* cannot be opened, and one when the search is ambiguous.                  *)

SearchWarnings ==
    Cardinality({w \in windows : NativeWindows[w].hasChild /\ ~NativeWindows[w].opens})
        + (IF Cardinality(Candidates) > 1 THEN 1 ELSE 0)

EnsureNativeOsdHidden(ids) ==
    /\ hiding' = IF NativeOsdControl # {} THEN hiding \cup ids ELSE hiding
    /\ minimized' = IF ids # {} THEN minimized \cup NativeOsdControl ELSE minimized

-----------------------------------------------------------------------------
(* Constructors, by the type that is created for "id". *)
CreateEntity(id, type) ==
    /\ pool' = With(pool, id, type)
    /\ osds' = IF type = "osd" THEN With(osds, id, NewOsd) ELSE osds
    /\ icons' = IF type = "tray_icon" THEN icons \cup {id} ELSE icons
    /\ shown' = IF type = "tray_icon" THEN With(shown, id, 0) ELSE shown
    /\ UNCHANGED <<loaded, hiding, hotKeyVars, messages, controls, traySize, cachedTraySize,
                   windowVars>>

(* DefaultEntityPool::DefaultEntityPool(). *)
CreateBuiltins ==
    /\ pool' = Builtins
    /\ controls' = controls \cup {"volume_icon"}
    /\ UNCHANGED <<loaded, osds, shown, hiding, hotKeyVars, messages, icons, traySize,
                   cachedTraySize, windowVars>>

(* Win10::~Win10() restores the native OSD.  Mutant: it does not. *)
LeaveMinimized(ids) == {}
RestoredWindows(ids) == IF hiding \cap ids # {} THEN NativeOsdControl ELSE {}

(* The destructors of some entities. *)
Forget(f, ids) == [id \in DOMAIN f \ ids |-> f[id]]
DestroyEntities(ids) ==
    /\ pool' = Forget(pool, ids)
    /\ loaded' = loaded \ ids
    /\ osds' = Forget(osds, ids)
    /\ shown' = Forget(shown, ids)
    /\ icons' = icons \ ids
    /\ controls' = controls \ ids
    /\ RemoveShortcutNotifiers(ids)
    /\ hiding' = hiding \ ids
    /\ minimized' = minimized \ RestoredWindows(ids)
    /\ UNCHANGED <<messages, traySize, cachedTraySize, windows, consoleHidden>>

-----------------------------------------------------------------------------
(* loadFromConfig(). *)

ClosureFails(types, id) ==
    ~ClosureIsValid(types[ValueIn(types, id, "target")], ValueIn(types, id, "action"),
                    ValueIn(types, id, "args"))

(* Sound::loadFromConfig() opens the file that AsPath found to exist.         *)
CannotOpenSound(types, id) ==
    types[id] = "sound" /\ ~(Read(Record(id), "sound", "path", types) \subseteq ReadableFiles)

(* The loads that throw whatever was loaded before. *)
IsRefused(types, id) ==
    \/ ~AllRead(Record(id), types[id], types)
    \/ CannotOpenSound(types, id)
    \/ /\ types[id] = "tray_event"
       /\ IsMouseWheel(ValueIn(types, id, "trigger").key) => ClosureFails(types, id)

(* A closure is only made for a hotkey that has a notifier. *)
LoadFails(id) ==
    \/ IsRefused(pool, id)
    \/ pool[id] = "hotkey" /\ CanNotify(P(id, "trigger")) /\ ClosureFails(pool, id)

HidesNativeOsd(id) == Read(Record(id), "win10", "hide_native_osd", pool) = {TRUE}

(* What a load that throws leaves behind of what outlives the entity: the     *)
(* hotkey's notifier, as its closure is made last, and the native OSD that   *)
(* is hidden before hide_console is read.                                   *)
PartOfLoad(id) ==
    /\ IF pool[id] = "hotkey" /\ AllRead(Record(id), pool[id], pool)
       THEN CreateShortcutNotifier(id, P(id, "trigger")) ELSE UNCHANGED hotKeyVars
    /\ EnsureNativeOsdHidden(IF pool[id] = "win10" /\ HidesNativeOsd(id) THEN {id} ELSE {})
    /\ UNCHANGED <<pool, loaded, osds, shown, messages, trayVars, windows, consoleHidden>>

LoadHotkey(id) ==
    /\ CreateShortcutNotifier(id, P(id, "trigger"))
    /\ UNCHANGED <<osds, shown, hiding, windowVars>>

LoadSkin(id) ==
    /\ ResizeOsds(id)
    /\ UNCHANGED <<hotKeyVars, shown, hiding, windowVars>>

LoadOsd(id) ==
    /\ osds' = [osds EXCEPT ![id] = LoadedOsd(id)]
    /\ UNCHANGED <<hotKeyVars, shown, hiding, windowVars>>

LoadTrayIcon(id) ==
    /\ UpdateIcons({id}, initialized, TrayIconSize)
    /\ UNCHANGED <<hotKeyVars, osds, hiding, windowVars>>

LoadWin10(id) ==
    /\ EnsureNativeOsdHidden(IF HidesNativeOsd(id) THEN {id} ELSE {})
    /\ consoleHidden' = (consoleHidden \/ P(id, "hide_console"))
    /\ UNCHANGED <<hotKeyVars, osds, shown, windows>>

(* A knob and a tray event only take what they have read, and a sound its     *)
(* open file; a sound that could not open it goes with all it has.          *)
LoadOther(id) == UNCHANGED <<hotKeyVars, osds, shown, hiding, windowVars>>

LoadEntity(id) ==
    /\ CASE pool[id] = "hotkey" -> LoadHotkey(id)
         [] pool[id] \in Skins -> LoadSkin(id)
         [] pool[id] = "osd" -> LoadOsd(id)
         [] pool[id] = "tray_icon" -> LoadTrayIcon(id)
         [] pool[id] = "win10" -> LoadWin10(id)
         [] OTHER -> LoadOther(id)
    /\ loaded' = loaded \cup {id}
    /\ UNCHANGED <<pool, messages, trayVars>>

-----------------------------------------------------------------------------
(* The closures that an event invokes, and what their methods do here. *)

Closure(id) == [target |-> P(id, "target"), action |-> P(id, "action")]

(* TrayEvent::eventFilter(), with the key that keyFromEvent() makes.  Mutant:  *)
(* the modifiers are not looked at.                                         *)
EventSource(id) == {P(id, "source")} \cap {s \in DOMAIN pool : pool[s] \in {"tray_icon", "standard_tray_icon"}}
WithAnyModifiers(receivers, combination) ==
    {id \in Loaded("tray_event") :
        EventSource(id) \cap receivers # {} /\ P(id, "trigger").key = combination.key}
Triggered(receivers, combination) ==
    {id \in Loaded("tray_event") :
        EventSource(id) \cap receivers # {} /\ P(id, "trigger") = combination}

Invoke(closures) ==
    /\ quitting' = (quitting \/ \E c \in closures : c.target = "app" /\ c.action = "exit")
    /\ EnsureNativeOsdHidden({c.target : c \in {c \in closures : c.action = "ensureNativeOsdHidden"}})
    /\ UNCHANGED <<pool, loaded, osds, hotKeyVars, windows, consoleHidden>>

(* What the cursor may be over: something shown in the task bar, or nothing. *)
UnderCursor == {{}} \cup {{i} : i \in {i \in icons : shown[i] # 0}} \cup {{c} : c \in controls}

(* WinSharedEventWindow::nativeEvent() for the first message, and what is     *)
(* connected to its signals.                                                *)
TakeMessage(kind) ==
    messages # <<>> /\ Head(messages).kind = kind /\ messages' = Tail(messages)

HandleHotkey ==
    /\ TakeMessage("hotkey")
    /\ LET m == Head(messages)
           closures == {Closure(id) : id \in NotifierOf(m)}
       IN  Invoke(closures) /\ handled' = Handled("hotkey", m.combination, {}, closures)
    /\ UNCHANGED <<shown, trayVars, settingVars, screenVars>>

HandleInput ==
    /\ TakeMessage("input")
    /\ \E over \in UnderCursor : \E receivers \in Receivers(over) :
        LET m == Head(messages)
            closures == {Closure(id) : id \in Triggered(receivers, m.combination)}
        IN  Invoke(closures) /\ handled' = Handled("input", m.combination, over, closures)
    /\ UNCHANGED <<shown, trayVars, settingVars, screenVars>>

HandleTaskbarCreated ==
    /\ TakeMessage("taskbar")
    /\ cachedTraySize' = traySize
    /\ IF SizeIsNew THEN UpdateIcons(Loaded("tray_icon"), initialized, traySize)
       ELSE UNCHANGED shown
    /\ UNCHANGED <<pool, loaded, osds, hiding, quitting, handled, hotKeyVars, icons, controls,
                   traySize, windowVars, settingVars, screenVars>>

(* A setting changes, and is initialized from then on. *)
SettingChanged(setting) ==
    /\ initialized' = initialized \cup {setting}
    /\ UpdateIcons({id \in Loaded("tray_icon") : P(id, "target") = setting}, initialized', TrayIconSize)
    /\ UNCHANGED <<pool, loaded, osds, hiding, quitting, handled, desktopVars, screenVars>>

(* QGuiApplication::primaryScreenChanged and QScreen::geometryChanged. *)
ChangePrimaryScreen(screen) ==
    /\ screen # primary
    /\ primary' = screen
    /\ osds' = [id \in DOMAIN osds |-> UpdatePrimaryScreen(osds[id], screen, screens)]
    /\ UNCHANGED <<pool, loaded, shown, hiding, quitting, handled, screens, desktopVars, settingVars>>

ChangeGeometry(screen, size) ==
    /\ screens[screen] # size
    /\ screens' = [screens EXCEPT ![screen] = size]
    /\ osds' = [id \in DOMAIN osds |->
                    IF osds[id].screen = screen THEN UpdatePosition(osds[id], screens'[primary])
                    ELSE osds[id]]
    /\ UNCHANGED <<pool, loaded, shown, hiding, quitting, handled, primary, desktopVars, settingVars>>
=============================================================================
