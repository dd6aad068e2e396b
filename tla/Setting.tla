------------------------------- MODULE Setting -------------------------------
(***************************************************************************)
(* core/setting and what is wired to a Setting by the configuration: a Knob  *)
(* that changes it, a TrayIcon and an Osd that show it.  A Setting keeps a   *)
(* copy of its backend's state; the backend is the volume of the default    *)
(* audio device (module VolumeControl) or the brightness of the monitors     *)
(* that MonitorManager lists, of which one behaviour has one.               *)
(*                                                                         *)
(* Everything here runs in the GUI thread, one event after the other.       *)
(***************************************************************************)
EXTENDS VolumeControl, FiniteSets, FiniteSetsExt

CONSTANTS
    Monitors,       \* Monitor objects
    Targets,        \* settings the knob may be configured for
    Step,           \* Knob::m_step
    Snap            \* values closer than this to an end are moved to the end

ASSUME KnobAssumption == Step \in 1..Full /\ Snap \in 1..Step
ASSUME TargetsAssumption == Targets \subseteq {"volume", "brightness"}

VARIABLES
    target,         \* the setting of this behaviour
    list,           \* MonitorManager::monitors()
    property,       \* property(BrightnessMonitorProperty) of each Monitor
    told,           \* last value given to each Monitor with setProperty()
    ready,          \* BrightnessSettingBackend::m_initialized
    cachedValue,    \* BrightnessSettingBackend::m_cachedValue
    cachedState,    \* Setting::m_cachedState
    icon,           \* what TrayIcon shows
    window,         \* OsdWindow::m_state
    fsm,            \* OsdFsm: "stopped", "waiting" or "fading"
    visible,        \* the OSD window is shown
    inRange,        \* history: setValue() of a backend was only called with values in [0, 1]
    notified,       \* history: changed() was emitted since the Osd was loaded
    synced          \* history: the audio device is the one m_cachedState was read from

brightnessVars == <<list, property, told, ready, cachedValue>>
shownVars == <<icon, window, fsm, visible>>
historyVars == <<inRange, notified, synced>>
settingVars == <<target, brightnessVars, cachedState, shownVars, historyVars>>
vars == <<volumeVars, settingVars>>

Values == Levels \cup {NaN}
Never == -1                 \* no value yet
State(enabled, value) == [enabled |-> enabled, value |-> value]
Hidden == State(FALSE, Never)   \* the icon is not shown

-----------------------------------------------------------------------------
(* The backends. *)

Initialized == target = "volume" \/ ready

(* BrightnessSettingBackend::value(), the first time: the mean over the      *)
(* list, NaN with one monitor whose brightness p[m] could not be read.      *)
Mean(p, ms) ==
    IF \E m \in ms : p[m] = NaN THEN NaN
    ELSE MapThenSumSet(LAMBDA m : p[m], ms) \div Cardinality(ms)

BackendState == IF target = "volume" THEN State(IsAudible, Volume) ELSE State(TRUE, cachedValue)

-----------------------------------------------------------------------------
(* What follows the signals of a Setting. *)

(* changed(): TrayIcon::updateIcon() and OsdWindow::setState(). *)
EmitChanged ==
    /\ icon' = cachedState'
    /\ window' = cachedState'
    /\ notified' = TRUE
NoChange == UNCHANGED <<icon, window, notified>>

(* activated(): Osd::show(), that is OsdFsm::start(). *)
EmitActivated == visible' = TRUE /\ fsm' = "waiting"

(* NaN compares as different from every value, itself included. *)
ValuesDiffer(a, b) == a # b \/ NaN \in {a, b}

(* Whether setState() emits changed().  Mutant: setEnabled() is not counted. *)
ValueChanges(s) == ValuesDiffer(cachedState.value, s.value)
HasChanges(s) == cachedState.enabled # s.enabled \/ ValuesDiffer(cachedState.value, s.value)

(* The brightness backend's setValue() talks to every Monitor of the list.   *)
(* Mutant: not to one that had this value when it was read.                 *)
ToldIfDifferent(v) == [m \in Monitors |-> IF m \in list /\ property[m] # v THEN v ELSE told[m]]
ToldAll(v) == [m \in Monitors |-> IF m \in list THEN v ELSE told[m]]

(* Setting::setState() for an initialized backend. *)
SetState(s) ==
    /\ muted' = IF target = "volume" /\ cachedState.enabled # s.enabled
                THEN MutedAfter(~s.enabled) ELSE muted
    /\ IF ValuesDiffer(cachedState.value, s.value)
       THEN /\ inRange' = (inRange /\ s.value \in Levels)
            /\ level' = IF target = "volume" THEN LevelAfter(s.value) ELSE level
            /\ cachedValue' = IF target = "brightness" THEN s.value ELSE cachedValue
            /\ told' = IF target = "brightness" THEN ToldAll(s.value) ELSE told
       ELSE UNCHANGED <<inRange, level, cachedValue, told>>
    /\ cachedState' = s
    /\ IF HasChanges(s) THEN EmitChanged ELSE NoChange

-----------------------------------------------------------------------------
(* Knob.  It changes the state it reads from the Setting, not the backend's. *)

(* clampValue(); std::clamp returns a NaN as it is.  Mutant: the upper end   *)
(* is forgotten.                                                            *)
ClampBelow(v) == IF v < Snap THEN 0 ELSE v
Clamp(v) == IF v < Snap THEN 0 ELSE IF v > Full - Snap THEN Full ELSE v
Moved(v, delta) == IF v = NaN THEN NaN ELSE Clamp(v + delta)

(* Mutant: the direction is lost when the knob also enables the setting.    *)
TurnedUp(delta) == State(TRUE, Moved(cachedState.value, IF cachedState.enabled THEN delta ELSE Step))
Turned(delta) == State(TRUE, Moved(cachedState.value, delta))
Toggled == [cachedState EXCEPT !.enabled = ~@]

UseKnob(s) ==
    /\ IF Initialized
       THEN SetState(s) /\ EmitActivated
       ELSE UNCHANGED <<muted, level, cachedValue, told, inRange, cachedState, icon, window,
                        notified, visible, fsm>>
    /\ UNCHANGED <<present, default, controlVars, events, target, list, property, ready, synced>>

Increase == UseKnob(Turned(Step))
Decrease == UseKnob(Turned(-Step))
Toggle == UseKnob(Toggled)

-----------------------------------------------------------------------------
(* Events. *)

(* changedExternally(): updateCachedState(), then activate().  Mutant: the  *)
(* Setting is activated but not updated.                                    *)
NotRead == cachedState
StateRead == BackendState

VolumeChanged ==
    /\ target = "volume"
    /\ events # <<>> /\ Head(events) = "volume"
    /\ events' = Tail(events)
    /\ cachedState' = StateRead
    /\ synced' = TRUE
    /\ EmitChanged /\ EmitActivated
    /\ UNCHANGED <<audioVars, controlVars, target, brightnessVars, inRange>>

(* defaultDeviceChanged(): only WinVolumeControl listens. *)
DeviceChanged ==
    /\ events # <<>> /\ Head(events) = "device"
    /\ events' = Tail(events)
    /\ Reinitialize
    /\ synced' = (synced /\ live /\ control' = control)
    /\ UNCHANGED <<audioVars, target, brightnessVars, cachedState, shownVars, inRange, notified>>

Elsewhere ==
    /\ target = "volume"
    /\ \/ \E d \in Devices, v \in Levels : ChangeVolume(d, v)
       \/ \E d \in Devices : ChangeMute(d)
       \/ \E ds \in SUBSET Devices : \E d \in IF ds = {} THEN {NoDevice} ELSE ds :
             ChangeDevices(ds, d)
    /\ UNCHANGED settingVars

(* MonitorManager has a new list of freshly initialized Monitors: monitors-  *)
(* Changed() reaches the backend, which is initialized by the first list     *)
(* that is not empty and then reads, and remembers, its value.              *)
MonitorsChanged(ms) ==
    /\ target = "brightness"
    /\ list' = ms
    /\ \E p \in [ms -> {0, Full, NaN}] :
         property' = [m \in Monitors |-> IF m \in ms THEN p[m] ELSE 0]
    /\ told' = [m \in Monitors |-> Never]
    /\ ready' = (ready \/ ms # {})
    /\ IF ready' # ready
       THEN /\ cachedValue' = Mean(property', ms)
            /\ cachedState' = State(TRUE, cachedValue')
            /\ EmitChanged
       ELSE UNCHANGED <<cachedValue, cachedState>> /\ NoChange
    /\ UNCHANGED <<volumeVars, target, fsm, visible, inRange, synced>>

(* trayIconSizeChanged(): updateIcon(). *)
RepaintIcon ==
    /\ icon' = IF Initialized THEN cachedState ELSE Hidden
    /\ UNCHANGED <<volumeVars, target, brightnessVars, cachedState, window, fsm, visible, historyVars>>

(* The animation group of OsdFsm: it waits, fades and finishes. *)
FadeOut ==
    /\ fsm = "waiting" /\ fsm' = "fading"
    /\ UNCHANGED <<volumeVars, target, brightnessVars, cachedState, icon, window, visible, historyVars>>

Finished ==
    /\ fsm = "fading" /\ fsm' = "stopped"
    /\ visible' = FALSE
    /\ UNCHANGED <<volumeVars, target, brightnessVars, cachedState, icon, window, historyVars>>

-----------------------------------------------------------------------------
(* The Setting was constructed, and the Osd and the TrayIcon were loaded.    *)
(* The TrayIcon has looked at the Setting, the Osd waits for changed().      *)
Init ==
    /\ target \in Targets
    /\ IF target = "volume" THEN InitVolume
       ELSE /\ present = {} /\ default = NoDevice /\ control = NoDevice /\ live = FALSE
            /\ subscribed = {} /\ events = <<>>
            /\ level = [d \in Devices |-> 0] /\ muted = [d \in Devices |-> FALSE]
    /\ list = {}
    /\ property = [m \in Monitors |-> 0]
    /\ told = [m \in Monitors |-> Never]
    /\ ready = FALSE
    /\ cachedValue = Never
    /\ cachedState = IF Initialized THEN BackendState ELSE State(FALSE, 0)
    /\ icon = IF Initialized THEN cachedState ELSE Hidden
    /\ window = State(FALSE, 0)
    /\ fsm = "stopped"
    /\ visible = FALSE
    /\ inRange = TRUE
    /\ notified = FALSE
    /\ synced = TRUE

Next ==
    \/ Increase
    \/ Decrease
    \/ Toggle
    \/ VolumeChanged
    \/ DeviceChanged
    \/ Elsewhere
    \/ \E ms \in SUBSET Monitors : MonitorsChanged(ms)
    \/ RepaintIcon
    \/ FadeOut
    \/ Finished

Spec == Init /\ [][Next]_vars

-----------------------------------------------------------------------------
States == [enabled : BOOLEAN, value : Values]

TypeOK ==
    /\ VolumeTypeOK
    /\ target \in Targets
    /\ list \subseteq Monitors
    /\ property \in [Monitors -> Values]
    /\ told \in [Monitors -> Values \cup {Never}]
    /\ ready \in BOOLEAN
    /\ cachedValue \in Values \cup {Never}
    /\ cachedState \in States
    /\ icon \in States \cup {Hidden}
    /\ window \in States
    /\ fsm \in {"stopped", "waiting", "fading"}
    /\ visible = (fsm # "stopped")
    /\ inRange \in BOOLEAN /\ notified \in BOOLEAN /\ synced \in BOOLEAN

(* The tray icon, and the OSD since it was told once, show the Setting's    *)
(* state, whichever of setState(), changedExternally() and initialized()    *)
(* changed it last; the icon is there as soon as the backend is ready.      *)
ShownIsCurrent ==
    /\ icon = IF Initialized THEN cachedState ELSE Hidden
    /\ notified => window = cachedState

(* The Setting's copy is only as good as the notifications it gets: once    *)
(* none is queued it equals the volume of the device it was read from, and  *)
(* what it believes to be enabled is not muted.  (At volume 0 the backend    *)
(* answers "disabled", and a Setting that was just enabled does not.)       *)
Quiet == events = <<>> /\ live

CopyMatchesDevice ==
    /\ cachedState.value = Volume
    /\ cachedState.enabled => ~IsMuted
    /\ Volume # 0 => cachedState.enabled = ~IsMuted

CacheFollowsVolume == target = "volume" /\ Quiet /\ synced => CopyMatchesDevice

(* A turn of the knob moves the volume that is heard in the knob's          *)
(* direction, to the end of the scale, whatever the Setting believed about  *)
(* muting; it may go the other way only while a notification is queued, or  *)
(* after the default device has changed.                                    *)
KnobMovesVolume ==
    [][target = "volume" /\ Quiet /\ synced =>
         /\ Increase => /\ ~muted'[control]
                        /\ level'[control] > level[control] \/ level'[control] = Full
         /\ Decrease => level'[control] < level[control] \/ level'[control] = 0]_vars

(* Once every device change was handled, the control talks to the default   *)
(* device and is notified by this device and by no other.                   *)
ListensToDefault ==
    default # NoDevice /\ "device" \notin Elements(events) =>
        live /\ control = default /\ subscribed = {default}

(* The two copies of the brightness, the Setting's and its backend's, agree, *)
(* and no listed monitor was left at an older value than the others.        *)
BrightnessAgrees ==
    target = "brightness" /\ ready =>
        /\ cachedState.value = cachedValue
        /\ \A m \in list : told[m] \in {Never, cachedValue}

(* "New value. Must be in [0, 1]" (setting_backend.h:21), asserted by both   *)
(* backends.                                                                *)
SetValueInRange == inRange

(* "Emitted whenever volume control state is changed externally"            *)
(* (platform_volume_control.h:23): then the Setting's copy, which is read    *)
(* anew at each changedExternally(), equals the control's state.            *)
ChangesAreAnnounced == target = "volume" /\ Quiet => CopyMatchesDevice
=============================================================================
