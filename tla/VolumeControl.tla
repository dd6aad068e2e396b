---------------------------- MODULE VolumeControl ----------------------------
(***************************************************************************)
(* platform/win: WinVolumeControl, which talks to the default audio device, *)
(* and WinVolumeEventHandler, whose callbacks run in a thread of the audio   *)
(* service and reach the GUI thread as queued signals.  Other programs and   *)
(* the user change devices, volume and mute state at any moment.  A call of  *)
(* the audio API fails only when its device is gone.                        *)
(***************************************************************************)
EXTENDS Integers, Sequences

CONSTANTS
    Devices,        \* audio endpoints
    NoDevice,       \* a null ComPtr
    NaN,            \* what volume() returns when it fails
    Full,           \* volume 1.0; volume 0.0 is 0
    MaxEvents       \* bound on the signals queued at the same time

ASSUME DevicesAssumption == NoDevice \notin Devices
ASSUME LevelsAssumption == Full \in Nat \ {0} /\ MaxEvents \in Nat \ {0} /\ NaN \notin 0..Full

VARIABLES
    present,        \* the devices that are plugged in
    default,        \* the default one of them
    level,          \* volume of each device
    muted,          \* mute state of each device
    control,        \* the device m_volumeControl was activated for
    live,           \* m_volumeControl is not null, and its device never left since
    subscribed,     \* devices the event handler is registered at
    events          \* signals of the event handler queued to the GUI thread

audioVars == <<present, default, level, muted>>
controlVars == <<control, live, subscribed>>
volumeVars == <<audioVars, controlVars, events>>

Levels == 0..Full
Elements(s) == {s[i] : i \in DOMAIN s}

(* The constructor, after initializeDefaultDevice(). *)
InitVolume ==
    /\ present \in SUBSET Devices
    /\ default \in IF present = {} THEN {NoDevice} ELSE present
    /\ level \in [Devices -> {0, Full}]
    /\ muted \in [Devices -> BOOLEAN]
    /\ control = default
    /\ live = (default # NoDevice)
    /\ subscribed = {default} \ {NoDevice}
    /\ events = <<>>

(* What volume(), isMuted() and isEnabled() of the backend answer; without a *)
(* device isMuted() says TRUE, with a device that is gone it says FALSE.    *)
Volume == IF live THEN level[control] ELSE NaN
IsMuted == IF live THEN muted[control] ELSE control = NoDevice
IsAudible == ~IsMuted /\ Volume # 0

(* OnNotify(), for a change made by another program. *)
ChangedElsewhere(d) == IF d \in subscribed THEN Append(events, "volume") ELSE events

(* Another program, or the user with the system's own controls. *)
ChangeVolume(d, v) ==
    /\ d \in present /\ Len(events) < MaxEvents
    /\ level[d] # v
    /\ level' = [level EXCEPT ![d] = v]
    /\ events' = ChangedElsewhere(d)
    /\ UNCHANGED <<present, default, muted, controlVars>>

ChangeMute(d) ==
    /\ d \in present /\ Len(events) < MaxEvents
    /\ muted' = [muted EXCEPT ![d] = ~@]
    /\ events' = ChangedElsewhere(d)
    /\ UNCHANGED <<present, default, level, controlVars>>

(* Devices come and go.  OnDefaultDeviceChanged() is called whenever there  *)
(* is another default device, and also for a change in a role that the      *)
(* control does not use, so that the default may turn out to be the same.   *)
ChangeDevices(ds, d) ==
    /\ Len(events) < MaxEvents
    /\ present' = ds
    /\ default' = d
    /\ live' = (live /\ control \in ds)
    /\ subscribed' = subscribed \cap ds
    /\ events' \in {Append(events, "device")} \cup (IF d = default THEN {events} ELSE {})
    /\ UNCHANGED <<level, muted, control>>

(* deinitializeDefaultDevice().  Mutant: the old device is kept registered. *)
StaysRegistered == subscribed
AfterDeinitialize == IF live THEN subscribed \ {control} ELSE subscribed

(* The slot of defaultDeviceChanged(): deinitializeDefaultDevice(), then    *)
(* initializeDefaultDevice(), which returns early, with m_volumeControl as  *)
(* it was, when there is no default device.                                 *)
Reinitialize ==
    /\ control' = IF default = NoDevice THEN control ELSE default
    /\ live' = (IF default = NoDevice THEN live ELSE TRUE)
    /\ subscribed' = AfterDeinitialize \cup ({default} \ {NoDevice})

(* setVolume() and setMuted() have an effect on a device that is there; the *)
(* API refuses a NaN, which std::clamp lets through.                        *)
LevelAfter(v) == IF live /\ v # NaN THEN [level EXCEPT ![control] = v] ELSE level
MutedAfter(b) == IF live THEN [muted EXCEPT ![control] = b] ELSE muted

VolumeTypeOK ==
    /\ present \subseteq Devices
    /\ default \in present \cup {NoDevice}
    /\ level \in [Devices -> Levels]
    /\ muted \in [Devices -> BOOLEAN]
    /\ control \in Devices \cup {NoDevice}
    /\ live \in BOOLEAN
    /\ subscribed \subseteq present
    /\ events \in Seq({"volume", "device"}) /\ Len(events) <= MaxEvents
=============================================================================
