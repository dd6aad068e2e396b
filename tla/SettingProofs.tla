---------------------------- MODULE SettingProofs ----------------------------
(***************************************************************************)
(* Safety of Setting for every set of audio devices and monitors, every     *)
(* scale and every bound on the queued signals.                             *)
(*                                                                         *)
(* The properties speak of the moments when no signal is queued.  The       *)
(* invariant says what a queued signal stands for: while no "device" signal *)
(* is queued the control talks to the default device, and while no "volume" *)
(* signal is queued the Setting's copy is the device's state.  This needs   *)
(* that the event handler is registered at the control's device exactly     *)
(* while that device is there.                                              *)
(*                                                                         *)
(* The types of the brightness are not proved: the mean over the monitors   *)
(* is a fold over a set.                                                    *)
(***************************************************************************)
EXTENDS Setting, SequenceTheorems, TLAPS

(* A signal that is still queued. *)
Awaited(signal) == signal \in Elements(events)

(* The event handler is registered at the device of the control, as long as *)
(* that is there; and that is the default device, unless the GUI thread has *)
(* yet to hear of a change.                                                 *)
AudioInv ==
    /\ VolumeTypeOK
    /\ default = NoDevice <=> present = {}
    /\ subscribed = IF live THEN {control} ELSE {}
    /\ live => control \in present
    /\ ~Awaited("device") => (live <=> default # NoDevice) /\ (live => control = default)

(* The state that the Setting copied is that of the device, unless the GUI  *)
(* thread has yet to hear of a change or the control has moved to another   *)
(* device.                                                                  *)
CopyInv ==
    /\ target \in Targets /\ ready \in BOOLEAN /\ list \subseteq Monitors
    /\ cachedState.enabled \in BOOLEAN
    /\ cachedState = State(cachedState.enabled, cachedState.value)
    /\ target = "volume" => cachedState.value \in Values
    /\ target = "volume" /\ live /\ synced /\ ~Awaited("volume") => CopyMatchesDevice

(* The inductive invariant. *)
IInv == AudioInv /\ CopyInv /\ ShownIsCurrent /\ BrightnessAgrees

-----------------------------------------------------------------------------
(* Queueing a signal. *)
LEMMA ElementsOfAppend ==
    ASSUME NEW S, NEW s \in Seq(S), NEW e \in S
    PROVE  /\ Append(s, e) \in Seq(S) /\ Len(Append(s, e)) = Len(s) + 1 /\ Len(s) \in Nat
           /\ Elements(Append(s, e)) = Elements(s) \cup {e}
<1>1. /\ Append(s, e) \in Seq(S)
      /\ Len(s) \in Nat /\ DOMAIN s = 1..Len(s)
      /\ Len(Append(s, e)) = Len(s) + 1 /\ DOMAIN Append(s, e) = 1..(Len(s) + 1)
      /\ \A i \in 1..Len(s) : Append(s, e)[i] = s[i]
      /\ Append(s, e)[Len(s) + 1] = e
  BY AppendProperties, LenProperties
<1>2. \A i \in 1..(Len(s) + 1) : i \in 1..Len(s) \/ i = Len(s) + 1
  BY <1>1
<1>3. 1..Len(s) \subseteq 1..(Len(s) + 1) /\ Len(s) + 1 \in 1..(Len(s) + 1)
  BY <1>1
<1> QED BY <1>1, <1>2, <1>3 DEF Elements

(* Taking the first signal. *)
LEMMA ElementsOfTail ==
    ASSUME NEW S, NEW s \in Seq(S), s # <<>>
    PROVE  /\ Tail(s) \in Seq(S) /\ Len(Tail(s)) = Len(s) - 1 /\ Len(s) \in Nat
           /\ Elements(s) = {Head(s)} \cup Elements(Tail(s))
<1>1. Len(s) \in Nat \ {0} /\ DOMAIN s = 1..Len(s)
  BY EmptySeq, LenProperties
<1>2. Tail(s) \in Seq(S) /\ Len(Tail(s)) = Len(s) - 1 /\ Head(s) = s[1]
  BY HeadTailProperties
<1>3. DOMAIN Tail(s) = 1..(Len(s) - 1) /\ \A i \in 1..(Len(s) - 1) : Tail(s)[i] = s[i + 1]
  BY <1>1, <1>2, LenProperties, HeadTailProperties
<1>4. ASSUME NEW e PROVE e \in Elements(s) <=> e = Head(s) \/ e \in Elements(Tail(s))
  <2>1. ASSUME NEW i \in 1..Len(s), e = s[i] PROVE e = Head(s) \/ e \in Elements(Tail(s))
    <3>1. CASE i = 1
      BY <3>1, <2>1, <1>2
    <3>2. CASE i # 1
      <4>1. i - 1 \in 1..(Len(s) - 1) /\ (i - 1) + 1 = i
        BY <3>2, <1>1
      <4> QED BY <4>1, <2>1, <1>3 DEF Elements
    <3> QED BY <3>1, <3>2
  <2>2. ASSUME NEW i \in 1..(Len(s) - 1), e = Tail(s)[i] PROVE e \in Elements(s)
    <3>1. i + 1 \in 1..Len(s)
      BY <1>1
    <3> QED BY <3>1, <2>2, <1>1, <1>3 DEF Elements
  <2>3. 1 \in 1..Len(s)
    BY <1>1
  <2> QED BY <2>1, <2>2, <2>3, <1>1, <1>2, <1>3 DEF Elements
<1> QED BY <1>1, <1>2, <1>4

(* An empty queue. *)
LEMMA NoElements == Elements(<<>>) = {}
BY DEF Elements

-----------------------------------------------------------------------------
(* The invariant holds once the Setting is constructed. *)
LEMMA InitInv == ASSUME Init PROVE IInv
<1>1. target \in Targets /\ (target = "volume" \/ target = "brightness")
  BY TargetsAssumption DEF Init
<1>2. CASE target = "volume"
  <2>1. /\ InitVolume /\ cachedState = BackendState /\ icon = cachedState
        /\ ready = FALSE /\ notified = FALSE /\ list = {}
    BY <1>2 DEF Init, Initialized
  <2>2. AudioInv
    <3>1. VolumeTypeOK
      BY <2>1, LevelsAssumption DEF InitVolume, VolumeTypeOK, Levels
    <3>2. default = NoDevice <=> present = {}
      BY <2>1, DevicesAssumption DEF InitVolume
    <3> QED BY <2>1, <3>1, <3>2 DEF AudioInv, InitVolume
  <2>3. CopyInv
    <3>1. cachedState = State(IsAudible, Volume) /\ IsAudible \in BOOLEAN /\ Volume \in Values
      BY <1>2, <2>1, <2>2 DEF BackendState, IsAudible, Volume, IsMuted, Values, AudioInv, VolumeTypeOK
    <3>2. cachedState.enabled = IsAudible /\ cachedState.value = Volume
      BY <3>1 DEF State
    <3>3. CopyMatchesDevice
      BY <3>2 DEF CopyMatchesDevice, IsAudible
    <3> QED BY <3>1, <3>2, <3>3, <2>1, <1>1 DEF CopyInv
  <2>4. ShownIsCurrent /\ BrightnessAgrees
    BY <1>2, <2>1 DEF ShownIsCurrent, BrightnessAgrees, Initialized
  <2> QED BY <2>2, <2>3, <2>4 DEF IInv
<1>3. CASE target = "brightness"
  <2>1. /\ present = {} /\ default = NoDevice /\ control = NoDevice /\ live = FALSE
        /\ subscribed = {} /\ events = <<>> /\ level = [d \in Devices |-> 0]
        /\ muted = [d \in Devices |-> FALSE]
        /\ ready = FALSE /\ notified = FALSE /\ list = {}
        /\ cachedState = State(FALSE, 0) /\ icon = Hidden
    BY <1>3 DEF Init, Initialized
  <2>2. AudioInv
    <3>1. VolumeTypeOK
      <4>1. 0 \in Levels /\ 0 <= MaxEvents
        BY LevelsAssumption DEF Levels
      <4>2. events \in Seq({"volume", "device"}) /\ Len(events) <= MaxEvents
        BY <2>1, <4>1
      <4> QED BY <2>1, <4>1, <4>2 DEF VolumeTypeOK
    <3> QED BY <2>1, <3>1 DEF AudioInv
  <2>3. CopyInv /\ ShownIsCurrent /\ BrightnessAgrees
    BY <2>1, <1>1, <1>3 DEF CopyInv, ShownIsCurrent, BrightnessAgrees, Initialized, State
  <2> QED BY <2>2, <2>3 DEF IInv
<1> QED BY <1>1, <1>2, <1>3
-----------------------------------------------------------------------------
(* What the knob hands to setState(): a value on the scale if the copy has  *)
(* one, and either it enables the setting or it only toggles it.            *)
KnobState(s) ==
    /\ s = State(s.enabled, s.value) /\ s.enabled \in BOOLEAN
    /\ target = "volume" => s.value \in Values
    /\ target = "volume" /\ cachedState.value \in Levels => s.value \in Levels
    /\ s.enabled = TRUE \/ (s.enabled # cachedState.enabled /\ s.value = cachedState.value)

(* clampValue() stays on the scale. *)
LEMMA ClampIsLevel == ASSUME NEW v \in Int PROVE Clamp(v) \in Levels
BY LevelsAssumption, KnobAssumption DEF Clamp, Levels

(* A turn of the knob. *)
LEMMA TurnedState == ASSUME IInv, NEW delta \in Int PROVE KnobState(Turned(delta))
<1>1. /\ cachedState = State(cachedState.enabled, cachedState.value)
      /\ cachedState.enabled \in BOOLEAN
      /\ target = "volume" => cachedState.value \in Levels \cup {NaN}
      /\ NaN \notin Levels
  BY LevelsAssumption DEF IInv, CopyInv, Values, Levels
<1>2. /\ Turned(delta) = State(TRUE, Moved(cachedState.value, delta))
      /\ Turned(delta).enabled = TRUE /\ Turned(delta).value = Moved(cachedState.value, delta)
  BY DEF Turned, State
<1>3. cachedState.value \in Levels => cachedState.value + delta \in Int
  BY LevelsAssumption DEF Levels
<1>4. cachedState.value \in Levels => Moved(cachedState.value, delta) \in Levels
  BY <1>3, <1>1, ClampIsLevel DEF Moved
<1>5. cachedState.value = NaN => Moved(cachedState.value, delta) = NaN
  BY DEF Moved
<1>6. Turned(delta) = State(Turned(delta).enabled, Turned(delta).value)
  BY <1>2
<1>7. target = "volume" => Turned(delta).value \in Values
  BY <1>2, <1>4, <1>5, <1>1 DEF Values
<1>8. target = "volume" /\ cachedState.value \in Levels => Turned(delta).value \in Levels
  BY <1>2, <1>4
<1>9. Turned(delta).enabled = TRUE
  BY <1>2
<1> QED BY <1>6, <1>7, <1>8, <1>9 DEF KnobState

(* A click of the knob. *)
LEMMA ToggledState == ASSUME IInv PROVE KnobState(Toggled)
<1>1. /\ cachedState = State(cachedState.enabled, cachedState.value)
      /\ cachedState.enabled \in BOOLEAN
      /\ target = "volume" => cachedState.value \in Levels \cup {NaN}
      /\ NaN \notin Levels
  BY LevelsAssumption DEF IInv, CopyInv, Values, Levels
<1>2. Toggled = State(~cachedState.enabled, cachedState.value)
  BY <1>1 DEF Toggled, State
<1>3. Toggled.enabled = ~cachedState.enabled /\ Toggled.value = cachedState.value
  BY <1>2 DEF State
<1> QED BY <1>2, <1>3, <1>1 DEF KnobState, Values

(* What setState() does to the copies and to the device, for a state the    *)
(* knob hands to it.                                                        *)
LEMMA UseKnobFacts ==
    ASSUME IInv, NEW s, KnobState(s), UseKnob(s), Initialized
    PROVE  /\ cachedState' = s
           /\ \/ icon' = s /\ window' = s
              \/ s = cachedState /\ UNCHANGED <<icon, window, notified>>
           /\ level' \in [Devices -> Levels] /\ muted' \in [Devices -> BOOLEAN]
           /\ target = "volume" /\ live =>
                 /\ muted'[control] = IF s.enabled # cachedState.enabled THEN ~s.enabled ELSE muted[control]
                 /\ level'[control] = IF s.value # cachedState.value /\ s.value # NaN
                                      THEN s.value ELSE level[control]
           /\ target = "brightness" /\ ready =>
                 /\ cachedValue' = s.value
                 /\ \A m \in list : told'[m] \in {Never, cachedValue'}
           /\ UNCHANGED <<present, default, control, live, subscribed, events, target, list, ready, synced>>
<1>1. /\ SetState(s)
      /\ UNCHANGED <<present, default, control, live, subscribed, events, target, list, ready, synced>>
  BY DEF UseKnob, controlVars
<1>2. /\ cachedState = State(cachedState.enabled, cachedState.value)
      /\ s = State(s.enabled, s.value) /\ s.enabled \in BOOLEAN
      /\ target = "volume" => s.value \in Levels \cup {NaN}
      /\ NaN \notin Levels
  BY LevelsAssumption DEF IInv, CopyInv, KnobState, Values, Levels
<1>3. ~HasChanges(s) => s = cachedState
  BY <1>2 DEF HasChanges, ValuesDiffer
<1>4. /\ cachedState' = s
      /\ \/ icon' = s /\ window' = s
         \/ s = cachedState /\ UNCHANGED <<icon, window, notified>>
  <2>1. CASE HasChanges(s)
    BY <1>1, <2>1 DEF SetState, EmitChanged
  <2>2. CASE ~HasChanges(s)
    BY <1>1, <1>3, <2>2 DEF SetState, NoChange
  <2> QED BY <2>1, <2>2
<1>5. level \in [Devices -> Levels] /\ muted \in [Devices -> BOOLEAN] /\ (live => control \in Devices)
  BY DEF IInv, AudioInv, VolumeTypeOK
<1>6. /\ muted' \in [Devices -> BOOLEAN]
      /\ target = "volume" /\ live =>
            muted'[control] = IF s.enabled # cachedState.enabled THEN ~s.enabled ELSE muted[control]
  <2>1. muted' = IF target = "volume" /\ cachedState.enabled # s.enabled
                 THEN MutedAfter(~s.enabled) ELSE muted
    BY <1>1 DEF SetState
  <2>2. CASE target = "volume" /\ cachedState.enabled # s.enabled /\ live
    <3>1. muted' = [muted EXCEPT ![control] = ~s.enabled]
      BY <2>1, <2>2 DEF MutedAfter
    <3>2. (~s.enabled) \in BOOLEAN
      BY <1>2
    <3> QED BY <2>2, <3>1, <3>2, <1>5
  <2>3. CASE ~(target = "volume" /\ cachedState.enabled # s.enabled /\ live)
    BY <2>1, <2>3, <1>5 DEF MutedAfter
  <2> QED BY <2>2, <2>3
<1>7. /\ level' \in [Devices -> Levels]
      /\ target = "volume" /\ live =>
            level'[control] = IF s.value # cachedState.value /\ s.value # NaN
                              THEN s.value ELSE level[control]
  <2>1. level' = IF target = "volume" /\ ValuesDiffer(cachedState.value, s.value)
                 THEN LevelAfter(s.value) ELSE level
    BY <1>1 DEF SetState
  <2>2. CASE target = "volume" /\ live /\ s.value # cachedState.value /\ s.value # NaN
    <3>1. level' = [level EXCEPT ![control] = s.value] /\ s.value \in Levels
      BY <2>1, <2>2, <1>2 DEF LevelAfter, ValuesDiffer
    <3> QED BY <2>2, <3>1, <1>5
  <2>3. CASE ~(target = "volume" /\ live /\ s.value # cachedState.value /\ s.value # NaN)
    <3>1. level' = level
      <4>1. CASE ValuesDiffer(cachedState.value, s.value) /\ target = "volume" /\ live /\ s.value # NaN
        <5>1. s.value = cachedState.value
          BY <2>3, <4>1
        <5> QED BY <4>1, <5>1 DEF ValuesDiffer
      <4>2. CASE ~(ValuesDiffer(cachedState.value, s.value) /\ target = "volume" /\ live /\ s.value # NaN)
        BY <4>2, <2>1 DEF LevelAfter
      <4> QED BY <4>1, <4>2
    <3> QED BY <3>1, <2>3, <1>5
  <2> QED BY <2>2, <2>3
<1>8. ASSUME target = "brightness", ready
      PROVE  cachedValue' = s.value /\ \A m \in list : told'[m] \in {Never, cachedValue'}
  <2>1. CASE ValuesDiffer(cachedState.value, s.value)
    <3>1. cachedValue' = s.value /\ told' = ToldAll(s.value)
      BY <1>1, <1>8, <2>1 DEF SetState
    <3> QED BY <3>1 DEF ToldAll, IInv, CopyInv
  <2>2. CASE ~ValuesDiffer(cachedState.value, s.value)
    <3>1. UNCHANGED <<cachedValue, told>> /\ s.value = cachedState.value
      BY <1>1, <2>2 DEF SetState, ValuesDiffer
    <3> QED BY <3>1, <1>8 DEF IInv, BrightnessAgrees
  <2> QED BY <2>1, <2>2
<1> QED BY <1>1, <1>4, <1>6, <1>7, <1>8

(* The knob keeps the invariant. *)
LEMMA UseKnobInv ==
    ASSUME IInv, NEW s, KnobState(s), UseKnob(s)
    PROVE  IInv'
<1>1. CASE Initialized
  <2>1. /\ cachedState' = s
        /\ \/ icon' = s /\ window' = s
           \/ s = cachedState /\ UNCHANGED <<icon, window, notified>>
        /\ level' \in [Devices -> Levels] /\ muted' \in [Devices -> BOOLEAN]
        /\ target = "volume" /\ live =>
              /\ muted'[control] = IF s.enabled # cachedState.enabled THEN ~s.enabled ELSE muted[control]
              /\ level'[control] = IF s.value # cachedState.value /\ s.value # NaN
                                   THEN s.value ELSE level[control]
        /\ target = "brightness" /\ ready =>
              /\ cachedValue' = s.value
              /\ \A m \in list : told'[m] \in {Never, cachedValue'}
        /\ UNCHANGED <<present, default, control, live, subscribed, events, target, list, ready, synced>>
    BY <1>1, UseKnobFacts
  <2>2. AudioInv'
    BY <2>1 DEF IInv, AudioInv, VolumeTypeOK, Awaited, Elements
  <2>3. ASSUME target = "volume", live, synced, ~Awaited("volume") PROVE CopyMatchesDevice'
    <3>1. CopyMatchesDevice /\ cachedState.value = level[control] /\ control \in Devices /\ NaN \notin Levels
      BY <2>3, LevelsAssumption
      DEF IInv, CopyInv, CopyMatchesDevice, Volume, AudioInv, VolumeTypeOK, Levels
    <3>2. s.value \in Levels /\ s.enabled \in BOOLEAN
      BY <2>3, <3>1 DEF IInv, AudioInv, VolumeTypeOK, KnobState
    <3>3. level'[control] = s.value
      BY <2>1, <2>3, <3>1, <3>2
    <3>4. Volume' = s.value /\ (IsMuted' <=> muted'[control])
      BY <2>1, <2>3, <3>3 DEF Volume, IsMuted
    <3>5. s.enabled => ~muted'[control]
      BY <2>1, <2>3, <3>1, <3>2 DEF CopyMatchesDevice, IsMuted, IInv, CopyInv
    <3>6. s.value # 0 => (s.enabled <=> ~muted'[control])
      <4>1. CASE s.enabled # cachedState.enabled
        BY <4>1, <2>1, <2>3, <3>2
      <4>2. CASE s.enabled = cachedState.enabled
        BY <4>2, <3>5 DEF KnobState
      <4> QED BY <4>1, <4>2
    <3>7. muted'[control] \in BOOLEAN
      BY <2>1, <3>1
    <3> QED BY <3>2, <3>4, <3>5, <3>6, <3>7, <2>1, <2>3 DEF CopyMatchesDevice, IsMuted
  <2>4. CopyInv'
    <3>1. (target = "volume" /\ live /\ synced /\ ~Awaited("volume") => CopyMatchesDevice)'
      BY <2>1, <2>3 DEF Awaited, Elements
    <3> QED BY <3>1, <2>1 DEF IInv, CopyInv, KnobState
  <2>5. ShownIsCurrent'
    BY <1>1, <2>1 DEF IInv, ShownIsCurrent, Initialized
  <2>6. BrightnessAgrees'
    BY <2>1 DEF BrightnessAgrees
  <2> QED BY <2>2, <2>4, <2>5, <2>6 DEF IInv
<1>2. CASE ~Initialized
  <2>1. UNCHANGED <<volumeVars, target, list, ready, told, cachedValue, cachedState, icon, window, notified, synced>>
    BY <1>2 DEF UseKnob, volumeVars, audioVars
  <2> QED
    BY <2>1
    DEF volumeVars, audioVars, controlVars, IInv, AudioInv, CopyInv, VolumeTypeOK, Awaited, Elements,
        CopyMatchesDevice, Volume, IsMuted, ShownIsCurrent, Initialized, BrightnessAgrees
<1> QED BY <1>1, <1>2

(* changedExternally() keeps the invariant: the copy is read anew. *)
LEMMA VolumeChangedInv == ASSUME IInv, VolumeChanged PROVE IInv'
<1>1. /\ target = "volume" /\ events # <<>> /\ Head(events) = "volume" /\ events' = Tail(events)
      /\ cachedState' = State(IsAudible, Volume)
      /\ icon' = cachedState' /\ window' = cachedState'
      /\ UNCHANGED <<present, default, level, muted, control, live, subscribed, target, list, ready>>
  BY DEF VolumeChanged, StateRead, BackendState, EmitChanged, audioVars, controlVars, brightnessVars
<1>2. events \in Seq({"volume", "device"}) /\ Len(events) <= MaxEvents /\ MaxEvents \in Nat
  BY LevelsAssumption DEF IInv, AudioInv, VolumeTypeOK
<1>3. /\ events' \in Seq({"volume", "device"}) /\ Len(events') <= MaxEvents
      /\ Elements(events) = {"volume"} \cup Elements(events')
  BY <1>1, <1>2, ElementsOfTail
<1>4. AudioInv'
  <2>1. Awaited("device")' <=> Awaited("device")
    BY <1>3 DEF Awaited
  <2> QED BY <2>1, <1>1, <1>3 DEF IInv, AudioInv, VolumeTypeOK
<1>5. CopyInv'
  <2>1. IsAudible \in BOOLEAN /\ Volume \in Values
    BY DEF IsAudible, Volume, IInv, AudioInv, VolumeTypeOK, Values
  <2>2. cachedState'.enabled = IsAudible /\ cachedState'.value = Volume
    BY <1>1 DEF State
  <2>3. Volume' = Volume /\ IsMuted' = IsMuted
    BY <1>1 DEF Volume, IsMuted
  <2>4. IsMuted \in BOOLEAN
    BY DEF IsMuted, IInv, AudioInv, VolumeTypeOK
  <2>5. CopyMatchesDevice'
    BY <2>2, <2>3, <2>4 DEF CopyMatchesDevice, IsAudible
  <2> QED BY <2>1, <2>2, <2>5, <1>1 DEF IInv, CopyInv
<1>6. ShownIsCurrent' /\ BrightnessAgrees'
  BY <1>1 DEF ShownIsCurrent, Initialized, BrightnessAgrees
<1> QED BY <1>4, <1>5, <1>6 DEF IInv

(* defaultDeviceChanged() keeps the invariant. *)
LEMMA DeviceChangedInv == ASSUME IInv, DeviceChanged PROVE IInv'
<1>1. /\ events # <<>> /\ Head(events) = "device" /\ events' = Tail(events)
      /\ Reinitialize
      /\ synced' = (synced /\ live /\ control' = control)
      /\ UNCHANGED <<present, default, level, muted, target, list, told, ready, cachedValue, cachedState, icon,
                     window, notified>>
  BY DEF DeviceChanged, audioVars, brightnessVars, shownVars
<1>2. events \in Seq({"volume", "device"}) /\ Len(events) <= MaxEvents /\ MaxEvents \in Nat
  BY LevelsAssumption DEF IInv, AudioInv, VolumeTypeOK
<1>3. /\ events' \in Seq({"volume", "device"}) /\ Len(events') <= MaxEvents
      /\ Elements(events) = {"device"} \cup Elements(events')
  BY <1>1, <1>2, ElementsOfTail
<1>4. CASE default = NoDevice
  <2>1. ~live /\ subscribed = {} /\ present = {}
    BY <1>4 DEF IInv, AudioInv
  <2>2. control' = control /\ live' = live /\ subscribed' = {}
    BY <1>1, <1>4, <2>1 DEF Reinitialize, AfterDeinitialize
  <2> QED
    BY <2>1, <2>2, <1>1, <1>3, <1>4
    DEF IInv, AudioInv, VolumeTypeOK, CopyInv, Volume, IsMuted, ShownIsCurrent, Initialized, BrightnessAgrees
<1>5. CASE default # NoDevice
  <2>1. default \in present /\ default \in Devices
    BY <1>5 DEF IInv, AudioInv, VolumeTypeOK
  <2>2. control' = default /\ live' = TRUE /\ subscribed' = {default}
    BY <1>1, <1>5 DEF Reinitialize, AfterDeinitialize, IInv, AudioInv
  <2>3. AudioInv'
    BY <2>1, <2>2, <1>1, <1>3, <1>5 DEF IInv, AudioInv, VolumeTypeOK
  <2>4. CopyInv'
    <3>1. ASSUME target = "volume", synced', ~Awaited("volume")' PROVE CopyMatchesDevice'
      <4>1. synced /\ live /\ control' = control /\ ~Awaited("volume")
        BY <3>1, <1>1, <1>3 DEF Awaited
      <4>2. CopyMatchesDevice
        BY <3>1, <4>1 DEF IInv, CopyInv
      <4> QED BY <4>1, <4>2, <2>2, <1>1 DEF CopyMatchesDevice, Volume, IsMuted
    <3> QED BY <3>1, <1>1 DEF IInv, CopyInv
  <2>5. ShownIsCurrent' /\ BrightnessAgrees'
    BY <1>1 DEF IInv, ShownIsCurrent, Initialized, BrightnessAgrees
  <2> QED BY <2>3, <2>4, <2>5 DEF IInv
<1> QED BY <1>4, <1>5

(* Other programs, and devices that come and go, keep the invariant: what   *)
(* they change is queued as a signal.                                       *)
LEMMA ElsewhereInv == ASSUME IInv, Elsewhere PROVE IInv'
<1>1. target = "volume" /\ UNCHANGED settingVars
  BY DEF Elsewhere
<1>2. UNCHANGED <<target, list, told, ready, cachedValue, cachedState, icon, window, notified, synced>>
  BY <1>1 DEF settingVars, brightnessVars, shownVars, historyVars
<1>3. ShownIsCurrent' /\ BrightnessAgrees'
  BY <1>2 DEF IInv, ShownIsCurrent, Initialized, BrightnessAgrees
<1>4. events \in Seq({"volume", "device"}) /\ Len(events) <= MaxEvents /\ MaxEvents \in Nat
  BY LevelsAssumption DEF IInv, AudioInv, VolumeTypeOK
<1>5. ASSUME NEW d \in Devices, Len(events) < MaxEvents, events' = ChangedElsewhere(d)
      PROVE  /\ events' \in Seq({"volume", "device"}) /\ Len(events') <= MaxEvents
             /\ Awaited("device")' <=> Awaited("device")
             /\ Awaited("volume")' <=> Awaited("volume") \/ d \in subscribed
  <2>1. CASE d \in subscribed
    <3>1. events' = Append(events, "volume")
      BY <1>5, <2>1 DEF ChangedElsewhere
    <3>2. /\ events' \in Seq({"volume", "device"}) /\ Len(events') = Len(events) + 1 /\ Len(events) \in Nat
          /\ Elements(events') = Elements(events) \cup {"volume"}
      BY <3>1, <1>4, ElementsOfAppend
    <3> QED BY <3>2, <2>1, <1>4, <1>5 DEF Awaited
  <2>2. CASE d \notin subscribed
    <3>1. events' = events
      BY <1>5, <2>2 DEF ChangedElsewhere
    <3> QED BY <3>1, <2>2, <1>4 DEF Awaited, Elements
  <2> QED BY <2>1, <2>2
<1>6. ASSUME NEW d \in Devices, \/ \E v \in Levels : ChangeVolume(d, v)
                               \/ ChangeMute(d)
      PROVE  AudioInv' /\ CopyInv'
  <2>1. /\ UNCHANGED <<present, default, control, live, subscribed>>
        /\ level' \in [Devices -> Levels] /\ muted' \in [Devices -> BOOLEAN]
        /\ \A e \in Devices : e # d => level'[e] = level[e] /\ muted'[e] = muted[e]
        /\ Len(events) < MaxEvents /\ events' = ChangedElsewhere(d)
    BY <1>6 DEF ChangeVolume, ChangeMute, controlVars, IInv, AudioInv, VolumeTypeOK
  <2>2. AudioInv'
    BY <2>1, <1>5 DEF IInv, AudioInv, VolumeTypeOK
  <2>3. ASSUME live, synced, ~Awaited("volume")' PROVE CopyMatchesDevice'
    <3>1. d # control /\ ~Awaited("volume") /\ control \in Devices
      BY <2>1, <2>3, <1>5 DEF IInv, AudioInv, VolumeTypeOK
    <3>2. CopyMatchesDevice
      BY <3>1, <2>3, <1>1 DEF IInv, CopyInv
    <3>3. level'[control] = level[control] /\ muted'[control] = muted[control]
      BY <3>1, <2>1
    <3> QED BY <3>2, <3>3, <2>1, <2>3, <1>2 DEF CopyMatchesDevice, Volume, IsMuted
  <2>4. CopyInv'
    BY <2>1, <2>3, <1>2 DEF IInv, CopyInv
  <2> QED BY <2>2, <2>4
<1>7. ASSUME NEW ds \in SUBSET Devices, NEW d \in IF ds = {} THEN {NoDevice} ELSE ds, ChangeDevices(ds, d)
      PROVE  AudioInv' /\ CopyInv'
  <2>1. /\ UNCHANGED <<level, muted, control>> /\ present' = ds /\ default' = d
        /\ live' = (live /\ control \in ds) /\ subscribed' = subscribed \cap ds
        /\ Len(events) < MaxEvents
        /\ events' = Append(events, "device") \/ (d = default /\ events' = events)
    BY <1>7 DEF ChangeDevices
  <2>2. /\ events' \in Seq({"volume", "device"}) /\ Len(events') <= MaxEvents
        /\ Awaited("device")' \/ (d = default /\ ~Awaited("device")) \/ Awaited("device")
        /\ Awaited("device") => Awaited("device")'
        /\ Awaited("volume") => Awaited("volume")'
    <3>1. CASE events' = Append(events, "device")
      <4>1. /\ events' \in Seq({"volume", "device"}) /\ Len(events') = Len(events) + 1 /\ Len(events) \in Nat
            /\ Elements(events') = Elements(events) \cup {"device"}
        BY <3>1, <1>4, ElementsOfAppend
      <4> QED BY <4>1, <2>1, <1>4 DEF Awaited
    <3>2. CASE d = default /\ events' = events
      BY <3>2, <1>4 DEF Awaited, Elements
    <3> QED BY <3>1, <3>2, <2>1
  <2>3. d = NoDevice <=> ds = {}
    BY DevicesAssumption
  <2>4. AudioInv'
    <3>1. VolumeTypeOK'
      BY <2>1, <2>2, <2>3 DEF IInv, AudioInv, VolumeTypeOK
    <3>2. subscribed' = IF live' THEN {control'} ELSE {}
      BY <2>1 DEF IInv, AudioInv
    <3>3. ~Awaited("device")' => (live' <=> default' # NoDevice) /\ (live' => control' = default')
      <4> SUFFICES ASSUME ~Awaited("device")'
                   PROVE  (live' <=> d # NoDevice) /\ (live' => control = d)
        BY <2>1
      <4>1. d = default /\ (live <=> d # NoDevice) /\ (live => control = d)
        BY <2>2 DEF IInv, AudioInv
      <4> QED BY <4>1, <2>1, <2>3
    <3> QED BY <3>1, <3>2, <3>3, <2>1, <2>3 DEF AudioInv
  <2>5. CopyInv'
    <3>1. ASSUME live', synced, ~Awaited("volume")' PROVE CopyMatchesDevice'
      BY <3>1, <2>1, <2>2, <1>1, <1>2 DEF IInv, CopyInv, CopyMatchesDevice, Volume, IsMuted
    <3> QED BY <3>1, <1>2 DEF IInv, CopyInv
  <2> QED BY <2>4, <2>5
<1> QED BY <1>3, <1>6, <1>7 DEF Elsewhere, IInv

(* A new list of monitors keeps the invariant. *)
LEMMA MonitorsChangedInv ==
    ASSUME IInv, NEW ms \in SUBSET Monitors, MonitorsChanged(ms)
    PROVE  IInv'
<1>1. /\ target = "brightness" /\ list' = ms /\ told' = [m \in Monitors |-> Never]
      /\ ready' = (ready \/ ms # {})
      /\ UNCHANGED <<present, default, level, muted, control, live, subscribed, events, target>>
  BY DEF MonitorsChanged, volumeVars, audioVars, controlVars
<1>2. CASE ready' # ready
  <2>1. /\ cachedState' = State(TRUE, cachedValue') /\ icon' = cachedState' /\ window' = cachedState'
        /\ ready' = TRUE
    BY <1>1, <1>2 DEF MonitorsChanged, EmitChanged, IInv, CopyInv
  <2>2. AudioInv'
    BY <1>1 DEF IInv, AudioInv, VolumeTypeOK, Awaited, Elements
  <2>3. CopyInv'
    <3>1. cachedState'.enabled = TRUE /\ cachedState'.value = cachedValue'
      BY <2>1 DEF State
    <3> QED BY <3>1, <2>1, <1>1 DEF IInv, CopyInv
  <2>4. ShownIsCurrent'
    BY <2>1 DEF ShownIsCurrent, Initialized
  <2>5. BrightnessAgrees'
    BY <2>1, <1>1 DEF BrightnessAgrees, State
  <2> QED BY <2>2, <2>3, <2>4, <2>5 DEF IInv
<1>3. CASE ready' = ready
  <2>1. UNCHANGED <<cachedValue, cachedState, icon, window, notified>>
    BY <1>3 DEF MonitorsChanged, NoChange
  <2> QED
    BY <2>1, <1>1, <1>3
    DEF IInv, AudioInv, VolumeTypeOK, Awaited, Elements, CopyInv, ShownIsCurrent, Initialized, BrightnessAgrees
<1> QED BY <1>2, <1>3

(* Every step keeps the invariant. *)
LEMMA StepInv == ASSUME IInv, [Next]_vars PROVE IInv'
<1>1. CASE Increase \/ Decrease \/ Toggle
  <2>1. Step \in Int /\ -Step \in Int
    BY KnobAssumption, LevelsAssumption
  <2>2. KnobState(Turned(Step)) /\ KnobState(Turned(-Step)) /\ KnobState(Toggled)
    BY <2>1, TurnedState, ToggledState
  <2> QED BY <1>1, <2>2, UseKnobInv DEF Increase, Decrease, Toggle
<1>2. CASE RepaintIcon \/ FadeOut \/ Finished \/ UNCHANGED vars
  <2>1. /\ UNCHANGED <<volumeVars, target, list, told, ready, cachedValue, cachedState, window, notified, synced>>
        /\ icon' = (IF Initialized THEN cachedState ELSE Hidden) \/ UNCHANGED icon
    BY <1>2
    DEF RepaintIcon, FadeOut, Finished, vars, settingVars, brightnessVars, shownVars, historyVars
  <2> QED
    BY <2>1
    DEF volumeVars, audioVars, controlVars, IInv, AudioInv, CopyInv, VolumeTypeOK, Awaited, Elements,
        CopyMatchesDevice, Volume, IsMuted, ShownIsCurrent, Initialized, BrightnessAgrees
<1> QED
  BY <1>1, <1>2, VolumeChangedInv, DeviceChangedInv, ElsewhereInv, MonitorsChangedInv DEF Next

(* The invariant holds in every state that Setting can reach. *)
THEOREM Invariant == Spec => []IInv
<1>1. Init => IInv
  BY InitInv
<1>2. IInv /\ [Next]_vars => IInv'
  BY StepInv
<1> QED BY <1>1, <1>2, PTL DEF Spec

(* The icon, and the OSD once it was told, show the Setting's state. *)
THEOREM ShownStateIsCurrent == Spec => []ShownIsCurrent
BY Invariant, PTL DEF IInv

(* The Setting's and the backend's brightness agree, and no listed monitor  *)
(* was left at an older value.                                              *)
THEOREM BrightnessIsOne == Spec => []BrightnessAgrees
BY Invariant, PTL DEF IInv

(* Once every device change was handled the control talks to the default    *)
(* device and is notified by it alone.                                      *)
THEOREM ListensToTheDefault == Spec => []ListensToDefault
<1>1. IInv => ListensToDefault
  BY DEF IInv, AudioInv, Awaited, ListensToDefault
<1> QED BY <1>1, Invariant, PTL

(* When no signal is queued the Setting's copy is the state of the device   *)
(* it was read from.                                                        *)
THEOREM CopyFollowsVolume == Spec => []CacheFollowsVolume
<1>1. IInv => CacheFollowsVolume
  BY NoElements DEF IInv, CopyInv, Awaited, CacheFollowsVolume, Quiet
<1> QED BY <1>1, Invariant, PTL

(* A turn of the knob in a quiet state sets the volume that is heard,       *)
(* clamped, and unmutes it.                                                 *)
LEMMA KnobStep ==
    ASSUME IInv, NEW delta \in Int, UseKnob(Turned(delta)), target = "volume", Quiet, synced
    PROVE  /\ level[control] \in Levels /\ ~muted'[control]
           /\ level'[control] = Clamp(level[control] + delta)
<1> DEFINE s == Turned(delta)
<1>1. KnobState(s)
  BY TurnedState
<1>2. /\ live
      /\ muted'[control] = IF s.enabled # cachedState.enabled THEN ~s.enabled ELSE muted[control]
      /\ level'[control] = IF s.value # cachedState.value /\ s.value # NaN THEN s.value ELSE level[control]
  <2>1. Initialized /\ live
    BY DEF Initialized, Quiet
  <2> HIDE DEF s
  <2> QED BY <1>1, <2>1, UseKnobFacts DEF s
<1>3. CopyMatchesDevice
  BY NoElements DEF IInv, CopyInv, Awaited, Quiet
<1>4. cachedState.value = level[control] /\ level[control] \in Levels /\ NaN \notin Levels
  BY <1>2, <1>3, LevelsAssumption DEF CopyMatchesDevice, Volume, IInv, AudioInv, VolumeTypeOK, Levels
<1>5. s.enabled = TRUE /\ s.value = Moved(level[control], delta)
  BY <1>4 DEF Turned, State
<1>6. Moved(level[control], delta) = Clamp(level[control] + delta) /\ Clamp(level[control] + delta) \in Levels
  <2>1. level[control] + delta \in Int
    BY <1>4, LevelsAssumption DEF Levels
  <2> QED BY <2>1, <1>4, ClampIsLevel DEF Moved
<1>7. cachedState.enabled \in BOOLEAN
  BY DEF IInv, CopyInv
<1>8. ~muted'[control]
  BY <1>2, <1>3, <1>5, <1>7 DEF CopyMatchesDevice, IsMuted
<1>9. level'[control] = Clamp(level[control] + delta)
  BY <1>2, <1>4, <1>5, <1>6
<1> QED BY <1>4, <1>8, <1>9

(* A turn of the knob moves the volume in the knob's direction, or to the   *)
(* end of the scale.                                                        *)
THEOREM KnobMoves == Spec => KnobMovesVolume
<1>1. ASSUME IInv, target = "volume", Quiet, synced, Increase
      PROVE  ~muted'[control] /\ (level'[control] > level[control] \/ level'[control] = Full)
  <2>1. /\ Step \in Int /\ level[control] \in Levels /\ ~muted'[control]
        /\ level'[control] = Clamp(level[control] + Step)
    BY <1>1, KnobStep, KnobAssumption, LevelsAssumption DEF Increase
  <2> QED BY <2>1, KnobAssumption, LevelsAssumption DEF Clamp, Levels
<1>2. ASSUME IInv, target = "volume", Quiet, synced, Decrease
      PROVE  level'[control] < level[control] \/ level'[control] = 0
  <2>1. /\ -Step \in Int /\ level[control] \in Levels
        /\ level'[control] = Clamp(level[control] + (-Step))
    BY <1>2, KnobStep, KnobAssumption, LevelsAssumption DEF Decrease
  <2> QED BY <2>1, KnobAssumption, LevelsAssumption DEF Clamp, Levels
<1> DEFINE Moves ==
      target = "volume" /\ Quiet /\ synced =>
        /\ Increase => /\ ~muted'[control]
                       /\ level'[control] > level[control] \/ level'[control] = Full
        /\ Decrease => level'[control] < level[control] \/ level'[control] = 0
<1>3. IInv /\ [Next]_vars => [Moves]_vars
  BY <1>1, <1>2
<1>4. KnobMovesVolume <=> [][Moves]_vars
  BY DEF KnobMovesVolume
<1> QED BY <1>3, <1>4, Invariant, PTL DEF Spec
=============================================================================
