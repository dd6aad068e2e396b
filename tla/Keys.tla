-------------------------------- MODULE Keys --------------------------------
(***************************************************************************)
(* lib/keys, lib/serialization, lib/serializable_types and the table of      *)
(* virtual key codes of platform/win: how key combinations, alignments and  *)
(* other values are written in the configuration, and how a combination is  *)
(* given to Windows.                                                        *)
(*                                                                         *)
(* The text of a key combination is its modifiers and what follows the last  *)
(* "+"; other texts are strings.                                            *)
(***************************************************************************)
EXTENDS Integers, Sequences, FiniteSets, SequencesExt, Functions

-----------------------------------------------------------------------------
(* EnumSerializer<T>, made of the pairs of X_DEFINE_ENUM_SERIALIZATION_...:   *)
(* here <<value, name, name in lower case>>.                                *)

LowerCase(pairs, string) ==
    LET same == {i \in DOMAIN pairs : pairs[i][2] = string}
    IN  IF same = {} THEN string ELSE pairs[CHOOSE i \in same : TRUE][3]

(* m_stringByEnum: the first name of a value counts. *)
StringByEnum(pairs) ==
    [v \in {pairs[i][1] : i \in DOMAIN pairs} |->
        LET first == CHOOSE i \in DOMAIN pairs :
                        pairs[i][1] = v /\ \A j \in 1..(i - 1) : pairs[j][1] # v
        IN  pairs[first][2]]

(* m_enumByString *)
EnumByString(pairs, caseSensitive) ==
    LET Key(i) == IF caseSensitive THEN pairs[i][2] ELSE pairs[i][3]
    IN  [s \in {Key(i) : i \in DOMAIN pairs} |-> pairs[CHOOSE i \in DOMAIN pairs : Key(i) = s][1]]

(* try_serialize() and try_deserialize(): the empty set stands for failure. *)
EnumSerialize(pairs, value) ==
    {s \in Range(StringByEnum(pairs)) : value \in DOMAIN StringByEnum(pairs)
                                         /\ StringByEnum(pairs)[value] = s}
EnumDeserialize(pairs, caseSensitive, string) ==
    LET key == IF caseSensitive THEN string ELSE LowerCase(pairs, string)
        enums == EnumByString(pairs, caseSensitive)
    IN  IF key \in DOMAIN enums THEN {enums[key]} ELSE {}

Alignments == <<
    <<<<"top", "left">>, "top_left">>, <<<<"top", "center">>, "top">>,
    <<<<"top", "right">>, "top_right">>, <<<<"center", "left">>, "left">>,
    <<<<"center", "center">>, "center">>, <<<<"center", "right">>, "right">>,
    <<<<"bottom", "left">>, "bottom_left">>, <<<<"bottom", "center">>, "bottom">>,
    <<<<"bottom", "right">>, "bottom_right">> >>

-----------------------------------------------------------------------------
(* StringPool: the names above are kept one after the other in chunks.  A     *)
(* pool is its chunks' sizes and the position in the last one; a string of  *)
(* n characters becomes the view [chunk, from, to).                         *)

CharSize == 2
AlignUp(position, alignment) == ((position + alignment - 1) \div alignment) * alignment

EmptyPool(capacity) == [chunks |-> <<capacity>>, position |-> 0]
Allocate(pool, capacity) == [chunks |-> Append(pool.chunks, capacity), position |-> 0]

InsertString(pool, n) ==
    LET size == n * CharSize
        Fits(p) == AlignUp(p.position, CharSize) + size <= Last(p.chunks)
        capacity == Last(pool.chunks)
        larger == IF 2 * capacity > size + CharSize THEN 2 * capacity ELSE size + CharSize
        used == IF Fits(pool) THEN pool ELSE Allocate(pool, larger)
        from == AlignUp(used.position, CharSize)
    IN  [pool |-> [used EXCEPT !.position = from + size],
         view |-> [chunk |-> Len(used.chunks), from |-> from, to |-> from + size]]

-----------------------------------------------------------------------------
(* Key combinations. *)

Modifiers == {"Shift", "Ctrl", "Alt", "Meta", "Num"}
UnknownKey == "unknown"
Combination(mods, key) == [mods |-> mods, key |-> key]

MouseKeys == <<
    <<"Mouse1", "Mouse1", "mouse1">>, <<"Mouse2", "Mouse2", "mouse2">>,
    <<"Mouse3", "Mouse3", "mouse3">>,
    <<"WheelUp", "MouseWheelUp", "mousewheelup">>, <<"WheelUp", "MWheelUp", "mwheelup">>,
    <<"WheelDown", "MouseWheelDown", "mousewheeldown">>, <<"WheelDown", "MWheelDown", "mwheeldown">>,
    <<"WheelLeft", "MouseWheelLeft", "mousewheelleft">>, <<"WheelLeft", "MWheelLeft", "mwheelleft">>,
    <<"WheelRight", "MouseWheelRight", "mousewheelright">>,
    <<"WheelRight", "MWheelRight", "mwheelright">> >>

IsMouseWheel(key) == key \in {"WheelUp", "WheelDown", "WheelLeft", "WheelRight"}

(* The virtual key codes: <<first code, keys from there on>>.  The entries    *)
(* that are 0 or -1 are left out.                                           *)
PlainKeys == <<
    <<3, <<"Cancel">>>>, <<8, <<"Backspace", "Tab">>>>, <<13, <<"Return">>>>,
    <<16, <<"Shift", "Control", "Alt", "Pause", "CapsLock">>>>, <<27, <<"Escape">>>>,
    <<31, <<"Mode_switch", "Space", "PageUp", "PageDown", "End", "Home", "Left", "Up", "Right",
            "Down", "Select", "Printer", "Execute", "Print", "Insert", "Delete", "Help",
            "0", "1", "2", "3", "4", "5", "6", "7", "8", "9">>>>,
    <<65, <<"A", "B", "C", "D", "E", "F", "G", "H", "I", "J", "K", "L", "M", "N", "O", "P",
            "Q", "R", "S", "T", "U", "V", "W", "X", "Y", "Z", "Meta", "Meta", "Menu">>>>,
    <<95, <<"Sleep">>>> >>

FunctionAndMediaKeys == <<
    <<112, <<"F1", "F2", "F3", "F4", "F5", "F6", "F7", "F8", "F9", "F10", "F11", "F12", "F13",
             "F14", "F15", "F16", "F17", "F18", "F19", "F20", "F21", "F22", "F23", "F24">>>>,
    <<145, <<"ScrollLock">>>>, <<147, <<"Massyo", "Touroku">>>>,
    <<160, <<"Shift", "Shift", "Control", "Control", "Alt", "Alt", "Back", "Forward", "Refresh",
             "Stop", "Search", "Favorites", "HomePage", "VolumeMute", "VolumeDown", "VolumeUp",
             "MediaNext", "MediaPrevious", "MediaStop", "MediaPlay", "LaunchMail", "LaunchMedia",
             "Launch0", "Launch1">>>>,
    <<186, <<"Semicolon", "Equal", "Comma", "Minus", "Period", "Slash", "QuoteLeft">>>>,
    <<219, <<"BracketLeft", "Backslash", "BracketRight", "Apostrophe">>>>,
    <<250, <<"Play", "Zoom">>>> >>

KeypadKeys == <<
    <<12, <<"Clear">>>>,
    <<96, <<"0", "1", "2", "3", "4", "5", "6", "7", "8", "9", "Asterisk", "Plus">>>>,
    <<109, <<"Minus", "Period", "Slash">>>>, <<144, <<"NumLock">>>> >>

KeysOf(runs, mods) ==
    UNION {{[code |-> runs[r][1] + k - 1, combination |-> Combination(mods, runs[r][2][k])] :
                k \in DOMAIN runs[r][2]} : r \in DOMAIN runs}
KeyMapping ==
    KeysOf(PlainKeys, {}) \cup KeysOf(FunctionAndMediaKeys, {}) \cup KeysOf(KeypadKeys, {"Num"})

(* WinShortcutManager::WinShortcutManager(): m_winKeyByQtKey, m_bindableKeys. *)
BindableKeys ==
    {m.combination : m \in {m \in KeyMapping :
        m.combination.key \notin {"Meta", "Shift", "Alt", "Control"}}}
WinKeyByQtKey ==
    [c \in BindableKeys |-> (CHOOSE m \in KeyMapping : m.combination = c).code]

(* convertToNativeKey(): the modifiers and the virtual key, 0 for none. *)
ConvertToNativeKey(c) ==
    LET key == Combination(c.mods \cap {"Num"}, c.key)
    IN  [mods |-> c.mods \ {"Num"}, code |-> IF key \in BindableKeys THEN WinKeyByQtKey[key] ELSE 0]

(* "--list keys" leaves out the keys that QKeySequence cannot write. *)
IgnoredKeys == {"Cancel", "Mode_switch", "Select", "Printer", "Execute", "Sleep", "Massyo",
                "Touroku", "Stop", "Play"}
ListedKeys == {c \in BindableKeys : ~(c.mods = {} /\ c.key \in IgnoredKeys)}

(* QKeySequence reads and writes the keys that have a name in it. *)
SequenceKeys == {c.key : c \in ListedKeys}

(* A text is either empty or the modifiers and the name of a key. *)
EmptyText == [mods |-> {}, name |-> ""]
KeyText(mods, name) == [mods |-> mods, name |-> name]

(* A mouse key is written with the help of X, which is then cut off. *)
SerializeKey(c) ==
    IF c.key = UnknownKey THEN EmptyText
    ELSE LET mouse == EnumSerialize(MouseKeys, c.key)
         IN  KeyText(c.mods, IF mouse # {} THEN CHOOSE s \in mouse : TRUE ELSE c.key)

(* The empty set stands for an exception. *)
DeserializeKey(text) ==
    IF text = EmptyText THEN {Combination({}, UnknownKey)}
    ELSE LET mouse == EnumDeserialize(MouseKeys, FALSE, text.name)
         IN  IF mouse # {} THEN {Combination(text.mods, key) : key \in mouse}
             ELSE {Combination(text.mods, key) : key \in {text.name} \cap SequenceKeys}
=============================================================================
