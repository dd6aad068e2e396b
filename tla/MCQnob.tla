-------------------------------- MODULE MCQnob --------------------------------
(* Runs of Qnob with small configuration files, one for each thing that can   *)
(* go well or wrong while entities are created, loaded and used.             *)
EXTENDS Qnob

S(s) == [t |-> "string", v |-> s]
N(n) == [t |-> "integer", v |-> n]
B(b) == [t |-> "boolean", v |-> b]
L(nodes) == [t |-> "array", v |-> nodes]
Date == [t |-> "local_date", v |-> 0]

Toml(tables) ==
    [exists |-> TRUE, tooLarge |-> FALSE, wellFormed |-> TRUE, freeStanding |-> FALSE,
     tables |-> tables]

Hotkey(trigger, target, action) ==
    [type |-> S("hotkey"), trigger |-> S(trigger), target |-> S(target), action |-> S(action)]
TrayEvent(trigger, source, target, action) ==
    [type |-> S("tray_event"), trigger |-> S(trigger), source |-> S(source),
     target |-> S(target), action |-> S(action)]
NumericSkin == [type |-> S("numeric_skin"), color |-> S("red"), size |-> L(<<N(30), S("20")>>)]
BarSkin == [type |-> S("horizontal_bar_skin"), background |-> S("bar.png"),
            progress |-> S("bar.png"), disabled |-> S("bar.png"), x |-> N(2), y |-> N(2)]
Win10 == [type |-> S("win10"), hide_native_osd |-> B(TRUE)]
Icon(skin, target) == [type |-> S("tray_icon"), skin |-> S(skin), target |-> S(target)]
Osd(skin) == [type |-> S("osd"), skin |-> S(skin), target |-> S("volume")]

MCConfigs == [path \in {"", "./qnob.toml"} |-> Toml(<<>>)] @@ [
    keys |-> Toml([digit |-> Hotkey("0", "app", "debugAction"), pad |-> Hotkey("Num+0", "app", "exit"),
                   letter |-> Hotkey("Num+A", "step", "increase"),
                   step |-> [type |-> S("knob"), step |-> S("5"), target |-> S("volume")]]),
    twins |-> Toml([one |-> Hotkey("F2", "app", "exit"), two |-> Hotkey("F2", "app", "enter"),
                    other |-> Hotkey("F1", "app", "enter")]),
    trap |-> Toml([one |-> Hotkey("F2", "app", "enter"), win |-> Win10,
                   key |-> Hotkey("0", "win", "ensureNativeOsdHidden")]),
    tray |-> Toml([icon |-> Icon("digits", "brightness"), digits |-> NumericSkin,
                   up |-> TrayEvent("MWheelUp", "icon", "app", "debugAction"),
                   down |-> TrayEvent("MWheelUp", "volume_icon", "app", "exit")]),
    nowhere |-> Toml([up |-> TrayEvent("MWheelUp", "app", "app", "exit")]),
    button |-> Toml([up |-> TrayEvent("F2", "volume_icon", "app", "exit")]),
    osds |-> Toml([bar |-> BarSkin, icon |-> Icon("bar", "volume"),
                   osd |-> Osd("bar") @@ [position |-> S("top_right"), offset |-> L(<<N(-10), N(20)>>)]]),
    plain |-> Toml([osd |-> Osd("digits"), digits |-> [type |-> S("numeric_skin"), color |-> S("")]]),
    win |-> Toml([win |-> Win10, key |-> Hotkey("0", "win", "ensureNativeOsdHidden"),
                  quit |-> Hotkey("Num+0", "app", "exit")]),
    half |-> Toml([win |-> Win10 @@ [hide_console |-> L(<<>>)], key |-> Hotkey("0", "app", "exit")]),
    console |-> Toml([win |-> [type |-> S("win10"), hide_console |-> N(1)],
                      beep |-> [type |-> S("sound"), path |-> S("beep.wav"), target |-> S("volume")],
                      say |-> Hotkey("0", "keyboard", "type") @@ [args |-> L(<<S("hello")>>)]]),
    silent |-> Toml([beep |-> [type |-> S("sound"), path |-> S("boop.wav"), target |-> S("volume")]]),
    locked |-> Toml([beep |-> [type |-> S("sound"), path |-> S("locked.wav"), target |-> S("volume")],
                     win |-> Win10, key |-> Hotkey("0", "beep", "play")]),
    named |-> Toml([key |-> Hotkey("0", "app", "objectNameChanged") @@ [args |-> L(<<S("qnob")>>)],
                    other |-> Hotkey("F2", "app", "objectNameChanged") @@ [args |-> L(<<N(5)>>)]]),
    nameless |-> Toml([key |-> Hotkey("0", "app", "objectNameChanged")]),
    strange |-> Toml([key |-> Hotkey("0", "app", "exit"), thing |-> [type |-> S("thing")]]),
    untyped |-> Toml([thing |-> [step |-> N(5)]]),
    taken |-> Toml([app |-> Hotkey("0", "app", "exit")]),
    unnamed |-> Toml(("" :> Win10)),
    dated |-> Toml([thing |-> [since |-> Date]]),
    broken |-> [Toml(<<>>) EXCEPT !.wellFormed = FALSE],
    missing |-> [Toml(<<>>) EXCEPT !.exists = FALSE] ]

Given(name, value) == [name |-> name, value |-> value]
Service(path) == <<Given("config", {path})>>
MCCommandLines ==
    {Service(path) : path \in DOMAIN MCConfigs \ {"", "./qnob.toml"}} \cup
    { <<>>, <<Given("help", {})>>, <<Given("v", {})>>, <<Given("list", {"keys"})>>,
      <<Given("list", {"entities"}), Given("hide-console", {})>>, <<Given("list", {"modes"})>>,
      <<Given("log", {})>>, <<Given("log", {"-"})>>, <<Given("log", {"a.log"}), Given("log", {"no.log"})>> }

MCKeyTexts == [s \in {"0", "F1", "F2"} |-> KeyText({}, s)] @@
    [s \in {"Num+0", "Num+A"} |-> KeyText({"Num"}, IF s = "Num+0" THEN "0" ELSE "A")] @@
    ("MWheelUp" :> KeyText({}, "MWheelUp"))
MCNumbers == ("5" :> 5) @@ ("20" :> 20)
MCImages == ("/qnob/bar.png" :> <<100, 21>>)
MCNativeWindows ==
    [w1 |-> [hasChild |-> TRUE, opens |-> TRUE, isExplorer |-> TRUE],
     w2 |-> [hasChild |-> TRUE, opens |-> TRUE, isExplorer |-> TRUE],
     w3 |-> [hasChild |-> TRUE, opens |-> FALSE, isExplorer |-> FALSE]]
MCScreens == [left |-> <<801, 600>>, right |-> <<640, 480>>]

MCForeignHotKeys == {ConvertToNativeKey(Combination({}, "F1"))}
MCPressedKeys == {Combination(m, k) : m \in {{}, {"Num"}}, k \in {"0"}} \cup {Combination({}, "F2")}
MCTurnedWheels == {Combination({}, "WheelUp"), Combination({"Shift"}, "WheelUp")}
MCMessagesAtStart == {<<>>, <<1, 0, 2>>}
MCConsoleWidths == {0} \cup (38..100)
MCScreenSizes == {<<1024, 768>>}

-----------------------------------------------------------------------------
(* What the pure functions promise, over small inputs. *)

(* A key that "--list keys" prints can be written into the configuration, is  *)
(* read back as itself, and can be registered as a hotkey.                   *)
ASSUME ListedKeysAreTriggers ==
    \A c \in ListedKeys :
        /\ DeserializeKey(SerializeKey(c)) = {c}
        /\ ConvertToNativeKey(c).code # 0

(* Names of mouse keys are read in any case, and the first of two names is    *)
(* the one that is written.                                                 *)
ASSUME MouseKeysAreRead ==
    \A i \in DOMAIN MouseKeys :
        /\ EnumDeserialize(MouseKeys, FALSE, MouseKeys[i][2]) = {MouseKeys[i][1]}
        /\ EnumDeserialize(MouseKeys, FALSE, MouseKeys[i][3]) = {MouseKeys[i][1]}
        /\ EnumDeserialize(MouseKeys, TRUE, MouseKeys[i][3]) = {}
        /\ EnumSerialize(MouseKeys, "WheelUp") = {"MouseWheelUp"}

(* Strings in a pool share no character, and none reaches out of its chunk.   *)
PoolAfter(first, sizes) ==
    FoldLeft(LAMBDA s, n : LET i == InsertString(s.pool, n)
                           IN  [pool |-> i.pool, views |-> Append(s.views, i.view)],
             [pool |-> first, views |-> <<>>], sizes)
ASSUME StringsAreApart ==
    \A capacity \in 1..5, sizes \in [1..3 -> 0..5] :
        LET s == PoolAfter(EmptyPool(capacity), sizes)
        IN  \A i \in 1..3 :
                /\ s.views[i].to - s.views[i].from = CharSize * sizes[i]
                /\ s.views[i].from % CharSize = 0
                /\ s.views[i].to <= s.pool.chunks[s.views[i].chunk]
                /\ \A j \in 1..(i - 1) :
                        s.views[j].chunk = s.views[i].chunk => s.views[j].to <= s.views[i].from

(* wrapText() keeps every text, but for the end of it that it drops when it   *)
(* breaks the text at its very last character.                              *)
SmallTexts ==
    UNION {{[length |-> n, spaces |-> white, feeds |-> feeds] :
                white \in SUBSET (1..(n - 1)), feeds \in SUBSET {2, 4}} : n \in 5..8}
ASSUME TextsAreKept ==
    \A text \in {t \in SmallTexts : t.feeds \subseteq t.spaces}, size \in 1..5 :
        LET lines == WrapText(text, size)
        IN  /\ GoesOn(text, lines) /\ NothingLost(text, lines, size)
            /\ \A l \in Range(lines) : l.to - l.from <= size
=============================================================================
