---------------------------- MODULE EntityConfig ----------------------------
(***************************************************************************)
(* The configuration: what a TOML file becomes (qnob/qnob_config), how       *)
(* EntityConfig and the parsers of core/entity read a parameter, and the    *)
(* parameters and methods that the entities of core/ have.                  *)
(*                                                                         *)
(* A value is [t, v], its type and what it holds; a floating point number is  *)
(* the integer it rounds to.  What may throw returns a set: the empty set   *)
(* stands for the exception, {x} for the result x.                          *)
(***************************************************************************)
EXTENDS Keys, TLC

CONSTANTS
    KeyTexts,       \* what is a key combination, and the modifiers and the name it is made of
    Numbers,        \* what is the text of an integer, and the integer
    Colors,         \* the names of colours
    Files,          \* the paths of the existing files
    ReadableFiles,  \* those of the files that can be opened
    Images,         \* the images among them, and their sizes
    AbsolutePaths,  \* the paths that are absolute
    BasePath        \* the directory of the configuration file

ASSUME EnvironmentAssumption ==
    /\ DOMAIN Images \subseteq ReadableFiles /\ ReadableFiles \subseteq Files
    /\ "" \notin DOMAIN Numbers

Value(t, v) == [t |-> t, v |-> v]
Succeeds(results) == results # {}
Result(results) == CHOOSE r \in results : TRUE

-----------------------------------------------------------------------------
(* convertTomlNode() and convertTomlTable().  Arrays and tables are nested    *)
(* at most once here; only dates and times cannot be converted.             *)

VariantType == [string |-> "QString", integer |-> "qint64", floating_point |-> "double",
                boolean |-> "bool", array |-> "VariantList", table |-> "VariantMap"]

IsValue(node) ==
    /\ node.t \in DOMAIN VariantType
    /\ node.t \in {"array", "table"} => \A i \in DOMAIN node.v : node.v[i].t \in DOMAIN VariantType

ConvertTomlNode(node) ==
    Value(VariantType[node.t],
          IF node.t \in {"array", "table"}
          THEN [i \in DOMAIN node.v |-> Value(VariantType[node.v[i].t], node.v[i].v)]
          ELSE node.v)

(* loadFromTomlFile(): the file can be opened, is not too large and is TOML,  *)
(* and holds tables of values only.                                         *)
ConfigLoads(file) ==
    /\ file.exists /\ ~file.tooLarge /\ file.wellFormed /\ ~file.freeStanding
    /\ \A id \in DOMAIN file.tables : \A key \in DOMAIN file.tables[id] :
            IsValue(file.tables[id][key])
Records(file) ==
    [id \in DOMAIN file.tables |->
        [key \in DOMAIN file.tables[id] |-> ConvertTomlNode(file.tables[id][key])]]

-----------------------------------------------------------------------------
(* parseConfigValueWithVariantCast(), that is QMetaType::convert(). *)

AsString(w) ==
    CASE w.t = "QString" -> {w.v}
      [] w.t \in {"qint64", "double"} -> {ToString(w.v)}
      [] w.t = "bool" -> {IF w.v THEN "true" ELSE "false"}
      [] OTHER -> {}

AsNumber(w) ==
    CASE w.t \in {"qint64", "double"} -> {w.v}
      [] w.t = "bool" -> {IF w.v THEN 1 ELSE 0}
      [] w.t = "QString" -> IF w.v \in DOMAIN Numbers THEN {Numbers[w.v]} ELSE {}
      [] OTHER -> {}

AsBool(w) ==
    CASE w.t = "bool" -> {w.v}
      [] w.t \in {"qint64", "double"} -> {w.v # 0}
      [] w.t = "QString" -> {w.v \notin {"", "0", "false"}}
      [] OTHER -> {}

AsList(w) == IF w.t = "VariantList" THEN {w.v} ELSE {}

AsIntegers(w) ==
    {[i \in DOMAIN l |-> Result(AsNumber(l[i]))] :
        l \in {l \in AsList(w) : \A i \in DOMAIN l : Succeeds(AsNumber(l[i]))}}

(* A path that is not absolute starts at the directory of the configuration. *)
AsPath(w) ==
    {path \in {IF p \in AbsolutePaths THEN p ELSE BasePath \o "/" \o p : p \in AsString(w)} :
        path \in Files}

Skins == {"numeric_skin", "horizontal_bar_skin"}

(* parseConfigValue() for every type a parameter is required to have.         *)
(* "types" maps the ids of the pool to the types of their entities.         *)
ParseConfigValue(kind, w, types) ==
    CASE kind = "string" -> AsString(w)
      [] kind \in {"double", "integer"} -> AsNumber(w)
      [] kind = "bool" -> AsBool(w)
      [] kind = "list" -> AsList(w)
      [] kind = "path" -> AsPath(w)
      [] kind = "pixmap" -> {Images[path] : path \in AsPath(w) \cap DOMAIN Images}
      [] kind \in {"point", "size"} -> {l \in AsIntegers(w) : Len(l) = 2}
      [] kind = "entity" -> AsString(w) \cap DOMAIN types
      [] kind = "skin" -> {id \in AsString(w) \cap DOMAIN types : types[id] \in Skins}
      [] kind = "setting" -> {id \in AsString(w) \cap DOMAIN types : types[id] = "setting"}
      [] kind = "color" -> AsString(w) \cap (Colors \cup {""})
      [] kind = "alignment" -> UNION {EnumDeserialize(Alignments, TRUE, s) : s \in AsString(w)}
      [] kind = "key" -> UNION {DeserializeKey(KeyTexts[s]) : s \in AsString(w) \cap DOMAIN KeyTexts}

-----------------------------------------------------------------------------
(* require<T>() and requireOr<T>(): the default of a required parameter is    *)
(* the empty set.                                                           *)

Parameter(kind, default) == [kind |-> kind, default |-> default]
Required(kind) == Parameter(kind, {})

NoSize == <<-1, -1>>        \* QSize()

(* The parameters that the loadFromConfig() of each type reads. *)
Parameters == [
    hotkey |-> [trigger |-> Required("key"), target |-> Required("entity"),
                action |-> Required("string"), args |-> Parameter("list", {<<>>})],
    tray_event |-> [trigger |-> Required("key"), target |-> Required("entity"),
                source |-> Required("entity"), action |-> Required("string"),
                args |-> Parameter("list", {<<>>})],
    knob |-> [step |-> Required("double"), target |-> Required("setting")],
    sound |-> [path |-> Required("path"), target |-> Required("setting")],
    numeric_skin |-> [size |-> Parameter("size", {NoSize}), color |-> Required("color"),
                font |-> Parameter("string", {""})],
    horizontal_bar_skin |-> [background |-> Required("pixmap"), progress |-> Required("pixmap"),
                disabled |-> Required("pixmap"), x |-> Required("integer"),
                y |-> Required("integer")],
    osd |-> [position |-> Parameter("alignment", {<<"bottom", "center">>}),
                offset |-> Parameter("point", {<<0, 0>>}), skin |-> Required("skin"),
                target |-> Required("setting")],
    tray_icon |-> [skin |-> Required("skin"), target |-> Required("setting")],
    win10 |-> [hide_native_osd |-> Parameter("bool", {FALSE}),
                hide_console |-> Parameter("bool", {FALSE})] ]

(* DefaultEntityFactoryPool. *)
EntityTypes == DOMAIN Parameters

(* The value of parameter "key" in the table "record" of an entity. *)
Read(record, type, key, types) ==
    LET p == Parameters[type][key]
    IN  IF key \in DOMAIN record THEN ParseConfigValue(p.kind, record[key], types) ELSE p.default

AllRead(record, type, types) ==
    \A key \in DOMAIN Parameters[type] : Succeeds(Read(record, type, key, types))

(* EntityPool::loadEntities(): a factory is needed for the type of an entity. *)
Creatable(record) ==
    /\ "type" \in DOMAIN record
    /\ AsString(record["type"]) \cap EntityTypes # {}
TypeOf(record) == Result(AsString(record["type"]))

-----------------------------------------------------------------------------
(* MetaClosure.  The methods of a class with one overload, and the types of   *)
(* their arguments.  QObject and Entity have signals and slots as well, but   *)
(* destroyed() has two overloads.                                           *)

Inherited == [loaded |-> <<>>, deleteLater |-> <<>>, objectNameChanged |-> <<"string">>]
Methods(type) == Inherited @@
    CASE type = "knob" -> [toggle |-> <<>>, decrease |-> <<>>, increase |-> <<>>]
      [] type = "app" -> [exit |-> <<>>, debugAction |-> <<>>]
      [] type = "keyboard" -> [type |-> <<"string">>]
      [] type = "sound" -> [play |-> <<>>]
      [] type = "win10" -> [ensureNativeOsdHidden |-> <<>>]
      [] type = "setting" -> [activated |-> <<>>, changed |-> <<>>]
      [] type = "tray_event" -> [triggered |-> <<>>]
      [] OTHER -> <<>>

MaxArguments == 9       \* MetaMethodInvoker::CallContext has ten places, one for the result

ClosureIsValid(type, method, args) ==
    /\ method \in DOMAIN Methods(type)
    /\ Len(args) = Len(Methods(type)[method])
    /\ Len(args) <= MaxArguments
    /\ \A i \in DOMAIN args : Succeeds(ParseConfigValue(Methods(type)[method][i], args[i], <<>>))
=============================================================================
