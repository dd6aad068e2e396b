------------------------------ MODULE QnobProofs ------------------------------
(***************************************************************************)
(* What a run of the program promises, for any configuration files,         *)
(* command lines, screens, keys and number of events.                       *)
(*                                                                         *)
(* IInv says what the main thread owns and what the entity pool holds at    *)
(* each pc.  From it follow that nothing is left behind, and that           *)
(* loadEntities() is atomic: Qnob implements EntityLoading.  DInv, on top   *)
(* of it, says what OSDs and icons show, and gives that they fit.  EInv     *)
(* says for whom hot keys are registered and messages are meant, and gives  *)
(* that events reach their target.  LInv says where the messages of the log *)
(* are, and gives that the log has them all.  HelpInv is the last one: help  *)
(* is readable, since wrapText() keeps every text.                          *)
(***************************************************************************)
EXTENDS Qnob, SequenceLemmas

(* Where the main thread is before there is an entity, while it has the     *)
(* entity pool, and when it is without it again.                            *)
Early == {"start", "initialize", "parse", "help", "version", "list", "service", "config", "pool"}
InPool == {"check", "create", "load", "erase", "exec", "close"}
Over == {"caught", "cleanup", "done"}

(* Only accepted arguments lead here. *)
Configured == {"list", "service", "config", "pool", "help", "version"} \cup InPool

(* The arguments decide about the configuration, and entities are loaded    *)
(* only from one that was read.                                             *)
ConfigInv ==
    /\ pc \in Early \cup InPool \cup Over
    /\ line \in CommandLines
    /\ config = IF ParseFails(Options, line) THEN "" ELSE Args(line).configPath
    /\ pc \in Configured => ~ParseFails(Options, line)
    /\ pc \in {"pool", "check", "create", "load", "erase", "exec"} => Exists

(* What the holder of the pool has been told. *)
OutcomeInv ==
    /\ pc \in Early \cup {"check", "create", "load", "erase"} => outcome = "pending"
    /\ pc = "exec" => outcome = "loaded"
    /\ pc = "close" => outcome # "closed"

(* No entity exists, and nothing is registered for one. *)
Nothing ==
    /\ pool = <<>> /\ osds = <<>> /\ shown = <<>> /\ loaded = {} /\ hiding = {}
    /\ hotKeys = {} /\ notifiers = <<>> /\ icons = {} /\ controls = {}

(* Whatever is registered or hidden, it is for an entity of the pool. *)
OwnedInv ==
    /\ DOMAIN osds \subseteq DOMAIN pool /\ DOMAIN shown \subseteq DOMAIN pool
    /\ loaded \subseteq DOMAIN pool /\ hiding \subseteq DOMAIN pool
    /\ icons \subseteq DOMAIN pool /\ controls \subseteq DOMAIN pool
    /\ \A n \in DOMAIN notifiers : notifiers[n] \in DOMAIN pool
    /\ \A h \in hotKeys : h.id \in DOMAIN notifiers

(* Before and after the entity pool nothing is there, and afterwards the    *)
(* native OSD is what it was.                                               *)
CleanInv ==
    /\ pc \in Early => Nothing /\ minimized = {}
    /\ pc \in Over => Nothing /\ NativeOsdControl \cap minimized = {}

(* Without an entity that hides the native OSD nobody has minimized it. *)
HidingInv ==
    hiding = {} =>
        /\ pc \in InPool \ {"close"} => minimized = {}
        /\ pc = "close" => NativeOsdControl \cap minimized = {}

(* The configurations the loop has dealt with when it comes to the i-th. *)
Before(i) == {order[j] : j \in 1..i - 1}

(* The order is one of the orders of a hash table. *)
OrderInv == pc \in {"create", "load"} => order \in SetToSeqs(Ids) /\ index \in 1..Len(order)

(* The pool has the entities as the configuration describes them. *)
AreTypes(types) == types = [id \in DOMAIN types |-> Types[id]]

(* What is in the pool, and what is loaded, at each step of loadEntities()  *)
(* and after it.                                                            *)
PoolInv ==
    /\ pc \in {"check", "create"} =>
        loaded = {} /\ hiding = {} /\ notifiers = <<>> /\ hotKeys = {}
    /\ pc = "check" => pool = Builtins
    /\ pc \in {"create", "load", "exec"} =>
        /\ "" \notin Ids /\ Ids \cap DOMAIN Builtins = {}
        /\ AreTypes(pool)
    /\ pc = "create" =>
        /\ DOMAIN pool = DOMAIN Builtins \cup Before(index)
        /\ \A id \in Before(index) : Creatable(Record(id))
    /\ pc \in {"load", "exec"} =>
        /\ DOMAIN pool = DOMAIN Builtins \cup Ids
        /\ \A id \in Ids : Creatable(Record(id))
        /\ \A id \in loaded : id \in Ids /\ ~IsRefused(Types, id)
    /\ pc = "load" => loaded = Before(index)
    /\ pc = "exec" => loaded = Ids
    /\ pc = "erase" => DOMAIN pool \ Ids = DOMAIN Builtins /\ MayFail

(* A loaded hotkey, all of which was read, holds this combination. *)
IsHeld(native) ==
    \E other \in loaded :
        Types[other] = "hotkey" /\ Native(other) = native /\ ~ClosureFails(Types, other)

(* Whoever is registered is a loaded hotkey, and the combination of a       *)
(* hotkey that cannot be loaded beside another is held by that other.       *)
HotKeyInv ==
    pc \in {"load", "exec"} =>
        /\ \A n \in DOMAIN notifiers : notifiers[n] \in loaded /\ Types[notifiers[n]] = "hotkey"
        /\ \A h \in hotKeys : IsHeld(h.native)
        /\ \A id \in loaded : Types[id] = "hotkey" /\ IsTrap(id) => IsHeld(Native(id))

(* The inductive invariant. *)
IInv == ConfigInv /\ OutcomeInv /\ OwnedInv /\ CleanInv /\ HidingInv /\ OrderInv /\ PoolInv
    /\ HotKeyInv

(* The configuration decides about the ids and the types. *)
LEMMA SameFile ==
  ASSUME config' = config
  PROVE  /\ Ids' = Ids /\ Types' = Types
         /\ Exists' <=> Exists
         /\ MayLoad' <=> MayLoad
         /\ MayFail' <=> MayFail
         /\ \A id : Record(id)' = Record(id)
         /\ \A types, id : ClosureFails(types, id)' <=> ClosureFails(types, id)
         /\ \A types, id : IsRefused(types, id)' <=> IsRefused(types, id)
         /\ \A types, id, key : ValueIn(types, id, key)' = ValueIn(types, id, key)
         /\ \A id : Native(id)' = Native(id)
         /\ \A id : IsTrap(id)' <=> IsTrap(id)
<1>1. File' = File
  BY DEF File
<1>2. /\ Ids' = Ids
      /\ \A id : Record(id)' = Record(id)
      /\ Exists' <=> Exists
  BY <1>1 DEF Ids, Record, Exists
<1>3. \A types, id, key : ValueIn(types, id, key)' = ValueIn(types, id, key)
  BY <1>2 DEF ValueIn
<1>4. \A types, id : ClosureFails(types, id)' <=> ClosureFails(types, id)
  BY <1>3 DEF ClosureFails
<1>5. \A types, id : IsRefused(types, id)' <=> IsRefused(types, id)
  BY <1>2, <1>3, <1>4 DEF IsRefused, CannotOpenSound
<1>6. Types' = Types
  BY <1>2 DEF Types
<1>7. \A id : Native(id)' = Native(id)
  BY <1>3, <1>6 DEF Native
<1>8. \A id : IsTrap(id)' <=> IsTrap(id)
  BY <1>4, <1>6, <1>7 DEF IsTrap
<1>9. Hotkeys' = Hotkeys
  BY <1>2, <1>6 DEF Hotkeys
<1>10. IsAcceptable' <=> IsAcceptable
  BY <1>2, <1>5, <1>6 DEF IsAcceptable
<1>11. MayLoad' <=> MayLoad
  BY <1>4, <1>6, <1>7, <1>8, <1>9, <1>10 DEF MayLoad
<1>12. MayFail' <=> MayFail
  BY <1>8, <1>9, <1>10 DEF MayFail
<1> QED
  BY <1>2, <1>3, <1>4, <1>5, <1>6, <1>7, <1>8, <1>11, <1>12

(* Which window is the native OSD depends on the windows only. *)
LEMMA SameControl ==
  ASSUME windows' = windows PROVE NativeOsdControl' = NativeOsdControl
BY DEF NativeOsdControl, Candidates

(* Steps that leave the entities alone. *)
LEMMA SameWorld ==
  ASSUME UNCHANGED <<config, worldVars>>
  PROVE  /\ UNCHANGED <<pool, loaded, osds, shown, hiding, notifiers, hotKeys, icons, controls,
                minimized>>
         /\ NativeOsdControl' = NativeOsdControl
         /\ OwnedInv => OwnedInv'
         /\ Nothing => Nothing'
<1>1. /\ UNCHANGED <<pool, loaded, osds, shown, hiding, notifiers, hotKeys, icons, controls,
             minimized>>
      /\ windows' = windows
  BY DEF worldVars, entityVars, desktopVars, hotKeyVars, trayVars, windowVars
<1> QED
  BY <1>1, SameControl DEF OwnedInv, Nothing

(* Steps of main() before there is an entity pool, and after it. *)
LEMMA OutsideInv ==
  ASSUME IInv, UNCHANGED <<config, line, worldVars>>,
         \/ /\ pc \in Early /\ pc' \in Early \cup {"caught", "cleanup"} /\ outcome' = outcome
            /\ pc' \in Configured => ~ParseFails(Options, line)
            /\ pc' = "pool" => Exists
         \/ pc \in Over /\ pc' \in Over
  PROVE  IInv'
<1>1. /\ Ids' = Ids /\ Types' = Types /\ (Exists' <=> Exists)
  BY SameFile
<1>2. ConfigInv'
  BY <1>1 DEF IInv, ConfigInv, Early, InPool, Over, Configured
<1>3. OutcomeInv'
  BY DEF IInv, OutcomeInv, Early, Over
<1>4. OwnedInv' /\ CleanInv' /\ HidingInv'
  BY SameWorld DEF IInv, CleanInv, HidingInv, Early, Over, InPool
<1>5. OrderInv' /\ PoolInv' /\ HotKeyInv'
  BY DEF OrderInv, PoolInv, HotKeyInv, Early, Over
<1> QED
  BY <1>2, <1>3, <1>4, <1>5 DEF IInv

(* The actions that are such steps. *)
LEMMA OutsideSteps ==
  ASSUME IInv, \/ InstallBufferLogger \/ InitializePlatform \/ RefuseArguments
               \/ RunHelp \/ RunVersion \/ ListKeys \/ OpenLog \/ LoadConfig \/ Catch \/ CleanUp
  PROVE  IInv'
<1> USE DEF GoTo, Throw, mainVars, Early, Over, Configured, InPool
<1>1. CASE InstallBufferLogger
  BY <1>1, OutsideInv DEF InstallBufferLogger
<1>2. CASE InitializePlatform
  BY <1>2, OutsideInv DEF InitializePlatform
<1>3. CASE RefuseArguments
  BY <1>3, OutsideInv DEF RefuseArguments
<1>4. CASE RunHelp
  BY <1>4, OutsideInv DEF RunHelp
<1>5. CASE RunVersion
  BY <1>5, OutsideInv DEF RunVersion
<1>6. CASE ListKeys
  BY <1>6, OutsideInv DEF ListKeys
<1>7. CASE OpenLog
  BY <1>7, OutsideInv DEF OpenLog, IInv, ConfigInv
<1>8. CASE LoadConfig
  BY <1>8, OutsideInv DEF LoadConfig, IInv, ConfigInv, Exists
<1>9. CASE Catch
  BY <1>9, OutsideInv DEF Catch
<1>10. CASE CleanUp
  BY <1>10, OutsideInv DEF CleanUp
<1> QED
  BY <1>1, <1>2, <1>3, <1>4, <1>5, <1>6, <1>7, <1>8, <1>9, <1>10

(* The arguments are accepted and name a mode. *)
LEMMA ParseArgumentsInv ==
  ASSUME IInv, ParseArguments PROVE IInv'
<1>1. /\ pc = "parse" /\ ~ParseFails(Options, line) /\ pc' = Mode(line)
      /\ UNCHANGED <<config, line, outcome, pool, loaded, osds, shown, hiding, notifiers, hotKeys,
                     icons, controls, minimized, windows>>
  BY DEF ParseArguments, GoTo, mainVars, entityVars, hotKeyVars, trayVars
<1>2. pc' \in {"help", "version", "list", "service"}
  BY <1>1 DEF Mode
<1>3. ConfigInv'
  BY <1>1, <1>2 DEF IInv, ConfigInv, Early, InPool, Over, Configured
<1>4. OutcomeInv' /\ OwnedInv' /\ CleanInv' /\ HidingInv'
  BY <1>1, <1>2 DEF IInv, OutcomeInv, OwnedInv, CleanInv, HidingInv, Nothing, Early, Over, InPool
<1>5. OrderInv' /\ PoolInv' /\ HotKeyInv'
  BY <1>2 DEF OrderInv, PoolInv, HotKeyInv
<1> QED
  BY <1>3, <1>4, <1>5 DEF IInv

(* The built-in entities need nothing and take nothing. *)
LEMMA CreateBuiltinsInv ==
  ASSUME IInv, pc \in Early, CreateBuiltins
  PROVE  /\ OwnedInv'
         /\ pool' = Builtins /\ loaded' = {} /\ hiding' = {} /\ notifiers' = <<>> /\ hotKeys' = {}
         /\ minimized' = {} /\ windows' = windows
<1>1. Nothing /\ minimized = {}
  BY DEF IInv, CleanInv
<1>2. /\ pool' = Builtins /\ controls' = controls \cup {"volume_icon"}
      /\ UNCHANGED <<loaded, osds, shown, hiding, hotKeys, notifiers, icons, windows, minimized>>
  BY DEF CreateBuiltins, hotKeyVars, windowVars
<1>3. "volume_icon" \in DOMAIN Builtins
  BY DEF Builtins
<1>4. OwnedInv'
  BY <1>1, <1>2, <1>3 DEF OwnedInv, Nothing
<1> QED
  BY <1>1, <1>2, <1>4 DEF Nothing

(* The pool is made in the service and for a list of the entities. *)
LEMMA MakePoolInv ==
  ASSUME IInv, MakePool \/ ListEntities PROVE IInv'
<1>1. /\ (pc = "pool" /\ pc' = "check") \/ (pc = "list" /\ pc' = "close")
      /\ UNCHANGED <<config, line, outcome>> /\ CreateBuiltins
  <2>1. CASE MakePool
    BY <2>1 DEF MakePool, GoTo, mainVars
  <2>2. CASE ListEntities
    BY <2>2 DEF ListEntities, GoTo
  <2> QED
    BY <2>1, <2>2
<1>2. /\ OwnedInv'
      /\ pool' = Builtins /\ loaded' = {} /\ hiding' = {} /\ notifiers' = <<>> /\ hotKeys' = {}
      /\ minimized' = {} /\ windows' = windows
  BY <1>1, CreateBuiltinsInv DEF Early
<1>3. ConfigInv'
  BY <1>1, SameFile DEF IInv, ConfigInv, Early, InPool, Over, Configured
<1>4. OutcomeInv' /\ CleanInv' /\ HidingInv'
  BY <1>1, <1>2 DEF IInv, OutcomeInv, CleanInv, HidingInv, Early, Over, InPool
<1>5. OrderInv' /\ PoolInv' /\ HotKeyInv'
  BY <1>1, <1>2 DEF OrderInv, PoolInv, HotKeyInv
<1> QED
  BY <1>2, <1>3, <1>4, <1>5 DEF IInv


(* What an enumeration of a finite set is. *)
LEMMA OrderType ==
  ASSUME NEW S, IsFiniteSet(S), NEW q \in SetToSeqs(S)
  PROVE  /\ q \in Seq(S) /\ Len(q) = Cardinality(S) /\ Len(q) \in Nat /\ DOMAIN q = 1..Len(q)
         /\ \A x \in S : \E i \in 1..Len(q) : q[i] = x
         /\ S # {} => Len(q) > 0
<1> DEFINE D == 1..Cardinality(S)
<1>1. Cardinality(S) \in Nat /\ (S # {} => Cardinality(S) # 0)
  BY FS_CardinalityType, FS_EmptySet
<1>2. q \in [D -> S] /\ \A i, j \in D : i # j => q[i] # q[j]
  BY DEF SetToSeqs
<1>3. q \in Seq(S) /\ Len(q) = Cardinality(S) /\ DOMAIN q = D
  BY <1>1, <1>2
<1>4. q \in Injection(D, S)
  BY <1>2 DEF Injection, IsInjective
<1>5. IsFiniteSet(D) /\ Cardinality(D) = Cardinality(S)
  BY <1>1, FS_Interval
<1>6. q \in Surjection(D, S)
  BY <1>4, <1>5, FS_Injection
<1>7. \A x \in S : \E i \in D : q[i] = x
  BY <1>6 DEF Surjection
<1> QED
  BY <1>1, <1>3, <1>7

(* A configuration that was loaded has finitely many entities. *)
LEMMA FiniteIds ==
  ASSUME ConfigInv, pc \in InPool PROVE IsFiniteSet(Ids)
<1>1. config \in DOMAIN Configs
  BY CommandLinesAssumption DEF ConfigInv, Configured
<1> QED
  BY <1>1, ConfigsAssumption DEF Ids, File

(* The types of the configured and of the built-in entities. *)
LEMMA TypesOf ==
  /\ DOMAIN Types = Ids \cup DOMAIN Builtins
  /\ \A id \in Ids : Types[id] = TypeOf(Record(id))
  /\ \A id \in DOMAIN Builtins : id \notin Ids => Types[id] = Builtins[id]
BY DEF Types

(* checkIds() lets a configuration through only when its ids are apart from *)
(* the built-in ones.                                                       *)
LEMMA CheckIdsInv ==
  ASSUME IInv, CheckIds PROVE IInv'
<1> USE DEF InPool, Early, Over
<1>1. /\ pc = "check" /\ UNCHANGED <<config, line, worldVars>>
      /\ order' \in SetToSeqs(Ids) /\ index' = 1
      /\ \/ Ids = {} /\ pc' = "exec" /\ outcome' = "loaded"
         \/ Ids # {} /\ IdsAreFree /\ pc' = "create" /\ outcome' = outcome
         \/ pc' = "close" /\ outcome' = "failed"
  BY DEF CheckIds, Return, Refused, GoTo
<1>2. /\ pool = Builtins /\ loaded = {} /\ hiding = {} /\ notifiers = <<>> /\ hotKeys = {}
      /\ minimized = {}
  BY <1>1 DEF IInv, PoolInv, HidingInv
<1>3. /\ UNCHANGED <<pool, loaded, hiding, notifiers, hotKeys, minimized>>
      /\ NativeOsdControl' = NativeOsdControl /\ OwnedInv'
  BY <1>1, SameWorld DEF IInv
<1>4. /\ Ids' = Ids /\ Types' = Types /\ (Exists' <=> Exists)
      /\ \A id : Record(id)' = Record(id)
  BY <1>1, SameFile
<1>5. ConfigInv'
  BY <1>1, <1>4 DEF IInv, ConfigInv, Configured
<1>6. OutcomeInv' /\ CleanInv' /\ HidingInv'
  BY <1>1, <1>2, <1>3 DEF IInv, OutcomeInv, CleanInv, HidingInv
<1>7. Ids # {} => Len(order') \in Nat \ {0}
  BY <1>1, FiniteIds, OrderType DEF IInv
<1>8. OrderInv'
  BY <1>1, <1>4, <1>7 DEF OrderInv
<1>9. ASSUME pc' \in {"exec", "create"}
      PROVE  /\ "" \notin Ids' /\ Ids' \cap DOMAIN Builtins = {}
             /\ AreTypes(pool)'
  <2>1. "" \notin Ids /\ Ids \cap DOMAIN Builtins = {}
    BY <1>1, <1>2, <1>9 DEF IdsAreFree
  <2>2. Builtins = [id \in DOMAIN Builtins |-> Types[id]]
    <3>1. Builtins = [id \in DOMAIN Builtins |-> Builtins[id]]
      BY DEF Builtins
    <3> QED
      BY <2>1, <3>1, TypesOf
  <2> QED
    BY <1>2, <1>3, <1>4, <2>1, <2>2 DEF AreTypes
<1>10. Before(index)' = {}
  BY <1>1 DEF Before
<1>11. PoolInv'
  <2>1. pc' = "create" => DOMAIN pool' = DOMAIN Builtins \cup Before(index)'
    BY <1>2, <1>3, <1>10
  <2>2. pc' = "exec" => DOMAIN pool' = DOMAIN Builtins \cup Ids' /\ Ids' = {}
    BY <1>1, <1>2, <1>3, <1>4
  <2> QED
    BY <1>1, <1>2, <1>3, <1>9, <1>10, <2>1, <2>2 DEF PoolInv
<1>12. HotKeyInv'
  BY <1>1, <1>2, <1>3 DEF HotKeyInv
<1> QED
  BY <1>3, <1>5, <1>6, <1>8, <1>11, <1>12 DEF IInv

(* Where the loops are: one more configuration is dealt with, or it was the *)
(* last.                                                                    *)
LEMMA Progress ==
  ASSUME IInv, pc \in {"create", "load"}
  PROVE  /\ Current \in Ids /\ index \in 1..Len(order) /\ Len(order) \in Nat
         /\ \A i \in Nat : i = index + 1 => Before(i) = Before(index) \cup {Current}
         /\ index = Len(order) => Before(index) \cup {Current} = Ids
         /\ Before(index) \subseteq Ids
<1>1. order \in SetToSeqs(Ids) /\ index \in 1..Len(order)
  BY DEF IInv, OrderInv
<1>2. IsFiniteSet(Ids)
  BY FiniteIds DEF IInv, InPool
<1>3. /\ order \in Seq(Ids) /\ Len(order) \in Nat
      /\ \A x \in Ids : \E i \in 1..Len(order) : order[i] = x
  BY <1>1, <1>2, OrderType
<1>4. \A i \in Nat : i = index + 1 => Before(i) = Before(index) \cup {Current}
  <2>1. 1..(index + 1) - 1 = (1..index - 1) \cup {index}
    BY <1>1, <1>3
  <2> QED
    BY <2>1 DEF Before, Current
<1>5. Current \in Ids /\ Before(index) \subseteq Ids
  BY <1>1, <1>3 DEF Before, Current
<1>6. index = Len(order) => Before(index) \cup {Current} = Ids
  <2> SUFFICES ASSUME index = Len(order) PROVE Ids \subseteq Before(index) \cup {Current}
    BY <1>5
  <2>1. \A i \in 1..Len(order) : i \in 1..index - 1 \/ i = index
    BY <1>1, <1>3
  <2> QED
    BY <1>3, <2>1 DEF Before, Current
<1> QED
  BY <1>1, <1>3, <1>4, <1>5, <1>6

(* While entities are loaded, and after it, the pool is what the            *)
(* configuration says.                                                      *)
LEMMA PoolIsTypes ==
  ASSUME IInv, pc \in {"load", "exec"} PROVE pool = Types
<1>1. AreTypes(pool) /\ DOMAIN pool = DOMAIN Types
  BY TypesOf DEF IInv, PoolInv
<1>2. Types = [id \in DOMAIN Types |-> Types[id]]
  BY DEF Types
<1> QED
  BY <1>1, <1>2 DEF AreTypes

(* One more entity is created, or the loop over them ends. *)
LEMMA CreateNextInv ==
  ASSUME IInv, CreateNext PROVE IInv'
<1> USE DEF InPool, Early, Over
<1>1. /\ pc = "create" /\ Creatable(Record(Current))
      /\ CreateEntity(Current, TypeOf(Record(Current)))
      /\ UNCHANGED <<config, line, order, outcome>>
      /\ \/ index < Len(order) /\ pc' = "create" /\ index' = index + 1
         \/ ~(index < Len(order)) /\ pc' = "load" /\ index' = 1
  BY DEF CreateNext, Continue, GoTo
<1>2. /\ Ids' = Ids /\ Types' = Types /\ (Exists' <=> Exists)
      /\ \A id : Record(id)' = Record(id)
  BY <1>1, SameFile
<1>3. /\ Current \in Ids /\ index \in 1..Len(order) /\ Len(order) \in Nat
      /\ \A i \in Nat : i = index + 1 => Before(i) = Before(index) \cup {Current}
      /\ index = Len(order) => Before(index) \cup {Current} = Ids
  BY <1>1, Progress
<1>4. /\ pool' = With(pool, Current, Types[Current])
      /\ osds' = osds \/ osds' = With(osds, Current, NewOsd)
      /\ icons' = icons \/ icons' = icons \cup {Current}
      /\ shown' = shown \/ shown' = With(shown, Current, 0)
      /\ UNCHANGED <<loaded, hiding, notifiers, hotKeys, controls, minimized, windows>>
  BY <1>1, <1>3, TypesOf DEF CreateEntity, hotKeyVars, windowVars
<1>5. /\ DOMAIN pool' = DOMAIN pool \cup {Current}
      /\ DOMAIN osds' \subseteq DOMAIN osds \cup {Current}
      /\ DOMAIN shown' \subseteq DOMAIN shown \cup {Current}
      /\ icons' \subseteq icons \cup {Current}
  BY <1>4 DEF With
<1>6. ConfigInv'
  BY <1>1, <1>2 DEF IInv, ConfigInv, Configured
<1>7. OutcomeInv' /\ CleanInv' /\ HidingInv'
  BY <1>1, <1>4 DEF IInv, OutcomeInv, CleanInv, HidingInv
<1>8. OwnedInv'
  BY <1>4, <1>5 DEF IInv, OwnedInv
<1>9. OrderInv'
  BY <1>1, <1>2, <1>3 DEF IInv, OrderInv
<1>10. AreTypes(pool)'
  <2>1. AreTypes(pool)
    BY <1>1 DEF IInv, PoolInv
  <2>2. \A id \in DOMAIN pool' : pool'[id] = Types[id]
    BY <1>4, <1>5, <2>1 DEF AreTypes, With
  <2>3. pool' = [id \in DOMAIN pool' |-> pool'[id]]
    BY <1>4 DEF With
  <2> QED
    BY <1>2, <2>2, <2>3 DEF AreTypes
<1>11. /\ DOMAIN pool' = DOMAIN Builtins \cup (Before(index) \cup {Current})
       /\ \A id \in Before(index) \cup {Current} : Creatable(Record(id))
       /\ "" \notin Ids /\ Ids \cap DOMAIN Builtins = {}
       /\ loaded' = {} /\ hiding' = {} /\ notifiers' = <<>> /\ hotKeys' = {}
  BY <1>1, <1>4, <1>5 DEF IInv, PoolInv
<1>12. PoolInv'
  <2>1. CASE pc' = "create"
    <3>1. index' = index + 1 /\ index' \in Nat /\ order' = order
      BY <1>1, <1>3, <2>1
    <3>2. Before(index') = Before(index) \cup {Current}
      BY <1>3, <3>1
    <3>3. Before(index)' = Before(index) \cup {Current}
      BY <3>1, <3>2 DEF Before
    <3> QED
      BY <1>2, <1>10, <1>11, <2>1, <3>3 DEF PoolInv
  <2>2. CASE pc' = "load"
    <3>1. Before(index)' = {} /\ Before(index) \cup {Current} = Ids
      BY <1>1, <1>3, <2>2 DEF Before
    <3> QED
      BY <1>2, <1>10, <1>11, <2>2, <3>1 DEF PoolInv
  <2> QED
    BY <1>1, <2>1, <2>2
<1>13. HotKeyInv'
  <2>1. loaded' = {} /\ hotKeys' = {} /\ notifiers' = <<>>
    BY <1>11
  <2>2. DOMAIN notifiers' = {}
    BY <2>1
  <2> QED
    BY <2>1, <2>2 DEF HotKeyInv
<1> QED
  BY <1>6, <1>7, <1>8, <1>9, <1>12, <1>13 DEF IInv

(* A configuration cannot be created: it may fail. *)
LEMMA CannotCreateInv ==
  ASSUME IInv, CannotCreate PROVE IInv'
<1> USE DEF InPool, Early, Over
<1>1. /\ pc = "create" /\ ~Creatable(Record(Current)) /\ pc' = "erase"
      /\ UNCHANGED <<config, line, outcome, worldVars>>
  BY DEF CannotCreate, Throw, mainVars
<1>2. /\ UNCHANGED <<pool, loaded, osds, shown, hiding, notifiers, hotKeys, icons, controls,
             minimized>>
      /\ OwnedInv'
  BY <1>1, SameWorld DEF IInv
<1>3. /\ Ids' = Ids /\ (Exists' <=> Exists) /\ (MayFail' <=> MayFail)
  BY <1>1, SameFile
<1>4. ConfigInv' /\ OutcomeInv' /\ CleanInv' /\ HidingInv'
  BY <1>1, <1>2, <1>3 DEF IInv, ConfigInv, Configured, OutcomeInv, CleanInv, HidingInv
<1>5. MayFail
  BY <1>1, Progress DEF MayFail, IsAcceptable
<1>6. DOMAIN pool \ Ids = DOMAIN Builtins
  BY <1>1, Progress DEF IInv, PoolInv
<1>7. PoolInv'
  BY <1>1, <1>2, <1>3, <1>5, <1>6 DEF PoolInv
<1>8. OrderInv' /\ HotKeyInv'
  BY <1>1 DEF OrderInv, HotKeyInv
<1> QED
  BY <1>2, <1>4, <1>7, <1>8 DEF IInv

(* Hiding the native OSD: who minimized it is noted as hiding. *)
LEMMA HidingOsd ==
  ASSUME NEW ids, EnsureNativeOsdHidden(ids)
  PROVE  /\ hiding' \subseteq hiding \cup ids
         /\ hiding' = {} => hiding = {} /\ minimized' = minimized
BY DEF EnsureNativeOsdHidden

(* A shortcut notifier is added, and its combination is registered if it is *)
(* free.                                                                    *)
LEMMA NewNotifier ==
  ASSUME NEW id, NEW trigger, CreateShortcutNotifier(id, trigger)
  PROVE  /\ \A n \in DOMAIN notifiers' :
                notifiers'[n] = id \/ (n \in DOMAIN notifiers /\ notifiers'[n] = notifiers[n])
         /\ \A h \in hotKeys' :
                \/ h \in hotKeys
                \/ /\ CanNotify(trigger) /\ h.native = ConvertToNativeKey(trigger)
                   /\ h.id \in DOMAIN notifiers'
         /\ DOMAIN notifiers \subseteq DOMAIN notifiers'
         /\ hotKeys \subseteq hotKeys'
<1>1. CASE CanNotify(trigger)
  BY <1>1 DEF CreateShortcutNotifier, With
<1>2. CASE ~CanNotify(trigger)
  BY <1>2 DEF CreateShortcutNotifier, hotKeyVars
<1> QED
  BY <1>1, <1>2

(* What loading an entity may change. *)
LEMMA LoadEffect ==
  ASSUME NEW id \in DOMAIN pool, LoadEntity(id)
  PROVE  /\ UNCHANGED <<pool, icons, controls, windows>> /\ loaded' = loaded \cup {id}
         /\ DOMAIN osds' = DOMAIN osds /\ DOMAIN shown' = DOMAIN shown
         /\ hiding' \subseteq hiding \cup {id}
         /\ hiding' = {} => hiding = {} /\ minimized' = minimized
         /\ \/ pool[id] = "hotkey" /\ CreateShortcutNotifier(id, P(id, "trigger"))
            \/ pool[id] # "hotkey" /\ UNCHANGED <<notifiers, hotKeys>>
<1>1. UNCHANGED <<pool, icons, controls>> /\ loaded' = loaded \cup {id}
  BY DEF LoadEntity, trayVars
<1>2. CASE pool[id] = "hotkey"
  <2>1. LoadHotkey(id)
    BY <1>2 DEF LoadEntity, Skins
  <2> QED
    BY <1>1, <1>2, <2>1 DEF LoadHotkey, windowVars
<1>3. CASE pool[id] \in Skins
  <2>1. LoadSkin(id) /\ pool[id] # "hotkey"
    BY <1>3 DEF LoadEntity, Skins
  <2> QED
    BY <1>1, <2>1 DEF LoadSkin, ResizeOsds, windowVars, hotKeyVars
<1>4. CASE pool[id] = "osd"
  <2>1. LoadOsd(id)
    BY <1>4 DEF LoadEntity, Skins
  <2> QED
    BY <1>1, <1>4, <2>1 DEF LoadOsd, windowVars, hotKeyVars
<1>5. CASE pool[id] = "tray_icon"
  <2>1. LoadTrayIcon(id)
    BY <1>5 DEF LoadEntity, Skins
  <2> QED
    BY <1>1, <1>5, <2>1 DEF LoadTrayIcon, UpdateIcons, windowVars, hotKeyVars
<1>6. CASE pool[id] = "win10"
  <2>1. LoadWin10(id)
    BY <1>6 DEF LoadEntity, Skins
  <2>2. /\ hiding' \subseteq hiding \cup (IF HidesNativeOsd(id) THEN {id} ELSE {})
        /\ hiding' = {} => hiding = {} /\ minimized' = minimized
    BY <2>1, HidingOsd DEF LoadWin10
  <2> QED
    BY <1>1, <1>6, <2>1, <2>2 DEF LoadWin10, hotKeyVars
<1>7. CASE pool[id] \notin {"hotkey", "osd", "tray_icon", "win10"} \cup Skins
  <2>1. LoadOther(id)
    BY <1>7 DEF LoadEntity, Skins
  <2> QED
    BY <1>1, <1>7, <2>1 DEF LoadOther, windowVars, hotKeyVars
<1> QED
  BY <1>2, <1>3, <1>4, <1>5, <1>6, <1>7

(* One more entity is loaded, or the loop over them ends and all of them    *)
(* are.                                                                     *)
LEMMA LoadNextInv ==
  ASSUME IInv, LoadNext PROVE IInv'
<1> USE DEF InPool, Early, Over
<1>1. /\ pc = "load" /\ ~LoadFails(Current) /\ LoadEntity(Current)
      /\ UNCHANGED <<config, line, order>>
      /\ \/ index < Len(order) /\ pc' = "load" /\ index' = index + 1 /\ outcome' = outcome
         \/ ~(index < Len(order)) /\ pc' = "exec" /\ outcome' = "loaded"
  BY DEF LoadNext, Continue, GoTo, Return
<1>2. /\ Ids' = Ids /\ Types' = Types /\ (Exists' <=> Exists)
      /\ \A id : Record(id)' = Record(id)
      /\ \A types, id : ClosureFails(types, id)' <=> ClosureFails(types, id)
      /\ \A types, id : IsRefused(types, id)' <=> IsRefused(types, id)
      /\ \A id : Native(id)' = Native(id)
      /\ \A id : IsTrap(id)' <=> IsTrap(id)
  BY <1>1, SameFile
<1>3. /\ Current \in Ids /\ index \in 1..Len(order) /\ Len(order) \in Nat
      /\ \A i \in Nat : i = index + 1 => Before(i) = Before(index) \cup {Current}
      /\ index = Len(order) => Before(index) \cup {Current} = Ids
  BY <1>1, Progress
<1>4. pool = Types /\ Current \in DOMAIN pool
  BY <1>1, <1>3, PoolIsTypes, TypesOf
<1>5. /\ UNCHANGED <<pool, icons, controls, windows>> /\ loaded' = loaded \cup {Current}
      /\ DOMAIN osds' = DOMAIN osds /\ DOMAIN shown' = DOMAIN shown
      /\ hiding' \subseteq hiding \cup {Current}
      /\ hiding' = {} => hiding = {} /\ minimized' = minimized
      /\ \/ pool[Current] = "hotkey" /\ CreateShortcutNotifier(Current, P(Current, "trigger"))
         \/ pool[Current] # "hotkey" /\ UNCHANGED <<notifiers, hotKeys>>
  BY <1>1, <1>4, LoadEffect
<1> DEFINE cur == Current
<1>6. /\ \A n \in DOMAIN notifiers' :
            \/ notifiers'[n] = cur /\ Types[cur] = "hotkey"
            \/ n \in DOMAIN notifiers /\ notifiers'[n] = notifiers[n]
      /\ \A h \in hotKeys' :
            \/ h \in hotKeys
            \/ /\ Types[cur] = "hotkey" /\ CanNotify(P(cur, "trigger"))
               /\ h.native = ConvertToNativeKey(P(cur, "trigger")) /\ h.id \in DOMAIN notifiers'
      /\ DOMAIN notifiers \subseteq DOMAIN notifiers'
      /\ hotKeys \subseteq hotKeys'
  BY <1>4, <1>5, NewNotifier
<1> HIDE DEF cur
<1>7. ConfigInv'
  BY <1>1, <1>2 DEF IInv, ConfigInv, Configured
<1>8. OutcomeInv' /\ CleanInv' /\ HidingInv'
  BY <1>1, <1>5 DEF IInv, OutcomeInv, CleanInv, HidingInv
<1>9. OwnedInv'
  BY <1>4, <1>5, <1>6 DEF IInv, OwnedInv, cur
<1>10. OrderInv'
  BY <1>1, <1>2, <1>3 DEF IInv, OrderInv
<1>11. ~IsRefused(Types, cur) /\ (Types[cur] = "hotkey" /\ CanNotify(P(cur, "trigger"))
           => ~ClosureFails(Types, cur))
  BY <1>1, <1>4 DEF LoadFails, cur
<1>12. /\ "" \notin Ids /\ Ids \cap DOMAIN Builtins = {} /\ AreTypes(pool)
       /\ DOMAIN pool = DOMAIN Builtins \cup Ids
       /\ \A id \in Ids : Creatable(Record(id))
       /\ \A id \in loaded' : id \in Ids /\ ~IsRefused(Types, id)
       /\ loaded' = Before(index) \cup {Current}
  BY <1>1, <1>3, <1>5, <1>11 DEF IInv, PoolInv, cur
<1>13. AreTypes(pool)'
  BY <1>2, <1>5, <1>12 DEF AreTypes
<1>14. PoolInv'
  <2>1. CASE pc' = "load"
    <3>1. index' = index + 1 /\ index' \in Nat /\ order' = order
      BY <1>1, <1>3, <2>1
    <3>2. Before(index') = Before(index) \cup {Current}
      BY <1>3, <3>1
    <3>3. Before(index)' = Before(index) \cup {Current}
      BY <3>1, <3>2 DEF Before
    <3> QED
      BY <1>2, <1>5, <1>12, <1>13, <2>1, <3>3 DEF PoolInv
  <2>2. CASE pc' = "exec"
    <3>1. index = Len(order)
      BY <1>1, <1>3, <2>2
    <3>2. loaded' = Ids
      BY <1>3, <1>12, <3>1
    <3> QED
      BY <1>2, <1>5, <1>12, <1>13, <2>2, <3>2 DEF PoolInv
  <2> QED
    BY <1>1, <2>1, <2>2
<1>15. P(cur, "trigger") = ValueIn(Types, cur, "trigger")
  BY <1>4 DEF P
<1>16. Native(cur) = ConvertToNativeKey(P(cur, "trigger"))
  BY <1>15 DEF Native
<1>17. /\ \A n \in DOMAIN notifiers : notifiers[n] \in loaded /\ Types[notifiers[n]] = "hotkey"
       /\ \A h \in hotKeys : IsHeld(h.native)
       /\ \A id \in loaded : Types[id] = "hotkey" /\ IsTrap(id) => IsHeld(Native(id))
  BY <1>1 DEF IInv, HotKeyInv
<1>18. \A native : IsHeld(native) => IsHeld(native)'
  BY <1>2, <1>5 DEF IsHeld
<1>19. \A h \in hotKeys' : IsHeld(h.native)'
  <2>1. ASSUME NEW h \in hotKeys', Types[cur] = "hotkey", CanNotify(P(cur, "trigger")),
               h.native = Native(cur)
        PROVE  IsHeld(h.native)'
    <3>1. cur \in loaded' /\ ~ClosureFails(Types, cur)
      BY <1>5, <1>11, <2>1 DEF cur
    <3> QED
      BY <1>2, <2>1, <3>1 DEF IsHeld
  <2>2. ASSUME NEW h \in hotKeys', h \in hotKeys PROVE IsHeld(h.native)'
    BY <1>17, <1>18, <2>2
  <2> QED
    BY <1>6, <1>16, <2>1, <2>2
<1>20. Types[cur] = "hotkey" /\ IsTrap(cur) => IsHeld(Native(cur))
  <2> SUFFICES ASSUME Types[cur] = "hotkey", IsTrap(cur) PROVE IsHeld(Native(cur))
    OBVIOUS
  <2>1. ~CanNotify(P(cur, "trigger"))
    BY <1>11 DEF IsTrap
  <2>2. \E h \in hotKeys : h.native = Native(cur)
    BY <1>16, <2>1 DEF IsTrap, CanNotify, IsTaken
  <2> QED
    BY <1>17, <2>2
<1>21. HotKeyInv'
  <2>1. \A n \in DOMAIN notifiers' : notifiers'[n] \in loaded' /\ Types[notifiers'[n]] = "hotkey"
    BY <1>5, <1>6, <1>17 DEF cur
  <2>2. \A id \in loaded' : Types[id] = "hotkey" /\ IsTrap(id) => IsHeld(Native(id))'
    BY <1>2, <1>5, <1>17, <1>18, <1>20 DEF cur
  <2> QED
    BY <1>2, <1>19, <2>1, <2>2 DEF HotKeyInv
<1> QED
  BY <1>7, <1>8, <1>9, <1>10, <1>14, <1>21 DEF IInv

(* An entity cannot be loaded: either the configuration cannot, or another  *)
(* hotkey was first.                                                        *)
LEMMA CannotLoadInv ==
  ASSUME IInv, CannotLoad PROVE IInv'
<1> USE DEF InPool, Early, Over
<1> DEFINE ids == IF pool[Current] = "win10" /\ HidesNativeOsd(Current) THEN {Current} ELSE {}
<1>1. /\ pc = "load" /\ LoadFails(Current) /\ pc' = "erase"
      /\ UNCHANGED <<config, line, outcome, pool, loaded, osds, shown, icons, controls>>
      /\ \/ CreateShortcutNotifier(Current, P(Current, "trigger"))
         \/ UNCHANGED <<notifiers, hotKeys>>
      /\ EnsureNativeOsdHidden(ids)
  BY DEF CannotLoad, Throw, mainVars, PartOfLoad, hotKeyVars, trayVars
<1>2. /\ hiding' \subseteq hiding \cup {Current}
      /\ hiding' = {} => hiding = {} /\ minimized' = minimized
  <2> HIDE DEF ids
  <2>1. /\ hiding' \subseteq hiding \cup ids
        /\ hiding' = {} => hiding = {} /\ minimized' = minimized
    BY <1>1, HidingOsd
  <2> QED
    BY <2>1 DEF ids
<1>3. /\ Ids' = Ids /\ (Exists' <=> Exists) /\ (MayFail' <=> MayFail)
  BY <1>1, SameFile
<1>4. pool = Types /\ Current \in Ids /\ Current \in DOMAIN pool
  BY <1>1, Progress, PoolIsTypes, TypesOf
<1> HIDE DEF ids
<1>5. ConfigInv' /\ OutcomeInv' /\ CleanInv' /\ HidingInv'
  BY <1>1, <1>2, <1>3 DEF IInv, ConfigInv, Configured, OutcomeInv, CleanInv, HidingInv
<1>6. OwnedInv'
  <2>1. /\ \A n \in DOMAIN notifiers' :
              notifiers'[n] = Current \/ (n \in DOMAIN notifiers /\ notifiers'[n] = notifiers[n])
        /\ \A h \in hotKeys' : h \in hotKeys \/ h.id \in DOMAIN notifiers'
        /\ DOMAIN notifiers \subseteq DOMAIN notifiers'
    BY <1>1, NewNotifier
  <2> QED
    BY <1>1, <1>2, <1>4, <2>1 DEF IInv, OwnedInv
<1>7. MayFail
  <2>1. CASE IsRefused(pool, Current)
    BY <1>4, <2>1 DEF MayFail, IsAcceptable
  <2>2. CASE pool[Current] = "hotkey" /\ CanNotify(P(Current, "trigger")) /\ ClosureFails(pool,
                 Current)
    <3>1. Native(Current) = ConvertToNativeKey(P(Current, "trigger"))
      BY <1>4 DEF Native, P
    <3>2. IsTrap(Current)
      BY <1>4, <2>2, <3>1 DEF IsTrap, CanNotify, IsTaken
    <3> QED
      BY <1>4, <2>2, <3>2 DEF MayFail, Hotkeys
  <2> QED
    BY <1>1, <2>1, <2>2 DEF LoadFails
<1>8. DOMAIN pool \ Ids = DOMAIN Builtins
  BY <1>1 DEF IInv, PoolInv
<1>9. PoolInv'
  BY <1>1, <1>3, <1>7, <1>8 DEF PoolInv
<1>10. OrderInv' /\ HotKeyInv'
  BY <1>1 DEF OrderInv, HotKeyInv
<1> QED
  BY <1>5, <1>6, <1>9, <1>10 DEF IInv

(* Destroyed entities take with them what is registered for them. *)
LEMMA DestroyOwned ==
  ASSUME OwnedInv, NEW ids, DestroyEntities(ids)
  PROVE  /\ OwnedInv'
         /\ DOMAIN pool' = DOMAIN pool \ ids /\ loaded' = loaded \ ids /\ hiding' = hiding \ ids
         /\ minimized' = minimized \ RestoredWindows(ids) /\ NativeOsdControl' = NativeOsdControl
<1>1. /\ DOMAIN pool' = DOMAIN pool \ ids /\ loaded' = loaded \ ids /\ hiding' = hiding \ ids
      /\ DOMAIN osds' = DOMAIN osds \ ids /\ DOMAIN shown' = DOMAIN shown \ ids
      /\ icons' = icons \ ids /\ controls' = controls \ ids
      /\ minimized' = minimized \ RestoredWindows(ids) /\ windows' = windows
  BY DEF DestroyEntities, Forget
<1>2. /\ \A n \in DOMAIN notifiers' :
            n \in DOMAIN notifiers /\ notifiers'[n] = notifiers[n] /\ notifiers[n] \notin ids
      /\ \A h \in hotKeys' : h \in hotKeys /\ (h.id \in DOMAIN notifiers
             => h.id \in DOMAIN notifiers')
  BY DEF DestroyEntities, RemoveShortcutNotifiers
<1>3. OwnedInv'
  BY <1>1, <1>2 DEF OwnedInv
<1> QED
  BY <1>1, <1>3, SameControl

(* The scope guard of loadEntities() erases what was created. *)
LEMMA EraseInv ==
  ASSUME IInv, Erase PROVE IInv'
<1> USE DEF InPool, Early, Over
<1>1. /\ pc = "erase" /\ pc' = "close" /\ outcome' = "failed" /\ UNCHANGED <<config, line>>
      /\ DestroyEntities(Ids)
  BY DEF Erase, Refused, Erased, mainVars
<1>2. /\ OwnedInv' /\ hiding' = hiding \ Ids
      /\ minimized' = minimized \ RestoredWindows(Ids) /\ NativeOsdControl' = NativeOsdControl
  BY <1>1, DestroyOwned DEF IInv
<1>3. ConfigInv' /\ OutcomeInv' /\ CleanInv'
  BY <1>1 DEF IInv, ConfigInv, Configured, OutcomeInv, CleanInv
<1>4. HidingInv'
  <2> SUFFICES ASSUME hiding' = {} PROVE NativeOsdControl \cap minimized' = {}
    BY <1>1, <1>2 DEF HidingInv
  <2>1. CASE hiding = {}
    BY <1>1, <1>2, <2>1 DEF IInv, HidingInv
  <2>2. CASE hiding # {}
    BY <1>2, <2>2 DEF RestoredWindows
  <2> QED
    BY <2>1, <2>2
<1>5. OrderInv' /\ PoolInv' /\ HotKeyInv'
  BY <1>1 DEF OrderInv, PoolInv, HotKeyInv
<1> QED
  BY <1>2, <1>3, <1>4, <1>5 DEF IInv

(* A map without any of its entries. *)
LEMMA ForgetAll ==
  ASSUME NEW f, NEW ids, DOMAIN f \subseteq ids PROVE Forget(f, ids) = <<>>
BY DEF Forget

(* The pool is destroyed, with all that is in it. *)
LEMMA ClosePoolInv ==
  ASSUME IInv, ClosePool PROVE IInv'
<1> USE DEF InPool, Early, Over
<1>1. /\ pc = "close" /\ pc' \in {"caught", "cleanup"} /\ outcome' = "closed"
      /\ UNCHANGED <<config, line>>
      /\ DestroyEntities(DOMAIN pool)
  BY DEF ClosePool, mainVars
<1>2. /\ OwnedInv' /\ DOMAIN pool' = {} /\ hiding' = {}
      /\ minimized' = minimized \ RestoredWindows(DOMAIN pool)
      /\ NativeOsdControl' = NativeOsdControl
  <2>1. /\ OwnedInv' /\ DOMAIN pool' = DOMAIN pool \ DOMAIN pool /\ hiding' = hiding \ DOMAIN pool
        /\ minimized' = minimized \ RestoredWindows(DOMAIN pool)
        /\ NativeOsdControl' = NativeOsdControl
    BY <1>1, DestroyOwned DEF IInv
  <2>2. hiding \subseteq DOMAIN pool
    BY DEF IInv, OwnedInv
  <2> QED
    BY <2>1, <2>2
<1>3. pool' = <<>> /\ osds' = <<>> /\ shown' = <<>>
  BY <1>1, ForgetAll DEF IInv, OwnedInv, DestroyEntities
<1>4. notifiers' = <<>>
  <2>1. \A n \in DOMAIN notifiers : notifiers[n] \in DOMAIN pool
    BY DEF IInv, OwnedInv
  <2>2. notifiers' = [n \in {} |-> notifiers[n]]
    BY <1>1, <2>1 DEF DestroyEntities, RemoveShortcutNotifiers
  <2> QED
    BY <2>2
<1>5. Nothing'
  BY <1>2, <1>3, <1>4 DEF Nothing, OwnedInv
<1>6. NativeOsdControl' \cap minimized' = {}
  <2>1. CASE hiding = {}
    BY <1>1, <1>2, <2>1 DEF IInv, HidingInv
  <2>2. CASE hiding # {}
    <3>1. hiding \cap DOMAIN pool # {}
      BY <2>2 DEF IInv, OwnedInv
    <3> QED
      BY <1>2, <3>1 DEF RestoredWindows
  <2> QED
    BY <2>1, <2>2
<1>7. ConfigInv' /\ OutcomeInv' /\ CleanInv' /\ HidingInv'
  BY <1>1, <1>5, <1>6 DEF IInv, ConfigInv, Configured, OutcomeInv, CleanInv, HidingInv
<1>8. OrderInv' /\ PoolInv' /\ HotKeyInv'
  BY <1>1 DEF OrderInv, PoolInv, HotKeyInv
<1> QED
  BY <1>2, <1>7, <1>8 DEF IInv

(* The event loop ends. *)
LEMMA QuitInv ==
  ASSUME IInv, Quit PROVE IInv'
<1> USE DEF InPool, Early, Over
<1>1. /\ pc = "exec" /\ pc' = "close" /\ UNCHANGED <<config, line, outcome, worldVars>>
  BY DEF Quit, GoTo, mainVars
<1>2. /\ UNCHANGED <<pool, loaded, hiding, minimized>> /\ NativeOsdControl' = NativeOsdControl
             /\ OwnedInv'
  BY <1>1, SameWorld DEF IInv
<1>3. ConfigInv' /\ OutcomeInv' /\ CleanInv' /\ HidingInv'
  BY <1>1, <1>2 DEF IInv, ConfigInv, Configured, OutcomeInv, CleanInv, HidingInv
<1>4. OrderInv' /\ PoolInv' /\ HotKeyInv'
  BY <1>1 DEF OrderInv, PoolInv, HotKeyInv
<1> QED
  BY <1>2, <1>3, <1>4 DEF IInv

(* Steps in which entities only change what they show and hide. *)
LEMMA StaysInv ==
  ASSUME IInv, pc \in {"load", "exec"},
         UNCHANGED <<pc, config, line, order, index, outcome, pool, loaded, icons, controls,
                     notifiers, hotKeys>>,
         DOMAIN osds' = DOMAIN osds, DOMAIN shown' = DOMAIN shown,
         hiding' \subseteq DOMAIN pool,
         hiding' = {} => hiding = {} /\ minimized' \subseteq minimized
  PROVE  IInv'
<1> USE DEF InPool, Early, Over
<1>1. /\ Ids' = Ids /\ Types' = Types /\ (Exists' <=> Exists)
      /\ \A id : Record(id)' = Record(id)
      /\ \A types, id : ClosureFails(types, id)' <=> ClosureFails(types, id)
      /\ \A types, id : IsRefused(types, id)' <=> IsRefused(types, id)
      /\ \A id : Native(id)' = Native(id)
      /\ \A id : IsTrap(id)' <=> IsTrap(id)
  BY SameFile
<1>2. ConfigInv' /\ OutcomeInv' /\ CleanInv' /\ HidingInv'
  BY <1>1 DEF IInv, ConfigInv, Configured, OutcomeInv, CleanInv, HidingInv
<1>3. OwnedInv'
  BY DEF IInv, OwnedInv
<1>4. OrderInv'
  BY <1>1 DEF IInv, OrderInv
<1>5. Before(index)' = Before(index)
  BY DEF Before
<1>6. AreTypes(pool)' <=> AreTypes(pool)
  BY <1>1 DEF AreTypes
<1>7. PoolInv'
  BY <1>1, <1>5, <1>6 DEF IInv, PoolInv
<1>8. \A native : IsHeld(native)' <=> IsHeld(native)
  BY <1>1 DEF IsHeld
<1>9. HotKeyInv'
  BY <1>1, <1>8 DEF IInv, HotKeyInv
<1> QED
  BY <1>2, <1>3, <1>4, <1>7, <1>9 DEF IInv

(* A target that was read is in the pool. *)
LEMMA TargetIsRead ==
  ASSUME NEW record, NEW type \in {"hotkey", "tray_event"}, NEW types, AllRead(record, type, types)
  PROVE  Result(Read(record, type, "target", types)) \in DOMAIN types
<1> DEFINE results == Read(record, type, "target", types)
<1>1. "target" \in DOMAIN Parameters[type] /\ Parameters[type]["target"] = Required("entity")
  <2>1. "target" \in DOMAIN Parameters.hotkey /\ Parameters.hotkey["target"] = Required("entity")
    BY DEF Parameters
  <2>2. "target" \in DOMAIN Parameters.tray_event
            /\ Parameters.tray_event["target"] = Required("entity")
    BY DEF Parameters
  <2> QED
    BY <2>1, <2>2
<1>2. results # {}
  BY <1>1 DEF AllRead, Succeeds
<1>3. results \subseteq DOMAIN types
  <2>1. \A w : ParseConfigValue("entity", w, types) = AsString(w) \cap DOMAIN types
    BY DEF ParseConfigValue
  <2> QED
    BY <1>1, <2>1 DEF Read, Required, Parameter
<1> HIDE DEF results
<1>4. Result(results) \in results
  BY <1>2 DEF Result
<1> QED
  BY <1>3, <1>4 DEF results

(* A loaded hotkey, or a tray event, has a target in the pool. *)
LEMMA TargetInPool ==
  ASSUME IInv, pc = "exec", NEW id \in loaded, Types[id] \in {"hotkey", "tray_event"}
  PROVE  P(id, "target") \in DOMAIN pool
<1>1. pool = Types /\ ~IsRefused(Types, id)
  BY PoolIsTypes DEF IInv, PoolInv
<1>2. AllRead(Record(id), Types[id], Types)
  BY <1>1 DEF IsRefused
<1> QED
  BY <1>1, <1>2, TargetIsRead DEF P, ValueIn

(* Invoking closures hides at most the native OSD, for an entity of the     *)
(* pool.                                                                    *)
LEMMA InvokeInv ==
  ASSUME IInv, InEventLoop,
         NEW ids \in SUBSET loaded, \A id \in ids : Types[id] \in {"hotkey", "tray_event"},
         Invoke({Closure(id) : id \in ids}), UNCHANGED <<shown, trayVars>>
  PROVE  IInv'
<1> DEFINE targets == {c.target : c \in
                    {c \in {Closure(id) : id \in ids} : c.action = "ensureNativeOsdHidden"}}
<1>1. /\ pc = "exec"
      /\ UNCHANGED <<pc, config, line, order, index, outcome, pool, loaded, osds, shown, icons,
                     controls, notifiers, hotKeys>>
      /\ EnsureNativeOsdHidden(targets)
  BY DEF InEventLoop, GoTo, mainVars, Invoke, hotKeyVars, trayVars
<1>2. targets \subseteq DOMAIN pool
  BY <1>1, TargetInPool DEF Closure
<1> HIDE DEF targets
<1>3. /\ hiding' \subseteq hiding \cup targets
      /\ hiding' = {} => hiding = {} /\ minimized' = minimized
  BY <1>1, HidingOsd
<1>4. hiding \subseteq DOMAIN pool
  BY DEF IInv, OwnedInv
<1> QED
  BY <1>1, <1>2, <1>3, <1>4, StaysInv

(* The messages the event loop takes. *)
LEMMA EventLoopInv ==
  ASSUME IInv, DispatchHotkey \/ ProcessInput \/ UpdateTrayIconSize PROVE IInv'
<1>1. CASE DispatchHotkey
  <2>1. InEventLoop /\ HandleHotkey /\ pc = "exec"
    BY <1>1 DEF DispatchHotkey, InEventLoop
  <2> DEFINE ids == NotifierOf(Head(messages))
  <2>2. Invoke({Closure(id) : id \in ids}) /\ UNCHANGED <<shown, trayVars>>
    BY <2>1 DEF HandleHotkey
  <2>3. ids \in SUBSET loaded /\ \A id \in ids : Types[id] \in {"hotkey", "tray_event"}
    BY <2>1 DEF NotifierOf, IInv, HotKeyInv
  <2> HIDE DEF ids
  <2> QED
    BY <2>1, <2>2, <2>3, InvokeInv
<1>2. CASE ProcessInput
  <2>1. InEventLoop /\ HandleInput /\ pc = "exec"
    BY <1>2 DEF ProcessInput, InEventLoop
  <2>2. PICK receivers :
            Invoke({Closure(id) : id \in Triggered(receivers, Head(messages).combination)})
    BY <2>1 DEF HandleInput
  <2> DEFINE ids == Triggered(receivers, Head(messages).combination)
  <2>3. UNCHANGED <<shown, trayVars>>
    BY <2>1 DEF HandleInput
  <2>4. pool = Types
    BY <2>1, PoolIsTypes
  <2>5. ids \in SUBSET loaded /\ \A id \in ids : Types[id] \in {"hotkey", "tray_event"}
    BY <2>4 DEF Triggered, Loaded, OfType
  <2>6. Invoke({Closure(id) : id \in ids})
    BY <2>2
  <2> HIDE DEF ids
  <2> QED
    BY <2>1, <2>3, <2>5, <2>6, InvokeInv
<1>3. CASE UpdateTrayIconSize
  <2>1. /\ pc = "exec"
        /\ UNCHANGED <<pc, config, line, order, index, outcome, pool, loaded, osds, hiding, icons,
                       controls, notifiers, hotKeys, minimized>>
        /\ DOMAIN shown' = DOMAIN shown
    BY <1>3 DEF UpdateTrayIconSize, InEventLoop, GoTo, mainVars, HandleTaskbarCreated, UpdateIcons,
                hotKeyVars, windowVars
  <2> QED
    BY <2>1, StaysInv DEF IInv, OwnedInv
<1> QED
  BY <1>1, <1>2, <1>3

(* What the user and Windows do. *)
LEMMA WorldActsInv ==
  ASSUME IInv,
         \/ UserPressesKey \/ UserTurnsWheel \/ DpiChanges \/ WindowsChange
         \/ BackendChanges \/ PrimaryScreenChanges \/ GeometryChanges
  PROVE  IInv'
<1>1. /\ pc \in {"load", "exec"}
      /\ UNCHANGED <<pc, config, line, order, index, outcome>>
  BY DEF UserPressesKey, UserTurnsWheel, DpiChanges, WindowsChange, BackendChanges,
         PrimaryScreenChanges, GeometryChanges, Posts, Acts, mainVars
<1>2. /\ UNCHANGED <<pool, loaded, icons, controls, notifiers, hotKeys, hiding>>
      /\ DOMAIN osds' = DOMAIN osds /\ DOMAIN shown' = DOMAIN shown
      /\ minimized' \subseteq minimized
  <2>1. CASE UserPressesKey
    BY <2>1 DEF UserPressesKey, Posts, PressKey, entityVars, hotKeyVars, trayVars, windowVars
  <2>2. CASE UserTurnsWheel
    BY <2>2 DEF UserTurnsWheel, Posts, TurnWheel, entityVars, hotKeyVars, trayVars, windowVars
  <2>3. CASE DpiChanges
    BY <2>3 DEF DpiChanges, Posts, ChangeDpi, entityVars, hotKeyVars, windowVars
  <2>4. CASE WindowsChange
    BY <2>4 DEF WindowsChange, ChangeWindows, entityVars, hotKeyVars, trayVars
  <2>5. CASE BackendChanges
    BY <2>5 DEF BackendChanges, SettingChanged, UpdateIcons, desktopVars, hotKeyVars, trayVars,
       windowVars
  <2>6. CASE PrimaryScreenChanges
    BY <2>6 DEF PrimaryScreenChanges, ChangePrimaryScreen, desktopVars, hotKeyVars, trayVars,
       windowVars
  <2>7. CASE GeometryChanges
    BY <2>7 DEF GeometryChanges, ChangeGeometry, desktopVars, hotKeyVars, trayVars, windowVars
  <2> QED
    BY <2>1, <2>2, <2>3, <2>4, <2>5, <2>6, <2>7
<1>3. hiding' \subseteq DOMAIN pool
  BY <1>2 DEF IInv, OwnedInv
<1> QED
  BY <1>1, <1>2, <1>3, StaysInv

(* A step that changes nothing. *)
LEMMA StutterInv ==
  ASSUME IInv, UNCHANGED vars PROVE IInv'
<1>1. UNCHANGED <<pc, config, line, order, index, outcome, worldVars>>
  BY DEF vars, mainVars
<1>2. /\ UNCHANGED <<pool, loaded, osds, shown, hiding, notifiers, hotKeys, icons, controls,
             minimized>>
      /\ NativeOsdControl' = NativeOsdControl /\ OwnedInv'
  BY <1>1, SameWorld DEF IInv
<1>3. CASE pc \in {"load", "exec"}
  BY <1>1, <1>2, <1>3, StaysInv DEF IInv, OwnedInv
<1>4. CASE pc \in Early \cup Over
  <2>1. pc \in Configured => ~ParseFails(Options, line)
    BY DEF IInv, ConfigInv
  <2>2. pc = "pool" => Exists
    BY DEF IInv, ConfigInv
  <2> QED
    BY <1>1, <1>4, <2>1, <2>2, OutsideInv
<1>5. CASE pc \in {"check", "create", "erase", "close"}
  <2>1. /\ Ids' = Ids /\ Types' = Types /\ (Exists' <=> Exists) /\ (MayFail' <=> MayFail)
        /\ \A id : Record(id)' = Record(id)
    BY <1>1, SameFile
  <2>2. ConfigInv' /\ OutcomeInv' /\ CleanInv' /\ HidingInv'
    BY <1>1, <1>2, <1>5, <2>1
       DEF IInv, ConfigInv, Configured, OutcomeInv, CleanInv, HidingInv, Early, InPool, Over
  <2>3. OrderInv'
    BY <1>1, <2>1 DEF IInv, OrderInv
  <2>4. Before(index)' = Before(index)
    BY <1>1 DEF Before
  <2>5. AreTypes(pool)' <=> AreTypes(pool)
    BY <1>2, <2>1 DEF AreTypes
  <2>6. PoolInv'
    BY <1>1, <1>2, <1>5, <2>1, <2>4, <2>5 DEF IInv, PoolInv
  <2>7. HotKeyInv'
    BY <1>1, <1>5 DEF HotKeyInv
  <2> QED
    BY <1>2, <2>2, <2>3, <2>6, <2>7 DEF IInv
<1>6. pc \in Early \cup InPool \cup Over
  BY DEF IInv, ConfigInv
<1> QED
  BY <1>3, <1>4, <1>5, <1>6 DEF InPool

(* A run begins with nothing. *)
LEMMA InitInv == Init => IInv
<1> SUFFICES ASSUME Init PROVE IInv
  OBVIOUS
<1>1. ConfigInv /\ OutcomeInv
  BY DEF Init, ConfigInv, OutcomeInv, Early, Configured, InPool
<1>2. /\ pc = "start" /\ Nothing /\ minimized = {}
  BY DEF Init, EntitiesInit, DesktopInit, Nothing
<1>3. OwnedInv
  BY <1>2 DEF OwnedInv, Nothing
<1>4. CleanInv /\ HidingInv /\ OrderInv /\ PoolInv /\ HotKeyInv
  BY <1>2 DEF CleanInv, HidingInv, OrderInv, PoolInv, HotKeyInv, Early, Over, InPool
<1> QED
  BY <1>1, <1>3, <1>4 DEF IInv

(* The invariant is inductive, one lemma for each action. *)
LEMMA StepInv == IInv /\ [Next]_vars => IInv'
<1> SUFFICES ASSUME IInv, [Next]_vars PROVE IInv'
  OBVIOUS
<1>1. CASE \/ InstallBufferLogger \/ InitializePlatform \/ RefuseArguments
           \/ RunHelp \/ RunVersion \/ ListKeys \/ OpenLog \/ LoadConfig \/ Catch \/ CleanUp
  BY <1>1, OutsideSteps
<1>2. CASE ParseArguments
  BY <1>2, ParseArgumentsInv
<1>3. CASE MakePool \/ ListEntities
  BY <1>3, MakePoolInv
<1>4. CASE CheckIds
  BY <1>4, CheckIdsInv
<1>5. CASE CreateNext
  BY <1>5, CreateNextInv
<1>6. CASE CannotCreate
  BY <1>6, CannotCreateInv
<1>7. CASE LoadNext
  BY <1>7, LoadNextInv
<1>8. CASE CannotLoad
  BY <1>8, CannotLoadInv
<1>9. CASE Erase
  BY <1>9, EraseInv
<1>10. CASE ClosePool
  BY <1>10, ClosePoolInv
<1>11. CASE Quit
  BY <1>11, QuitInv
<1>12. CASE DispatchHotkey \/ ProcessInput \/ UpdateTrayIconSize
  BY <1>12, EventLoopInv
<1>13. CASE \/ UserPressesKey \/ UserTurnsWheel \/ DpiChanges \/ WindowsChange
            \/ BackendChanges \/ PrimaryScreenChanges \/ GeometryChanges
  BY <1>13, WorldActsInv
<1>14. CASE Waits \/ Terminated \/ UNCHANGED vars
  BY <1>14, StutterInv DEF Waits, Terminated
<1> QED
  BY <1>1, <1>2, <1>3, <1>4, <1>5, <1>6, <1>7, <1>8, <1>9, <1>10, <1>11, <1>12, <1>13, <1>14
     DEF Next

(* At every moment the main thread owns what its position says (qnob.cpp,   *)
(* entity_pool.cpp), for any configurations.                                *)
THEOREM Invariant == Spec => []IInv
BY InitInv, StepInv, PTL DEF Spec

(* When main() returns no hot key is registered, no icon or window is       *)
(* there, and the native OSD is back, whichever way the program ended.      *)
THEOREM NothingLeft == Spec => []NothingIsLeftBehind
<1>1. IInv => NothingIsLeftBehind
  BY DEF IInv, CleanInv, Over, Nothing, NothingIsLeftBehind
<1> QED
  BY <1>1, Invariant, PTL

(* The main thread is inside loadEntities(): the entities that are not      *)
(* built in are not seen yet.                                               *)
Inside == {"create", "load", "erase"}

(* The entities the holder of the pool has. *)
Present == IF pc \in Inside THEN DOMAIN pool \ Ids ELSE DOMAIN pool

(* The steps of EntityLoading, with the variables of Qnob. *)
LEMMA LoadingIs ==
  /\ Present' = Present /\ outcome' = outcome => UNCHANGED Loading!vars
  /\ Loading!Init <=> Present = {} /\ outcome = "pending"
  /\ outcome = "pending" /\ Present = {} /\ Present' = DOMAIN Builtins /\ outcome' = outcome
        => Loading!Next
  /\ /\ outcome = "pending" /\ outcome' = "loaded" /\ Exists /\ MayLoad
     /\ Present' = Present \cup Ids
     => Loading!Next
  /\ /\ outcome = "pending" /\ outcome' = "failed" /\ Exists /\ MayFail /\ Present' = Present
     => Loading!Next
  /\ outcome # "closed" /\ outcome' = "closed" /\ Present' = {} => Loading!Next
<1>1. ASSUME Present' = Present, outcome' = outcome PROVE UNCHANGED Loading!vars
  BY <1>1 DEF Loading!vars, Present, Inside
<1>2. Loading!Init <=> Present = {} /\ outcome = "pending"
  BY DEF Loading!Init, Present, Inside
<1>3. ASSUME outcome = "pending", Present = {}, Present' = DOMAIN Builtins, outcome' = outcome
      PROVE  Loading!Next
  BY <1>3 DEF Loading!Next, Loading!Make, Present, Inside
<1>4. ASSUME outcome = "pending", outcome' = "loaded", Exists, MayLoad, Present' = Present \cup Ids
      PROVE  Loading!Next
  BY <1>4 DEF Loading!Next, Loading!Succeed, Present, Inside
<1>5. ASSUME outcome = "pending", outcome' = "failed", Exists, MayFail, Present' = Present
      PROVE  Loading!Next
  BY <1>5 DEF Loading!Next, Loading!Fail, Present, Inside
<1>6. ASSUME outcome # "closed", outcome' = "closed", Present' = {} PROVE Loading!Next
  BY <1>6 DEF Loading!Next, Loading!Close, Present, Inside
<1> QED
  BY <1>1, <1>2, <1>3, <1>4, <1>5, <1>6

(* The pool stays as it is, for its holder. *)
LEMMA Unseen ==
  ASSUME UNCHANGED <<config, outcome>>, DOMAIN pool' = DOMAIN pool,
             (pc' \in Inside) <=> (pc \in Inside)
  PROVE  UNCHANGED Loading!vars
<1>1. Ids' = Ids
  BY SameFile
<1>2. Present' = Present
  BY <1>1 DEF Present
<1> QED
  BY <1>2, LoadingIs

(* Most actions do not change what is in the pool. *)
LEMMA UnseenSteps ==
  ASSUME IInv,
         \/ InstallBufferLogger \/ InitializePlatform \/ RefuseArguments \/ ParseArguments
         \/ RunHelp \/ RunVersion \/ ListKeys \/ OpenLog \/ LoadConfig \/ Catch \/ CleanUp
         \/ Quit \/ UNCHANGED vars
         \/ DispatchHotkey \/ ProcessInput \/ UpdateTrayIconSize
         \/ UserPressesKey \/ UserTurnsWheel \/ DpiChanges \/ WindowsChange
         \/ BackendChanges \/ PrimaryScreenChanges \/ GeometryChanges
  PROVE  UNCHANGED Loading!vars
<1>1. CASE \/ InstallBufferLogger \/ InitializePlatform \/ RefuseArguments \/ ParseArguments
           \/ RunHelp \/ RunVersion \/ ListKeys \/ OpenLog \/ LoadConfig \/ Catch \/ CleanUp \/ Quit
  <2>1. UNCHANGED <<config, outcome, pool>> /\ pc \notin Inside /\ pc' \notin Inside
    BY <1>1 DEF InstallBufferLogger, InitializePlatform, RefuseArguments, ParseArguments, Mode,
                RunHelp, RunVersion, ListKeys, OpenLog, LoadConfig, Catch, CleanUp, Quit,
                GoTo, Throw, worldVars, entityVars, Inside
  <2> QED
    BY <2>1, Unseen
<1>2. CASE UNCHANGED vars
  BY <1>2, Unseen DEF vars, worldVars, entityVars
<1>3. CASE DispatchHotkey \/ ProcessInput \/ UpdateTrayIconSize
  <2>1. UNCHANGED <<pc, config, outcome, pool>>
    BY <1>3 DEF DispatchHotkey, ProcessInput, UpdateTrayIconSize, InEventLoop, GoTo,
                HandleHotkey, HandleInput, HandleTaskbarCreated, Invoke
  <2> QED
    BY <2>1, Unseen
<1>4. CASE \/ UserPressesKey \/ UserTurnsWheel \/ DpiChanges \/ WindowsChange
           \/ BackendChanges \/ PrimaryScreenChanges \/ GeometryChanges
  <2>1. UNCHANGED <<pc, config, outcome, pool>>
    BY <1>4 DEF UserPressesKey, UserTurnsWheel, DpiChanges, WindowsChange, BackendChanges,
                PrimaryScreenChanges, GeometryChanges, Posts, Acts, entityVars, SettingChanged,
                ChangePrimaryScreen, ChangeGeometry
  <2> QED
    BY <2>1, Unseen
<1> QED
  BY <1>1, <1>2, <1>3, <1>4

(* The loops of loadEntities() are seen by nobody until the last. *)
LEMMA LoopIsUnseen ==
  ASSUME IInv, CreateNext \/ CannotCreate \/ CannotLoad \/ (LoadNext /\ pc' = "load")
  PROVE  UNCHANGED Loading!vars
<1>1. /\ pc \in Inside /\ pc' \in Inside /\ UNCHANGED <<config, outcome>>
      /\ \/ pool' = pool
         \/ pc = "create" /\ DOMAIN pool' = DOMAIN pool \cup {Current}
  <2>1. CASE CreateNext
    BY <2>1 DEF CreateNext, Continue, GoTo, CreateEntity, With, Inside
  <2>2. CASE CannotCreate
    BY <2>2 DEF CannotCreate, Throw, worldVars, entityVars, Inside
  <2>3. CASE CannotLoad
    BY <2>3 DEF CannotLoad, Throw, PartOfLoad, Inside
  <2>4. CASE LoadNext /\ pc' = "load"
    BY <2>4 DEF LoadNext, Continue, GoTo, Return, LoadEntity, Inside
  <2> QED
    BY <2>1, <2>2, <2>3, <2>4
<1>2. Ids' = Ids
  BY <1>1, SameFile
<1>3. pc = "create" => Current \in Ids
  BY Progress
<1>4. Present' = Present
  BY <1>1, <1>2, <1>3 DEF Present
<1> QED
  BY <1>1, <1>4, LoadingIs

(* Every step is a step of EntityLoading or changes nothing for it. *)
LEMMA StepIsAtomic ==
  IInv /\ IInv' /\ [Next]_vars => [Loading!Next]_(Loading!vars)
<1> SUFFICES ASSUME IInv, IInv', [Next]_vars PROVE Loading!Next \/ UNCHANGED Loading!vars
  OBVIOUS
<1>1. CASE MakePool \/ ListEntities
  <2>1. /\ pc \in {"pool", "list"} /\ pc' \in {"check", "close"} /\ outcome' = outcome
        /\ pool' = Builtins
    BY <1>1 DEF MakePool, ListEntities, GoTo, CreateBuiltins
  <2>2. outcome = "pending" /\ pool = <<>>
    BY <2>1 DEF IInv, OutcomeInv, CleanInv, Nothing, Early
  <2>3. Present = {} /\ Present' = DOMAIN Builtins
    BY <2>1, <2>2 DEF Present, Inside
  <2> QED
    BY <2>1, <2>2, <2>3, LoadingIs
<1>2. CASE CheckIds
  <2>1. /\ pc = "check" /\ UNCHANGED <<config, pool>>
        /\ \/ Ids = {} /\ pc' = "exec" /\ outcome' = "loaded"
           \/ IdsAreFree /\ pc' = "create" /\ outcome' = outcome
           \/ ~IdsAreFree /\ pc' = "close" /\ outcome' = "failed"
    BY <1>2 DEF CheckIds, Return, Refused, GoTo, worldVars, entityVars
  <2>2. outcome = "pending" /\ pool = Builtins /\ Exists /\ Ids' = Ids
    BY <2>1, SameFile DEF IInv, OutcomeInv, PoolInv, ConfigInv
  <2>3. CASE Ids = {} /\ pc' = "exec" /\ outcome' = "loaded"
    <3>1. MayLoad
      BY <2>3 DEF MayLoad, IsAcceptable, Hotkeys
    <3>2. Present' = Present \cup Ids
      BY <2>1, <2>3 DEF Present, Inside
    <3> QED
      BY <2>2, <2>3, <3>1, <3>2, LoadingIs
  <2>4. CASE IdsAreFree /\ pc' = "create" /\ outcome' = outcome
    <3>1. Present' = Present
      BY <2>1, <2>2, <2>4 DEF Present, Inside, IdsAreFree
    <3> QED
      BY <2>4, <3>1, LoadingIs
  <2>5. CASE ~IdsAreFree /\ pc' = "close" /\ outcome' = "failed"
    <3>1. MayFail
      BY <2>2, <2>5 DEF MayFail, IsAcceptable, IdsAreFree
    <3>2. Present' = Present
      BY <2>1, <2>5 DEF Present, Inside
    <3> QED
      BY <2>2, <2>5, <3>1, <3>2, LoadingIs
  <2> QED
    BY <2>1, <2>3, <2>4, <2>5
<1>3. CASE CreateNext \/ CannotCreate \/ CannotLoad \/ (LoadNext /\ pc' = "load")
  BY <1>3, LoopIsUnseen
<1>4. CASE LoadNext /\ pc' # "load"
  <2>1. pc = "load" /\ pc' = "exec" /\ outcome' = "loaded" /\ UNCHANGED config
    BY <1>4 DEF LoadNext, Continue, GoTo, Return
  <2>2. /\ Ids' = Ids /\ Types' = Types /\ (MayLoad' <=> MayLoad)
    BY <2>1, SameFile
  <2>3. outcome = "pending" /\ Exists
    BY <2>1 DEF IInv, OutcomeInv, ConfigInv
  <2>4. MayLoad'
    <3>1. IsAcceptable'
      BY <2>1, TypesOf DEF IInv, PoolInv, IsAcceptable
    <3>2. loaded' = Ids'
      BY <2>1 DEF IInv, PoolInv
    <3> QED
      BY <2>1, <3>1, <3>2 DEF MayLoad, IInv, HotKeyInv, IsHeld, Hotkeys
  <2>5. Present' = Present \cup Ids
    <3>1. /\ DOMAIN pool' = DOMAIN Builtins \cup Ids
          /\ DOMAIN pool = DOMAIN Builtins \cup Ids /\ Ids \cap DOMAIN Builtins = {}
      BY <2>1, <2>2 DEF IInv, PoolInv
    <3> QED
      BY <2>1, <3>1 DEF Present, Inside
  <2> QED
    BY <2>1, <2>2, <2>3, <2>4, <2>5, LoadingIs
<1>5. CASE Erase
  <2>1. /\ pc = "erase" /\ pc' = "close" /\ outcome' = "failed"
        /\ DOMAIN pool' = DOMAIN pool \ Ids
    BY <1>5 DEF Erase, Refused, Erased, DestroyEntities, Forget
  <2>2. outcome = "pending" /\ Exists /\ MayFail
    BY <2>1 DEF IInv, OutcomeInv, ConfigInv, PoolInv
  <2>3. Present' = Present
    BY <2>1 DEF Present, Inside
  <2> QED
    BY <2>1, <2>2, <2>3, LoadingIs
<1>6. CASE ClosePool
  <2>1. /\ pc = "close" /\ pc' \in {"caught", "cleanup"} /\ outcome' = "closed"
        /\ DOMAIN pool' = {}
    BY <1>6 DEF ClosePool, DestroyEntities, Forget
  <2>2. outcome # "closed"
    BY <2>1 DEF IInv, OutcomeInv
  <2>3. Present' = {}
    BY <2>1 DEF Present, Inside
  <2> QED
    BY <2>1, <2>2, <2>3, LoadingIs
<1>7. CASE Waits \/ Terminated
  <2>1. UNCHANGED vars
    BY <1>7 DEF Waits, Terminated
  <2> QED
    BY <2>1, UnseenSteps
<1> QED
  BY <1>1, <1>2, <1>3, <1>4, <1>5, <1>6, <1>7, UnseenSteps DEF Next

(* EntityPool::loadEntities() loads all entities of a configuration or      *)
(* none, as EntityLoading says: the refinement, for any configurations and  *)
(* any order of the hash table.                                             *)
THEOREM LoadingIsAtomic == Spec => PoolIsAtomic
<1>1. Init => Loading!Init
  <2> SUFFICES ASSUME Init PROVE Loading!Init
    OBVIOUS
  <2>1. pc = "start" /\ pool = <<>> /\ outcome = "pending"
    BY DEF Init, EntitiesInit
  <2>2. Present = {}
    BY <2>1 DEF Present, Inside
  <2> QED
    BY <2>1, <2>2, LoadingIs
<1> QED
  BY <1>1, Invariant, StepIsAtomic, PTL DEF Spec, PoolIsAtomic, Loading!Spec

-----------------------------------------------------------------------------
(* The fields an OSD has. *)
IsOsd(o) ==
    o = [alignment |-> o.alignment, offset |-> o.offset, skin |-> o.skin, size |-> o.size,
         position |-> o.position, screen |-> o.screen]

(* The corner of an OSD of that size on that screen. *)
Where(alignment, size, offset, screen) ==
    <<Along(alignment[2], screen[1], size[1]) + offset[1],
      Along(alignment[1], screen[2], size[2]) + offset[2]>>

(* An OSD is on the primary screen, where its values place it. *)
IsPlaced(o) ==
    /\ IsOsd(o) /\ o.screen = primary
    /\ o.position = Where(o.alignment, o.size, o.offset, screens[primary])

(* Every OSD is placed with its values of this moment. *)
ScreenInv ==
    /\ primary \in DOMAIN screens /\ NoScreen \notin DOMAIN screens
    /\ \A id \in DOMAIN osds : IsPlaced(osds[id])

(* The messages that are posted to the window of the program. *)
Kinds == {"hotkey", "input", "taskbar"}
Posted == [kind : Kinds, id : Nat, combination : PressedKeys \cup TurnedWheels \cup {NoCombination}]

(* A message that tells of a new size of the icons. *)
IsNews(message) == message.kind = "taskbar"

(* Such a message is still queued. *)
News == \E i \in DOMAIN messages : IsNews(messages[i])

(* Icons and the cached size are as large as icons are, or a message that   *)
(* says so is still queued; and all icons have the cached size.             *)
TrayInv ==
    /\ messages \in Seq(Posted)
    /\ traySize # NoTraySize
    /\ ~News => cachedTraySize \in {NoTraySize, traySize}
           /\ \A id \in DOMAIN shown : shown[id] \in {0, traySize}
    /\ cachedTraySize # NoTraySize => \A id \in DOMAIN shown : shown[id] \in {0, cachedTraySize}

(* A loaded OSD has the values of its configuration and the size of its     *)
(* skin.                                                                    *)
HasLoaded(id) ==
    /\ osds[id].alignment = P(id, "position") /\ osds[id].offset = P(id, "offset")
    /\ osds[id].skin = P(id, "skin") /\ pool[osds[id].skin] \in Skins
           /\ osds[id].skin \in DOMAIN pool
    /\ osds[id].size = SkinSize(osds[id].skin, loaded)

(* There is a window for each OSD and an icon for each tray icon; the       *)
(* loaded ones show what they were configured to.                           *)
DisplayInv ==
    /\ pc = "check" => osds = <<>> /\ shown = <<>>
    /\ pc \in {"create", "load", "exec"} =>
        /\ DOMAIN osds = OfType("osd") /\ DOMAIN shown = OfType("tray_icon")
        /\ \A id \in DOMAIN osds : IF id \in loaded THEN HasLoaded(id) ELSE osds[id].skin = ""
        /\ \A id \in DOMAIN shown \cap loaded : shown[id] = 0 <=> P(id, "target") \notin initialized

(* Ids of notifiers are counted up. *)
IdInv ==
    /\ nextId \in Nat
    /\ \A n \in DOMAIN notifiers : n \in Nat /\ n < nextId
    /\ \A h \in hotKeys : h.id \in Nat

(* The inductive invariant of OSDs and icons, given IInv. *)
DInv == ScreenInv /\ TrayInv /\ DisplayInv /\ IdInv

(* updatePosition() places an OSD and changes nothing else. *)
LEMMA PlaceIs ==
  ASSUME NEW o, IsOsd(o), NEW screen
  PROVE  UpdatePosition(o, screen) =
            [alignment |-> o.alignment, offset |-> o.offset, skin |-> o.skin, size |-> o.size,
             position |-> Where(o.alignment, o.size, o.offset, screen), screen |-> o.screen]
<1> DEFINE a == o.alignment  f == o.offset  k == o.skin  s == o.size  p == o.position  c == o.screen
<1>1. o = [alignment |-> a, offset |-> f, skin |-> k, size |-> s, position |-> p, screen |-> c]
  BY DEF IsOsd
<1>2. UpdatePosition(o, screen) = [o EXCEPT !.position = Where(a, s, f, screen)]
  BY DEF UpdatePosition, Where
<1> DEFINE w == Where(a, s, f, screen)
<1> HIDE DEF a, f, k, s, p, c, w
<1>3. [o EXCEPT !.position = w] =
        [alignment |-> a, offset |-> f, skin |-> k, size |-> s, position |-> w, screen |-> c]
  BY <1>1
<1> QED
  BY <1>2, <1>3 DEF a, f, k, s, p, c, w

(* The same, field by field. *)
LEMMA Moved ==
  ASSUME NEW o, IsOsd(o), NEW screen
  PROVE  LET new == UpdatePosition(o, screen)
         IN  /\ IsOsd(new) /\ new.position = Where(new.alignment, new.size, new.offset, screen)
             /\ new.alignment = o.alignment /\ new.offset = o.offset /\ new.skin = o.skin
             /\ new.size = o.size /\ new.screen = o.screen
BY PlaceIs DEF IsOsd

(* A setter of an OSD places it anew. *)
LEMMA Changed ==
  ASSUME NEW o, IsPlaced(o), NEW field \in {"alignment", "offset", "size"}, NEW value
  PROVE  LET new == Change(o, field, value)
         IN  /\ IsPlaced(new) /\ new[field] = value /\ new.skin = o.skin
             /\ \A other \in {"alignment", "offset", "size"} : other # field
                    => new[other] = o[other]
<1> DEFINE new == Change(o, field, value)
           set == [o EXCEPT ![field] = value]
<1>1. CASE o[field] = value
  BY <1>1 DEF Change
<1>2. CASE o[field] # value
  <2>1. /\ IsOsd(set) /\ set[field] = value /\ set.skin = o.skin /\ set.screen = o.screen
        /\ \A other \in {"alignment", "offset", "size"} : other # field => set[other] = o[other]
    <3> DEFINE a == o.alignment  f == o.offset  k == o.skin
               s == o.size  p == o.position  c == o.screen
    <3>1. o = [alignment |-> a, offset |-> f, skin |-> k, size |-> s, position |-> p, screen |-> c]
      BY DEF IsOsd, IsPlaced
    <3> HIDE DEF a, f, k, s, p, c
    <3>2. CASE field = "alignment"
      BY <3>1, <3>2 DEF IsOsd
    <3>3. CASE field = "offset"
      BY <3>1, <3>3 DEF IsOsd
    <3>4. CASE field = "size"
      BY <3>1, <3>4 DEF IsOsd
    <3> QED
      BY <3>2, <3>3, <3>4
  <2>2. new = UpdatePosition(set, screens[primary])
    BY <1>2 DEF Change
  <2> HIDE DEF set, new
  <2>3. /\ IsOsd(new) /\ new.position = Where(new.alignment, new.size, new.offset, screens[primary])
        /\ new.alignment = set.alignment /\ new.offset = set.offset /\ new.skin = set.skin
        /\ new.size = set.size /\ new.screen = set.screen
    BY <2>1, <2>2, Moved
  <2>4. IsPlaced(new)
    BY <2>1, <2>3 DEF IsPlaced
  <2>5. \A other \in {"alignment", "offset", "size"} : new[other] = set[other]
    BY <2>3
  <2>6. new[field] = value /\ new.skin = o.skin
    BY <2>1, <2>3, <2>5
  <2> QED
    BY <2>1, <2>4, <2>5, <2>6 DEF new
<1> QED
  BY <1>1, <1>2

(* What the loader of OSDs leaves. *)
LEMMA LoadedOsdIs ==
  ASSUME NEW id, IsPlaced(osds[id])
  PROVE  LET new == LoadedOsd(id)
         IN  /\ IsPlaced(new) /\ new.alignment = P(id, "position") /\ new.offset = P(id, "offset")
             /\ new.skin = P(id, "skin") /\ new.size = SkinSize(P(id, "skin"), loaded)
<1> DEFINE first == Change(osds[id], "alignment", P(id, "position"))
           second == Change(first, "offset", P(id, "offset"))
           skin == P(id, "skin")
           third == [second EXCEPT !.skin = skin]
           size == SkinSize(skin, loaded)
           last == Change(third, "size", size)
<1>1. LoadedOsd(id) = last
  BY DEF LoadedOsd, SetSkin
<1>2. IsPlaced(first) /\ first.alignment = P(id, "position")
  BY Changed
<1> HIDE DEF first
<1>3. IsPlaced(second) /\ second.alignment = P(id, "position") /\ second.offset = P(id, "offset")
  BY <1>2, Changed
<1> HIDE DEF second, skin
<1>4. /\ IsPlaced(third) /\ third.alignment = P(id, "position") /\ third.offset = P(id, "offset")
      /\ third.skin = skin
  <2> DEFINE a == second.alignment  f == second.offset  k == second.skin  s == second.size
             p == second.position  c == second.screen
  <2>1. second = [alignment |-> a, offset |-> f, skin |-> k, size |-> s, position |-> p,
            screen |-> c]
    BY <1>3 DEF IsOsd, IsPlaced
  <2>2. c = primary /\ p = Where(a, s, f, screens[primary])
    BY <1>3 DEF IsPlaced
  <2>3. a = P(id, "position") /\ f = P(id, "offset")
    BY <1>3
  <2> HIDE DEF a, f, k, s, p, c
  <2>4. third = [alignment |-> a, offset |-> f, skin |-> skin, size |-> s, position |-> p,
            screen |-> c]
    BY <2>1
  <2> QED
    BY <2>2, <2>3, <2>4 DEF IsPlaced, IsOsd
<1> HIDE DEF third, size
<1>5. /\ IsPlaced(last) /\ last.size = size /\ last.skin = skin
      /\ last.alignment = P(id, "position") /\ last.offset = P(id, "offset")
  BY <1>4, Changed
<1> HIDE DEF last
<1> QED
  BY <1>1, <1>5 DEF size, skin

(* A new OSD is placed on the primary screen, and there is one. *)
LEMMA NewOsdIs ==
  ASSUME ScreenInv PROVE IsPlaced(NewOsd) /\ NewOsd.skin = ""
<1> DEFINE a == <<"bottom", "center">>
           f == <<0, -100>>
           s == <<0, 0>>
           k == ""
           first == [alignment |-> a, offset |-> f, skin |-> k, size |-> s, position |-> s,
                     screen |-> NoScreen]
           second == [alignment |-> a, offset |-> f, skin |-> k, size |-> s, position |-> s,
                      screen |-> primary]
           new == UpdatePosition(second, screens[primary])
<1>1. NewOsd = new
  <2>1. NoScreen # primary
    BY DEF ScreenInv
  <2>2. [first EXCEPT !.screen = primary] = second
    <3> HIDE DEF a, f, s, k
    <3> QED
      OBVIOUS
  <2>3. NewOsd = UpdatePosition([first EXCEPT !.screen = primary], screens[primary])
    <3>1. NewOsd = UpdatePrimaryScreen(first, primary, screens)
      BY DEF NewOsd
    <3>2. first.screen = NoScreen
      <4> HIDE DEF a, f, s, k
      <4> QED
        OBVIOUS
    <3> HIDE DEF first
    <3> QED
      BY <2>1, <3>1, <3>2 DEF UpdatePrimaryScreen
  <2> QED
    BY <2>2, <2>3
<1> HIDE DEF a, f, s, k
<1>2. IsOsd(second) /\ second.screen = primary /\ second.skin = k
  BY DEF IsOsd
<1>3. new = UpdatePosition(second, screens[primary])
  OBVIOUS
<1> HIDE DEF second, new
<1>4. /\ IsOsd(new) /\ new.position = Where(new.alignment, new.size, new.offset, screens[primary])
      /\ new.skin = second.skin /\ new.screen = second.screen
  BY <1>2, <1>3, Moved
<1>5. IsPlaced(new) /\ new.skin = k
  BY <1>2, <1>4 DEF IsPlaced
<1> QED
  BY <1>1, <1>5 DEF k

(* The values of entities, and the sizes of skins, depend on the            *)
(* configuration and on what is loaded.                                     *)
LEMMA SameValues ==
  ASSUME UNCHANGED <<config, pool>>
  PROVE  /\ \A id, key : P(id, key)' = P(id, key)
         /\ \A skin, ready : SkinSize(skin, ready)' = SkinSize(skin, ready)
         /\ \A type : OfType(type)' = OfType(type)
<1>1. \A id : Record(id)' = Record(id)
  BY SameFile
<1>2. \A id, key : P(id, key)' = P(id, key)
  BY <1>1 DEF P, ValueIn
<1>3. \A skin, ready : SkinSize(skin, ready)' = SkinSize(skin, ready)
  BY <1>2 DEF SkinSize
<1> QED
  BY <1>2, <1>3 DEF OfType

(* A skin that was read is in the pool, and is a skin. *)
LEMMA SkinIsRead ==
  ASSUME NEW record, NEW types, AllRead(record, "osd", types)
  PROVE  LET skin == Result(Read(record, "osd", "skin", types))
         IN  skin \in DOMAIN types /\ types[skin] \in Skins
<1> DEFINE results == Read(record, "osd", "skin", types)
<1>1. "skin" \in DOMAIN Parameters["osd"] /\ Parameters["osd"]["skin"] = Required("skin")
  <2>1. "skin" \in DOMAIN Parameters.osd /\ Parameters.osd["skin"] = Required("skin")
    BY DEF Parameters
  <2> QED
    BY <2>1
<1>2. results # {}
  BY <1>1 DEF AllRead, Succeeds
<1>3. results \subseteq {id \in DOMAIN types : types[id] \in Skins}
  <2>1. \A w : ParseConfigValue("skin", w,
            types) = {id \in AsString(w) \cap DOMAIN types : types[id] \in Skins}
    BY DEF ParseConfigValue
  <2> QED
    BY <1>1, <2>1 DEF Read, Required, Parameter
<1> HIDE DEF results
<1>4. Result(results) \in results
  BY <1>2 DEF Result
<1> QED
  BY <1>3, <1>4 DEF results

(* No built-in entity is an OSD, an icon or a skin. *)
LEMMA BuiltinTypes ==
  /\ \A id \in DOMAIN Builtins : Builtins[id] \notin {"osd", "tray_icon"} \cup Skins
  /\ "" \notin DOMAIN Builtins
<1>1. DOMAIN Builtins = {"app", "brightness", "heos", "keyboard", "volume", "volume_icon"}
  BY DEF Builtins
<1>2. \A id \in DOMAIN Builtins :
        Builtins[id] \in {"app", "setting", "heos", "keyboard", "standard_tray_icon"}
  BY DEF Builtins
<1> QED
  BY <1>1, <1>2 DEF Skins

(* What OSDs and icons depend on. *)
Displays == <<osds, shown, messages, traySize, cachedTraySize, screenVars, settingVars>>

(* Steps that change nothing an OSD or an icon depends on. *)
LEMMA DisplaysStay ==
  ASSUME IInv, ScreenInv, TrayInv, DisplayInv, config' = config, UNCHANGED Displays,
         \/ UNCHANGED <<pc, pool, loaded>>
         \/ pc' \notin {"check", "create", "load", "exec"}
         \/ pc = "check" /\ pc' \in {"create", "exec"} /\ UNCHANGED <<pool, loaded>>
  PROVE  ScreenInv' /\ TrayInv' /\ DisplayInv'
<1>1. UNCHANGED <<osds, shown, messages, traySize, cachedTraySize, screens, primary, initialized>>
  BY DEF Displays, screenVars, settingVars
<1>2. ScreenInv'
  BY <1>1 DEF ScreenInv, IsPlaced
<1>3. TrayInv'
  BY <1>1 DEF TrayInv, News
<1>4. CASE UNCHANGED <<pc, pool, loaded>>
  <2>1. \A id : HasLoaded(id)' <=> HasLoaded(id)
    BY <1>1, <1>4, SameValues DEF HasLoaded
  <2>2. DisplayInv'
    BY <1>1, <1>4, <2>1, SameValues DEF DisplayInv
  <2> QED
    BY <1>2, <1>3, <2>2
<1>5. CASE pc' \notin {"check", "create", "load", "exec"}
  BY <1>2, <1>3, <1>5 DEF DisplayInv
<1>6. CASE pc = "check" /\ pc' \in {"create", "exec"} /\ UNCHANGED <<pool, loaded>>
  <2>1. pool' = Builtins /\ osds' = <<>> /\ shown' = <<>>
    BY <1>1, <1>6 DEF IInv, PoolInv, DisplayInv
  <2>2. OfType("osd")' = {} /\ OfType("tray_icon")' = {}
    BY <2>1, BuiltinTypes DEF OfType
  <2>3. DOMAIN osds' = {} /\ DOMAIN shown' = {}
    BY <2>1
  <2>4. DisplayInv'
    BY <1>6, <2>2, <2>3 DEF DisplayInv
  <2> QED
    BY <1>2, <1>3, <2>4
<1> QED
  BY <1>4, <1>5, <1>6

(* The actions that are such steps. *)
LEMMA DisplaysStayInSteps ==
  ASSUME IInv, ScreenInv, TrayInv, DisplayInv,
         \/ InstallBufferLogger \/ InitializePlatform \/ RefuseArguments \/ ParseArguments
         \/ RunHelp \/ RunVersion \/ ListKeys \/ OpenLog \/ LoadConfig \/ Catch \/ CleanUp
         \/ CheckIds \/ CannotCreate \/ CannotLoad \/ Quit \/ WindowsChange \/ UNCHANGED vars
  PROVE  ScreenInv' /\ TrayInv' /\ DisplayInv'
<1>1. CASE \/ InstallBufferLogger \/ InitializePlatform \/ RefuseArguments \/ ParseArguments
           \/ RunHelp \/ RunVersion \/ ListKeys \/ OpenLog \/ LoadConfig \/ Catch \/ CleanUp
           \/ CannotCreate \/ CannotLoad \/ Quit
  <2>1. UNCHANGED <<config, Displays>> /\ pc' \notin {"check", "create", "load", "exec"}
    BY <1>1 DEF InstallBufferLogger, InitializePlatform, RefuseArguments, ParseArguments, Mode,
                RunHelp, RunVersion, ListKeys, OpenLog, LoadConfig, Catch, CleanUp, Quit,
                CannotCreate, CannotLoad, PartOfLoad,
                GoTo, Throw, worldVars, entityVars, desktopVars, trayVars, Displays
  <2> QED
    BY <2>1, DisplaysStay
<1>2. CASE CheckIds
  <2>1. /\ pc = "check" /\ UNCHANGED <<config, Displays, pool, loaded>>
        /\ pc' \in {"create", "exec", "close"}
    BY <1>2 DEF CheckIds, Return, Refused, GoTo, worldVars, entityVars, desktopVars, trayVars,
       Displays
  <2> QED
    BY <2>1, DisplaysStay
<1>3. CASE WindowsChange
  <2>1. UNCHANGED <<pc, config, Displays, pool, loaded>>
    BY <1>3 DEF WindowsChange, ChangeWindows, Acts, entityVars, trayVars, Displays
  <2> QED
    BY <2>1, DisplaysStay
<1>4. CASE UNCHANGED vars
  <2>1. UNCHANGED <<pc, config, Displays, pool, loaded>>
    BY <1>4 DEF vars, worldVars, entityVars, desktopVars, trayVars, Displays
  <2> QED
    BY <2>1, DisplaysStay
<1> QED
  BY <1>1, <1>2, <1>3, <1>4

(* The new pool has no OSD and no icon. *)
LEMMA MakePoolDisplays ==
  ASSUME IInv, ScreenInv, TrayInv, DisplayInv, MakePool \/ ListEntities
  PROVE  ScreenInv' /\ TrayInv' /\ DisplayInv'
<1>1. /\ pc \in {"pool", "list"} /\ pc' \in {"check", "close"}
      /\ UNCHANGED <<osds, shown, messages, traySize, cachedTraySize, screens, primary>>
  BY DEF MakePool, ListEntities, GoTo, CreateBuiltins, screenVars
<1>2. osds = <<>> /\ shown = <<>>
  BY <1>1 DEF IInv, CleanInv, Nothing, Early
<1>3. ScreenInv' /\ TrayInv'
  BY <1>1 DEF ScreenInv, IsPlaced, TrayInv, News
<1> QED
  BY <1>1, <1>2, <1>3 DEF DisplayInv

(* Destroyed entities take their windows and icons with them. *)
LEMMA DestroyDisplays ==
  ASSUME IInv, ScreenInv, TrayInv, DisplayInv, Erase \/ ClosePool
  PROVE  ScreenInv' /\ TrayInv' /\ DisplayInv'
<1>1. PICK ids : DestroyEntities(ids)
  BY DEF Erase, ClosePool
<1>2. /\ pc' \in {"close", "caught", "cleanup"} /\ UNCHANGED <<screens, primary>>
  BY DEF Erase, Refused, ClosePool, screenVars
<1>3. /\ UNCHANGED <<messages, traySize, cachedTraySize>>
      /\ \A id \in DOMAIN osds' : id \in DOMAIN osds /\ osds'[id] = osds[id]
      /\ \A id \in DOMAIN shown' : id \in DOMAIN shown /\ shown'[id] = shown[id]
  BY <1>1 DEF DestroyEntities, Forget
<1>4. ScreenInv'
  BY <1>2, <1>3 DEF ScreenInv, IsPlaced
<1>5. TrayInv'
  BY <1>3 DEF TrayInv, News
<1> QED
  BY <1>2, <1>4, <1>5 DEF DisplayInv

(* A new OSD is placed; a new icon is not shown yet. *)
LEMMA CreateNextDisplays ==
  ASSUME IInv, IInv', ScreenInv, TrayInv, DisplayInv, CreateNext
  PROVE  ScreenInv' /\ TrayInv' /\ DisplayInv'
<1> DEFINE cur == Current
<1>1. /\ pc = "create" /\ pc' \in {"create", "load"}
      /\ UNCHANGED <<config, messages, traySize, cachedTraySize, screens, primary, initialized,
             loaded>>
      /\ CreateEntity(cur, TypeOf(Record(cur)))
  BY DEF CreateNext, Continue, GoTo, CreateEntity, screenVars, settingVars
<1>2. Current \in Ids
  BY <1>1, Progress
<1>3. /\ pool' = With(pool, cur, Types[cur])
      /\ osds' = IF Types[cur] = "osd" THEN With(osds, cur, NewOsd) ELSE osds
      /\ shown' = IF Types[cur] = "tray_icon" THEN With(shown, cur, 0) ELSE shown
  BY <1>1, <1>2, TypesOf DEF CreateEntity
<1> HIDE DEF cur
<1>4. loaded = {} /\ AreTypes(pool)
  BY <1>1 DEF IInv, PoolInv
<1>5. /\ DOMAIN pool' = DOMAIN pool \cup {cur}
      /\ \A id \in DOMAIN pool : pool[id] = Types[id]
      /\ \A id \in DOMAIN pool' : pool'[id] = Types[id]
  BY <1>3, <1>4 DEF With, AreTypes
<1>6. \A type : OfType(type)' = IF Types[cur] = type THEN OfType(type) \cup {cur} ELSE OfType(type)
  BY <1>5 DEF OfType
<1>7. /\ DOMAIN osds' = IF Types[cur] = "osd" THEN DOMAIN osds \cup {cur} ELSE DOMAIN osds
      /\ DOMAIN shown' = IF Types[cur] = "tray_icon" THEN DOMAIN shown \cup {cur} ELSE DOMAIN shown
      /\ \A id \in DOMAIN osds' : osds'[id] = NewOsd \/ (id \in DOMAIN osds /\ osds'[id] = osds[id])
      /\ \A id \in DOMAIN shown' : shown'[id] = 0 \/ (id \in DOMAIN shown /\ shown'[id] = shown[id])
  BY <1>3 DEF With
<1>8. IsPlaced(NewOsd) /\ NewOsd.skin = ""
  BY NewOsdIs
<1>9. ScreenInv'
  <2>1. \A id \in DOMAIN osds' : IsPlaced(osds'[id])
    BY <1>7, <1>8 DEF ScreenInv
  <2> QED
    BY <1>1, <2>1 DEF ScreenInv, IsPlaced
<1>10. TrayInv'
  BY <1>1, <1>7 DEF TrayInv, News, NoTraySize
<1>11. DisplayInv'
  <2>1. DOMAIN osds' = OfType("osd")' /\ DOMAIN shown' = OfType("tray_icon")'
    BY <1>1, <1>6, <1>7 DEF DisplayInv
  <2>2. \A id \in DOMAIN osds' : osds'[id].skin = ""
    BY <1>1, <1>4, <1>7, <1>8 DEF DisplayInv
  <2>3. loaded' = {}
    BY <1>1, <1>4
  <2> QED
    BY <1>1, <2>1, <2>2, <2>3 DEF DisplayInv
<1> QED
  BY <1>9, <1>10, <1>11

(* updateIcon() paints an icon if its setting is initialized. *)
LEMMA IconsUpdated ==
  ASSUME NEW ids, NEW ready, NEW size, UpdateIcons(ids, ready, size)
  PROVE  /\ DOMAIN shown' = DOMAIN shown
         /\ \A id \in DOMAIN shown :
                shown'[id] = IF id \in ids THEN IF P(id,
                    "target") \in ready THEN size ELSE 0 ELSE shown[id]
BY DEF UpdateIcons

(* A loaded OSD has its values and a loaded icon is shown if it can; a      *)
(* loaded skin has its size for the OSDs that are loaded after it and for   *)
(* those before.                                                            *)
LEMMA LoadNextDisplays ==
  ASSUME IInv, IInv', ScreenInv, TrayInv, DisplayInv, LoadNext
  PROVE  ScreenInv' /\ TrayInv' /\ DisplayInv'
<1> DEFINE cur == Current
<1>1. /\ pc = "load" /\ pc' \in {"load", "exec"} /\ LoadEntity(cur) /\ ~LoadFails(cur)
      /\ UNCHANGED <<config, pool, messages, traySize, cachedTraySize, screens, primary,
             initialized>>
      /\ loaded' = loaded \cup {cur}
  BY DEF LoadNext, Continue, GoTo, Return, LoadEntity, screenVars, settingVars, trayVars
<1>2. cur \in Ids /\ pool = Types /\ cur \in DOMAIN pool /\ "" \notin Ids
          /\ cur \notin DOMAIN Builtins
  BY <1>1, Progress, PoolIsTypes, TypesOf DEF IInv, PoolInv
<1> HIDE DEF cur
<1>3. /\ DOMAIN osds' = DOMAIN osds /\ DOMAIN shown' = DOMAIN shown
      /\ \/ /\ pool[cur] \in Skins /\ shown' = shown
            /\ \A id \in DOMAIN osds : osds'[id] =
                    IF osds[id].skin = cur
                    THEN Change(osds[id], "size", SkinSize(cur, loaded \cup {cur})) ELSE osds[id]
         \/ /\ pool[cur] = "osd" /\ shown' = shown
            /\ \A id \in DOMAIN osds : osds'[id] = IF id = cur THEN LoadedOsd(cur) ELSE osds[id]
         \/ /\ pool[cur] = "tray_icon" /\ osds' = osds
            /\ \A id \in DOMAIN shown : shown'[id] =
                    IF id = cur THEN IF P(id, "target") \in initialized THEN TrayIconSize ELSE 0
                    ELSE shown[id]
         \/ /\ pool[cur] \notin {"osd", "tray_icon"} \cup Skins
            /\ shown' = shown /\ osds' = osds
  <2>1. CASE pool[cur] = "hotkey"
    <3>1. LoadHotkey(cur)
      BY <1>1, <2>1 DEF LoadEntity, Skins
    <3> QED
      BY <2>1, <3>1 DEF LoadHotkey, Skins
  <2>2. CASE pool[cur] \in Skins
    <3>1. LoadSkin(cur)
      BY <1>1, <2>2 DEF LoadEntity, Skins
    <3> QED
      BY <2>2, <3>1 DEF LoadSkin, ResizeOsds
  <2>3. CASE pool[cur] = "osd"
    <3>1. LoadOsd(cur)
      BY <1>1, <2>3 DEF LoadEntity, Skins
    <3> QED
      BY <2>3, <3>1 DEF LoadOsd
  <2>4. CASE pool[cur] = "tray_icon"
    <3>1. LoadTrayIcon(cur)
      BY <1>1, <2>4 DEF LoadEntity, Skins
    <3> QED
      BY <2>4, <3>1, IconsUpdated DEF LoadTrayIcon
  <2>5. CASE pool[cur] = "win10"
    <3>1. LoadWin10(cur)
      BY <1>1, <2>5 DEF LoadEntity, Skins
    <3> QED
      BY <2>5, <3>1 DEF LoadWin10, Skins
  <2>6. CASE pool[cur] \notin {"hotkey", "osd", "tray_icon", "win10"} \cup Skins
    <3>1. LoadOther(cur)
      BY <1>1, <2>6 DEF LoadEntity, Skins
    <3> QED
      BY <2>6, <3>1 DEF LoadOther
  <2> QED
    BY <2>1, <2>2, <2>3, <2>4, <2>5, <2>6
<1>4. \A id \in DOMAIN osds :
        /\ IsPlaced(osds[id])
        /\ id \in OfType("osd")
        /\ IF id \in loaded THEN HasLoaded(id) ELSE osds[id].skin = ""
  BY <1>1 DEF ScreenInv, DisplayInv
<1>5. \A id \in DOMAIN osds : IsPlaced(osds'[id])
  <2> SUFFICES ASSUME NEW id \in DOMAIN osds PROVE IsPlaced(osds'[id])
    OBVIOUS
  <2>1. IsPlaced(osds[id])
    BY <1>4
  <2>2. IsPlaced(Change(osds[id], "size", SkinSize(cur, loaded \cup {cur})))
    BY <2>1, Changed
  <2>3. id = cur => IsPlaced(LoadedOsd(cur))
    BY <2>1, LoadedOsdIs
  <2> QED
    BY <1>3, <2>1, <2>2, <2>3
<1>6. ScreenInv'
  BY <1>1, <1>3, <1>5 DEF ScreenInv, IsPlaced
<1>7. TrayInv'
  <2>1. \A id \in DOMAIN shown : shown'[id] \in {0, TrayIconSize, shown[id]}
    BY <1>3
  <2>2. cachedTraySize # NoTraySize => TrayIconSize = cachedTraySize
    BY DEF TrayIconSize
  <2>3. ~News => TrayIconSize = traySize
    BY DEF TrayIconSize, TrayInv
  <2>4. cachedTraySize # NoTraySize => \A id \in DOMAIN shown' : shown'[id] \in {0, cachedTraySize}
    BY <1>3, <2>1, <2>2 DEF TrayInv
  <2>5. ~News => \A id \in DOMAIN shown' : shown'[id] \in {0, traySize}
    BY <1>3, <2>1, <2>3 DEF TrayInv
  <2> QED
    BY <1>1, <2>4, <2>5 DEF TrayInv, News
<1>8. \A id, key : P(id, key)' = P(id, key)
  BY <1>1, SameValues
<1>9. \A skin, ready : SkinSize(skin, ready)' = SkinSize(skin, ready)
  BY <1>1, SameValues
<1>10. \A skin : skin # cur => SkinSize(skin, loaded \cup {cur}) = SkinSize(skin, loaded)
  BY DEF SkinSize
<1>11. \A id \in DOMAIN osds : IF id \in loaded' THEN HasLoaded(id)' ELSE osds'[id].skin = ""
  <2> SUFFICES ASSUME NEW id \in DOMAIN osds
               PROVE  IF id \in loaded' THEN HasLoaded(id)' ELSE osds'[id].skin = ""
    OBVIOUS
  <2>1. HasLoaded(id)' <=>
            /\ osds'[id].alignment = P(id, "position") /\ osds'[id].offset = P(id, "offset")
            /\ osds'[id].skin = P(id, "skin") /\ pool[osds'[id].skin] \in Skins
            /\ osds'[id].skin \in DOMAIN pool
            /\ osds'[id].size = SkinSize(osds'[id].skin, loaded')
    BY <1>1, <1>8, <1>9 DEF HasLoaded
  <2>2. CASE pool[cur] \in Skins
    <3>1. id # cur
      BY <1>4, <2>2 DEF OfType, Skins
    <3>2. CASE osds[id].skin = cur
      <4> DEFINE new == Change(osds[id], "size", SkinSize(cur, loaded \cup {cur}))
      <4>1. osds'[id] = new
        BY <1>3, <2>2, <3>2 DEF Skins
      <4>2. /\ new.size = SkinSize(cur, loaded \cup {cur}) /\ new.skin = osds[id].skin
            /\ new.alignment = osds[id].alignment /\ new.offset = osds[id].offset
        <5>1. IsPlaced(osds[id])
          BY <1>4
        <5>2. /\ new["size"] = SkinSize(cur, loaded \cup {cur}) /\ new.skin = osds[id].skin
              /\ \A other \in {"alignment", "offset", "size"} :
                    other # "size" => new[other] = osds[id][other]
          BY <5>1, Changed
        <5> QED
          BY <5>2
      <4> HIDE DEF new
      <4>3. id \in loaded /\ HasLoaded(id)
        BY <1>2, <1>4, <3>2
      <4> QED
        BY <1>1, <2>1, <3>2, <4>1, <4>2, <4>3 DEF HasLoaded
    <3>3. CASE osds[id].skin # cur
      <4>1. osds'[id] = osds[id]
        BY <1>3, <2>2, <3>3 DEF Skins
      <4> QED
        BY <1>1, <1>4, <1>10, <2>1, <3>1, <3>3, <4>1 DEF HasLoaded
    <3> QED
      BY <3>2, <3>3
  <2>3. CASE pool[cur] \notin Skins /\ id # cur
    <3>1. osds'[id] = osds[id]
      BY <1>3, <2>3
    <3>2. CASE id \in loaded
      <4>1. HasLoaded(id) /\ osds[id].skin # cur
        BY <1>4, <2>3, <3>2 DEF HasLoaded
      <4> QED
        BY <1>1, <1>10, <2>1, <3>1, <3>2, <4>1 DEF HasLoaded
    <3>3. CASE id \notin loaded
      BY <1>1, <1>4, <2>3, <3>1, <3>3
    <3> QED
      BY <3>2, <3>3
  <2>4. CASE pool[cur] \notin Skins /\ id = cur
    <3>1. pool[cur] = "osd" /\ IsPlaced(osds[cur])
      BY <1>4, <2>4 DEF OfType
    <3>2. osds'[id] = LoadedOsd(cur)
      BY <1>3, <2>4, <3>1 DEF Skins
    <3>3. P(cur, "skin") \in DOMAIN pool /\ pool[P(cur, "skin")] \in Skins
      <4>1. AllRead(Record(cur), "osd", pool)
        BY <1>1, <3>1 DEF LoadFails, IsRefused
      <4> QED
        BY <3>1, <4>1, SkinIsRead DEF P, ValueIn
    <3>4. P(cur, "skin") # cur
      BY <2>4, <3>3
    <3>5. /\ LoadedOsd(cur).alignment = P(cur, "position") /\ LoadedOsd(cur).offset = P(cur,
                 "offset")
          /\ LoadedOsd(cur).skin = P(cur, "skin")
          /\ LoadedOsd(cur).size = SkinSize(P(cur, "skin"), loaded)
      BY <3>1, LoadedOsdIs
    <3> QED
      BY <1>1, <1>10, <2>1, <2>4, <3>2, <3>3, <3>4, <3>5
  <2> QED
    BY <2>2, <2>3, <2>4
<1>12. \A id \in DOMAIN shown \cap loaded' : shown'[id] = 0 <=> P(id, "target") \notin initialized
  <2> SUFFICES ASSUME NEW id \in DOMAIN shown, id \in loaded'
               PROVE  shown'[id] = 0 <=> P(id, "target") \notin initialized
    OBVIOUS
  <2>1. pool[id] = "tray_icon"
    BY <1>1 DEF DisplayInv, OfType
  <2>2. CASE id = cur
    <3>1. shown'[id] = IF P(id, "target") \in initialized THEN TrayIconSize ELSE 0
      BY <1>3, <2>1, <2>2 DEF Skins
    <3>2. TrayIconSize # 0
      BY DEF TrayIconSize, TrayInv, NoTraySize
    <3> QED
      BY <3>1, <3>2
  <2>3. CASE id # cur
    <3>1. shown'[id] = shown[id] /\ id \in loaded
      BY <1>1, <1>3, <2>3
    <3> QED
      BY <1>1, <3>1 DEF DisplayInv
  <2> QED
    BY <2>2, <2>3
<1>13. DisplayInv'
  <2>1. DOMAIN osds' = OfType("osd")' /\ DOMAIN shown' = OfType("tray_icon")'
    BY <1>1, <1>3 DEF DisplayInv, OfType
  <2> QED
    BY <1>1, <1>3, <1>8, <1>11, <1>12, <2>1 DEF DisplayInv
<1> QED
  BY <1>6, <1>7, <1>13

(* A message is posted behind the others. *)
LEMMA Posting ==
  ASSUME TrayInv, NEW m \in Posted, messages' = Append(messages, m)
  PROVE  /\ messages' \in Seq(Posted) /\ (News => News') /\ (IsNews(m) => News')
         /\ \A i \in DOMAIN messages' : messages'[i] = m \/ (i \in DOMAIN messages
                /\ messages'[i] = messages[i])
<1>1. /\ messages \in Seq(Posted) /\ Len(messages) \in Nat /\ DOMAIN messages = 1..Len(messages)
      /\ messages' \in Seq(Posted) /\ DOMAIN messages' = 1..Len(messages) + 1
      /\ messages'[Len(messages) + 1] = m
      /\ \A i \in 1..Len(messages) : messages'[i] = messages[i]
  BY DEF TrayInv
<1>2. \A i \in DOMAIN messages' : messages'[i] = m \/ (i \in DOMAIN messages
          /\ messages'[i] = messages[i])
  BY <1>1
<1>3. News => News'
  <2> SUFFICES ASSUME NEW i \in DOMAIN messages, IsNews(messages[i]) PROVE News'
    BY DEF News
  <2>1. i \in DOMAIN messages' /\ messages'[i] = messages[i]
    BY <1>1
  <2> QED
    BY <2>1 DEF News, IsNews
<1>4. IsNews(m) => News'
  <2>1. Len(messages) + 1 \in DOMAIN messages'
    BY <1>1
  <2> QED
    BY <1>1, <2>1 DEF News, IsNews
<1> QED
  BY <1>1, <1>2, <1>3, <1>4

(* The first message is taken; news are lost only by taking news. *)
LEMMA Taking ==
  ASSUME TrayInv, NEW kind, TakeMessage(kind)
  PROVE  /\ messages' \in Seq(Posted) /\ Head(messages) \in Posted /\ Head(messages).kind = kind
         /\ Head(messages) = messages[1] /\ 1 \in DOMAIN messages
         /\ \A i \in DOMAIN messages' : i + 1 \in DOMAIN messages /\ messages'[i] = messages[i + 1]
         /\ kind # "taskbar" => (News => News')
<1>1. /\ messages \in Seq(Posted) /\ Len(messages) \in Nat \ {0}
             /\ DOMAIN messages = 1..Len(messages)
      /\ messages' \in Seq(Posted) /\ DOMAIN messages' = 1..Len(messages) - 1
      /\ \A i \in 1..Len(messages) - 1 : messages'[i] = messages[i + 1]
      /\ Head(messages) = messages[1] /\ Head(messages).kind = kind
  BY DEF TrayInv, TakeMessage
<1>2. \A i \in DOMAIN messages' : i + 1 \in DOMAIN messages /\ messages'[i] = messages[i + 1]
  BY <1>1
<1>3. ASSUME kind # "taskbar", News PROVE News'
  <2>1. PICK i \in DOMAIN messages : IsNews(messages[i])
    BY <1>3 DEF News
  <2>2. i # 1
    BY <1>1, <1>3, <2>1 DEF IsNews
  <2>3. i - 1 \in DOMAIN messages' /\ messages'[i - 1] = messages[i]
    BY <1>1, <2>2
  <2> QED
    BY <2>1, <2>3 DEF News, IsNews
<1>4. 1 \in DOMAIN messages /\ messages[1] \in Posted
  BY <1>1
<1> QED
  BY <1>1, <1>2, <1>3, <1>4

(* In the event loop everything is loaded. *)
LEMMA AllAreLoaded ==
  ASSUME IInv, DisplayInv, pc = "exec"
  PROVE  /\ \A id \in OfType("osd") \cup OfType("tray_icon") : id \in loaded
         /\ Loaded("tray_icon") = DOMAIN shown
         /\ \A id \in DOMAIN pool : pool[id] \in Skins => id \in loaded
<1>1. /\ pool = Types /\ loaded = Ids /\ DOMAIN pool = DOMAIN Builtins \cup Ids
      /\ Ids \cap DOMAIN Builtins = {}
  BY PoolIsTypes DEF IInv, PoolInv
<1>2. \A id \in DOMAIN pool : pool[id] \in {"osd", "tray_icon"} \cup Skins => id \in Ids
  BY <1>1, TypesOf, BuiltinTypes
<1> QED
  BY <1>1, <1>2 DEF OfType, Loaded, DisplayInv

(* Steps that change only which icons are shown. *)
LEMMA SameDisplays ==
  ASSUME DisplayInv, UNCHANGED <<pc, config, pool, loaded, osds>>,
         DOMAIN shown' = DOMAIN shown,
         pc = "exec" => \A id \in DOMAIN shown \cap loaded :
                            shown'[id] = 0 <=> P(id, "target") \notin initialized',
         pc # "exec" => UNCHANGED <<shown, initialized>>
  PROVE  DisplayInv'
<1>1. \A id : HasLoaded(id)' <=> HasLoaded(id)
  BY SameValues DEF HasLoaded
<1>2. /\ \A id, key : P(id, key)' = P(id, key)
      /\ \A type : OfType(type)' = OfType(type)
  BY SameValues
<1>3. CASE pc = "exec"
  BY <1>1, <1>2, <1>3 DEF DisplayInv
<1>4. CASE pc # "exec"
  BY <1>1, <1>2, <1>4 DEF DisplayInv
<1> QED
  BY <1>3, <1>4

(* Messages, and what posts them. *)
LEMMA MessageDisplays ==
  ASSUME IInv, DInv,
         \/ UserPressesKey \/ UserTurnsWheel \/ DpiChanges
         \/ DispatchHotkey \/ ProcessInput \/ UpdateTrayIconSize
  PROVE  ScreenInv' /\ TrayInv' /\ DisplayInv'
<1>1. /\ UNCHANGED <<pc, config, pool, loaded, osds, screens, primary, initialized>>
      /\ pc \in {"load", "exec"}
  BY DEF UserPressesKey, UserTurnsWheel, DpiChanges, DispatchHotkey, ProcessInput,
     UpdateTrayIconSize,
         Posts, Acts, InEventLoop, GoTo, HandleHotkey, HandleInput, HandleTaskbarCreated, Invoke,
         entityVars, settingVars, screenVars
<1>2. ScreenInv'
  BY <1>1 DEF DInv, ScreenInv, IsPlaced
<1>3. ASSUME shown' = shown PROVE DisplayInv'
  BY <1>1, <1>3, SameDisplays DEF DInv, DisplayInv
<1>4. TrayInv
  BY DEF DInv
<1>5. CASE UserPressesKey \/ UserTurnsWheel
  <2>1. UNCHANGED <<shown, traySize, cachedTraySize>>
    BY <1>5 DEF UserPressesKey, UserTurnsWheel, Posts, PressKey, TurnWheel, entityVars, trayVars
  <2>2. PICK m \in Posted : messages' = Append(messages, m)
    <3>1. CASE UserPressesKey
      <4>1. PICK c \in PressedKeys, h \in hotKeys : Post(Message("hotkey", h.id, c))
        BY <3>1 DEF UserPressesKey, PressKey
      <4>2. Message("hotkey", h.id, c) \in Posted
        BY DEF Message, Posted, Kinds, DInv, IdInv
      <4> QED
        BY <4>1, <4>2 DEF Post
    <3>2. CASE UserTurnsWheel
      <4>1. PICK c \in TurnedWheels : Post(Message("input", 0, c))
        BY <3>2 DEF UserTurnsWheel, TurnWheel
      <4>2. Message("input", 0, c) \in Posted
        BY DEF Message, Posted, Kinds
      <4> QED
        BY <4>1, <4>2 DEF Post
    <3> QED
      BY <1>5, <3>1, <3>2
  <2>3. messages' \in Seq(Posted) /\ (News => News')
    BY <1>4, <2>2, Posting
  <2>4. TrayInv'
    BY <1>4, <2>1, <2>3 DEF TrayInv
  <2> QED
    BY <1>2, <1>3, <2>1, <2>4
<1>6. CASE DpiChanges
  <2>1. PICK size \in TraySizes : ChangeDpi(size)
    BY <1>6 DEF DpiChanges
  <2>2. UNCHANGED <<shown, cachedTraySize>> /\ traySize' = size
    BY <1>6, <2>1 DEF DpiChanges, Posts, ChangeDpi, entityVars
  <2> DEFINE m == Message("taskbar", 0, NoCombination)
  <2>3. m \in Posted /\ IsNews(m)
    BY DEF Message, Posted, Kinds, IsNews
  <2>4. messages' = Append(messages, m)
    BY <2>1 DEF ChangeDpi, Post
  <2> HIDE DEF m
  <2>5. messages' \in Seq(Posted) /\ News'
    BY <1>4, <2>3, <2>4, Posting
  <2>6. TrayInv'
    BY <1>4, <2>2, <2>5, EventsAssumption DEF TrayInv
  <2> QED
    BY <1>2, <1>3, <2>2, <2>6
<1>7. CASE DispatchHotkey \/ ProcessInput
  <2>1. UNCHANGED <<shown, traySize, cachedTraySize>>
    BY <1>7 DEF DispatchHotkey, ProcessInput, HandleHotkey, HandleInput, trayVars
  <2>2. TakeMessage("hotkey") \/ TakeMessage("input")
    BY <1>7 DEF DispatchHotkey, ProcessInput, HandleHotkey, HandleInput
  <2>3. messages' \in Seq(Posted) /\ (News => News')
    BY <1>4, <2>2, Taking
  <2>4. TrayInv'
    BY <1>4, <2>1, <2>3 DEF TrayInv
  <2> QED
    BY <1>2, <1>3, <2>1, <2>4
<1>8. CASE UpdateTrayIconSize
  <2>1. /\ pc = "exec" /\ TakeMessage("taskbar") /\ cachedTraySize' = traySize
               /\ traySize' = traySize
        /\ \/ cachedTraySize # traySize /\ UpdateIcons(Loaded("tray_icon"), initialized, traySize)
           \/ cachedTraySize = traySize /\ shown' = shown
    BY <1>8 DEF UpdateTrayIconSize, HandleTaskbarCreated, InEventLoop, SizeIsNew
  <2>2. messages' \in Seq(Posted)
    BY <1>4, <2>1, Taking
  <2>3. CASE cachedTraySize = traySize /\ shown' = shown
    <3>1. TrayInv'
      BY <1>4, <2>1, <2>2, <2>3 DEF TrayInv
    <3> QED
      BY <1>2, <1>3, <2>3, <3>1
  <2>4. CASE UpdateIcons(Loaded("tray_icon"), initialized, traySize)
    <3>1. Loaded("tray_icon") = DOMAIN shown
      BY <2>1, AllAreLoaded DEF DInv
    <3>2. /\ DOMAIN shown' = DOMAIN shown
          /\ \A id \in DOMAIN shown :
                shown'[id] = IF P(id, "target") \in initialized THEN traySize ELSE 0
      BY <2>4, <3>1, IconsUpdated
    <3>3. TrayInv'
      BY <1>4, <2>1, <2>2, <3>2 DEF TrayInv
    <3>4. traySize # 0
      BY <1>4 DEF TrayInv, NoTraySize
    <3>5. DisplayInv'
      BY <1>1, <2>1, <3>2, <3>4, SameDisplays DEF DInv
    <3> QED
      BY <1>2, <3>3, <3>5
  <2> QED
    BY <2>1, <2>3, <2>4
<1> QED
  BY <1>5, <1>6, <1>7, <1>8

(* Steps that change only where OSDs are. *)
LEMMA OsdsMoved ==
  ASSUME DisplayInv, pc = "exec", UNCHANGED <<pc, config, pool, loaded, shown, initialized>>,
         DOMAIN osds' = DOMAIN osds,
         \A id \in DOMAIN osds :
            /\ osds'[id].alignment = osds[id].alignment /\ osds'[id].offset = osds[id].offset
            /\ osds'[id].skin = osds[id].skin /\ osds'[id].size = osds[id].size
  PROVE  DisplayInv'
<1>1. \A id \in DOMAIN osds : HasLoaded(id) => HasLoaded(id)'
  BY SameValues DEF HasLoaded
<1>2. DOMAIN osds' = OfType("osd")' /\ DOMAIN shown' = OfType("tray_icon")'
  BY SameValues DEF DisplayInv
<1>3. \A id \in DOMAIN osds' : IF id \in loaded' THEN HasLoaded(id)' ELSE osds'[id].skin = ""
  BY <1>1 DEF DisplayInv
<1>4. \A id, key : P(id, key)' = P(id, key)
  BY SameValues
<1>5. \A id \in DOMAIN shown' \cap loaded' : shown'[id] = 0 <=> P(id, "target")' \notin initialized'
  BY <1>4 DEF DisplayInv
<1> QED
  BY <1>2, <1>3, <1>5 DEF DisplayInv

(* Settings and screens change. *)
LEMMA ChangeDisplays ==
  ASSUME IInv, ScreenInv, TrayInv, DisplayInv,
         BackendChanges \/ PrimaryScreenChanges \/ GeometryChanges
  PROVE  ScreenInv' /\ TrayInv' /\ DisplayInv'
<1>1. /\ UNCHANGED <<pc, config, pool, loaded, messages, traySize, cachedTraySize>>
      /\ pc = "exec"
  BY DEF BackendChanges, PrimaryScreenChanges, GeometryChanges, Acts, SettingChanged,
         ChangePrimaryScreen, ChangeGeometry, desktopVars, trayVars
<1>2. CASE BackendChanges
  <2>1. PICK s \in OfType("setting") : SettingChanged(s)
    BY <1>2 DEF BackendChanges
  <2> DEFINE ids == {id \in Loaded("tray_icon") : P(id, "target") = s}
             ready == initialized \cup {s}
  <2>2. /\ initialized' = ready /\ UNCHANGED <<osds, screens, primary>>
        /\ UpdateIcons(ids, ready, TrayIconSize)
    BY <2>1 DEF SettingChanged, screenVars
  <2>3. Loaded("tray_icon") = DOMAIN shown
    BY <1>1, AllAreLoaded
  <2>4. /\ DOMAIN shown' = DOMAIN shown
        /\ \A id \in DOMAIN shown :
                shown'[id] = IF P(id, "target") = s THEN TrayIconSize ELSE shown[id]
    <3>1. /\ DOMAIN shown' = DOMAIN shown
          /\ \A id \in DOMAIN shown :
                shown'[id] = IF id \in ids THEN IF P(id,
                    "target") \in ready THEN TrayIconSize ELSE 0
                             ELSE shown[id]
      <4> HIDE DEF ids, ready
      <4> QED
        BY <2>2, IconsUpdated
    <3> QED
      BY <2>3, <3>1
  <2>5. TrayIconSize # 0
    BY DEF TrayIconSize, TrayInv, NoTraySize
  <2>6. TrayInv'
    <3>1. cachedTraySize # NoTraySize => TrayIconSize = cachedTraySize
      BY DEF TrayIconSize
    <3>2. ~News => TrayIconSize = traySize
      BY DEF TrayIconSize, TrayInv
    <3> QED
      BY <1>1, <2>4, <3>1, <3>2 DEF TrayInv, News
  <2>7. DisplayInv'
    <3>1. \A id \in DOMAIN shown \cap loaded : shown'[id] = 0 <=> P(id,
              "target") \notin initialized'
      BY <1>1, <2>2, <2>4, <2>5 DEF DisplayInv
    <3> QED
      BY <1>1, <2>2, <2>4, <3>1, SameDisplays
  <2>8. ScreenInv'
    BY <2>2 DEF ScreenInv, IsPlaced
  <2> QED
    BY <2>6, <2>7, <2>8
<1>3. CASE PrimaryScreenChanges
  <2>1. PICK s \in DOMAIN screens : ChangePrimaryScreen(s)
    BY <1>3 DEF PrimaryScreenChanges
  <2>2. /\ s # primary /\ primary' = s /\ UNCHANGED <<shown, screens, initialized>>
        /\ DOMAIN osds' = DOMAIN osds
        /\ \A id \in DOMAIN osds : osds'[id] = UpdatePrimaryScreen(osds[id], s, screens)
    BY <2>1 DEF ChangePrimaryScreen, settingVars
  <2>3. \A id \in DOMAIN osds :
            /\ IsOsd(osds'[id]) /\ osds'[id].screen = s
            /\ osds'[id].position = Where(osds'[id].alignment, osds'[id].size, osds'[id].offset,
                   screens[s])
            /\ osds'[id].alignment = osds[id].alignment /\ osds'[id].offset = osds[id].offset
            /\ osds'[id].skin = osds[id].skin /\ osds'[id].size = osds[id].size
    <3> SUFFICES ASSUME NEW id \in DOMAIN osds
                 PROVE  /\ IsOsd(osds'[id]) /\ osds'[id].screen = s
                        /\ osds'[id].position = Where(osds'[id].alignment, osds'[id].size,
                               osds'[id].offset, screens[s])
                        /\ osds'[id].alignment = osds[id].alignment
                               /\ osds'[id].offset = osds[id].offset
                        /\ osds'[id].skin = osds[id].skin /\ osds'[id].size = osds[id].size
      OBVIOUS
    <3> DEFINE o == [osds[id] EXCEPT !.screen = s]
               a == osds[id].alignment  f == osds[id].offset  k == osds[id].skin  z == osds[id].size
               p == osds[id].position  c == osds[id].screen
    <3>1. osds[id] = [alignment |-> a, offset |-> f, skin |-> k, size |-> z, position |-> p,
              screen |-> c]
      BY DEF ScreenInv, IsPlaced, IsOsd
    <3>2. osds'[id] = UpdatePosition(o, screens[s])
      BY <2>2 DEF UpdatePrimaryScreen, ScreenInv, IsPlaced
    <3>3. IsOsd(o) /\ o.screen = s /\ o.alignment = a /\ o.offset = f /\ o.skin = k /\ o.size = z
      <4> HIDE DEF a, f, k, z, p, c
      <4>1. o = [alignment |-> a, offset |-> f, skin |-> k, size |-> z, position |-> p,
                screen |-> s]
        BY <3>1
      <4> HIDE DEF o
      <4> QED
        BY <4>1 DEF IsOsd
    <3> HIDE DEF o
    <3> QED
      BY <3>2, <3>3, Moved
  <2>4. ScreenInv'
    BY <2>2, <2>3 DEF ScreenInv, IsPlaced
  <2>5. TrayInv'
    BY <1>1, <2>2 DEF TrayInv, News
  <2>7. DisplayInv'
    BY <1>1, <2>2, <2>3, OsdsMoved
  <2> QED
    BY <2>4, <2>5, <2>7
<1>4. CASE GeometryChanges
  <2>1. PICK s \in DOMAIN screens, size \in ScreenSizes : ChangeGeometry(s, size)
    BY <1>4 DEF GeometryChanges
  <2>2. /\ primary' = primary /\ UNCHANGED <<shown, initialized>>
        /\ screens' = [screens EXCEPT ![s] = size]
        /\ DOMAIN osds' = DOMAIN osds
        /\ \A id \in DOMAIN osds :
                osds'[id] = IF osds[id].screen = s THEN UpdatePosition(osds[id],
                    screens'[primary]) ELSE osds[id]
    BY <2>1 DEF ChangeGeometry, settingVars
  <2>3. \A id \in DOMAIN osds :
            /\ IsOsd(osds'[id]) /\ osds'[id].screen = primary
            /\ osds'[id].position =
                    Where(osds'[id].alignment, osds'[id].size, osds'[id].offset, screens'[primary])
            /\ osds'[id].alignment = osds[id].alignment /\ osds'[id].offset = osds[id].offset
            /\ osds'[id].skin = osds[id].skin /\ osds'[id].size = osds[id].size
    <3> TAKE id \in DOMAIN osds
    <3>1. /\ IsOsd(osds[id]) /\ osds[id].screen = primary
          /\ osds[id].position =
                    Where(osds[id].alignment, osds[id].size, osds[id].offset, screens[primary])
      BY DEF ScreenInv, IsPlaced
    <3>2. CASE s = primary
      <4>1. osds'[id] = UpdatePosition(osds[id], screens'[primary])
        BY <2>2, <3>1, <3>2
      <4> QED
        BY <3>1, <4>1, Moved
    <3>3. CASE s # primary
      <4>1. osds'[id] = osds[id] /\ screens'[primary] = screens[primary]
        BY <2>2, <3>1, <3>3 DEF ScreenInv
      <4> QED
        BY <3>1, <4>1
    <3> QED
      BY <3>2, <3>3
  <2>4. ScreenInv'
    BY <2>2, <2>3 DEF ScreenInv, IsPlaced
  <2>5. TrayInv'
    BY <1>1, <2>2 DEF TrayInv, News
  <2>7. DisplayInv'
    BY <1>1, <2>2, <2>3, OsdsMoved
  <2> QED
    BY <2>4, <2>5, <2>7
<1> QED
  BY <1>2, <1>3, <1>4

(* Notifiers get the next id, and the message has the id of a hot key. *)
LEMMA IdsStay ==
  ASSUME IdInv, [Next]_vars PROVE IdInv'
<1>1. CASE UNCHANGED hotKeyVars
  BY <1>1 DEF IdInv, hotKeyVars
<1>2. ASSUME NEW id, NEW trigger, CreateShortcutNotifier(id, trigger) PROVE IdInv'
  <2>1. CASE CanNotify(trigger)
    <3>1. /\ hotKeys' = hotKeys \cup {[id |-> nextId, native |-> ConvertToNativeKey(trigger)]}
          /\ notifiers' = With(notifiers, nextId, id) /\ nextId' = nextId + 1
      BY <1>2, <2>1 DEF CreateShortcutNotifier
    <3>2. DOMAIN notifiers' = DOMAIN notifiers \cup {nextId}
      BY <3>1 DEF With
    <3>3. [id |-> nextId, native |-> ConvertToNativeKey(trigger)].id = nextId
      OBVIOUS
    <3> QED
      BY <3>1, <3>2, <3>3 DEF IdInv
  <2>2. CASE ~CanNotify(trigger)
    BY <1>1, <1>2, <2>2 DEF CreateShortcutNotifier
  <2> QED
    BY <2>1, <2>2
<1>3. ASSUME NEW ids, RemoveShortcutNotifiers(ids) PROVE IdInv'
  BY <1>3 DEF RemoveShortcutNotifiers, IdInv
<1>4. CASE LoadNext
  <2>1. LoadEntity(Current)
    BY <1>4 DEF LoadNext
  <2>2. UNCHANGED hotKeyVars \/ CreateShortcutNotifier(Current, P(Current, "trigger"))
    BY <2>1 DEF LoadEntity, LoadHotkey, LoadSkin, LoadOsd, LoadTrayIcon, LoadWin10, LoadOther
  <2> QED
    BY <1>1, <1>2, <2>2
<1>5. CASE CannotLoad
  <2>1. UNCHANGED hotKeyVars \/ CreateShortcutNotifier(Current, P(Current, "trigger"))
    BY <1>5 DEF CannotLoad, PartOfLoad
  <2> QED
    BY <1>1, <1>2, <2>1
<1>6. CASE Erase \/ ClosePool
  BY <1>3, <1>6 DEF Erase, ClosePool, DestroyEntities
<1>7. CASE \/ InstallBufferLogger \/ InitializePlatform \/ ParseArguments \/ RefuseArguments
           \/ RunHelp \/ RunVersion \/ ListEntities \/ ListKeys
           \/ OpenLog \/ LoadConfig \/ MakePool \/ CheckIds \/ CreateNext \/ CannotCreate
           \/ Quit \/ Catch \/ CleanUp
  <2>1. UNCHANGED hotKeyVars
    BY <1>7 DEF InstallBufferLogger, InitializePlatform, ParseArguments, RefuseArguments,
           RunHelp, RunVersion, ListEntities, ListKeys, OpenLog, LoadConfig, MakePool, CheckIds,
           CreateNext, CannotCreate, Quit, Catch, CleanUp, CreateBuiltins, CreateEntity,
           worldVars, desktopVars
  <2> QED
    BY <1>1, <2>1
<1>8. CASE \/ DispatchHotkey \/ ProcessInput \/ UpdateTrayIconSize
           \/ UserPressesKey \/ UserTurnsWheel \/ DpiChanges \/ WindowsChange
           \/ BackendChanges \/ PrimaryScreenChanges \/ GeometryChanges
           \/ Waits \/ Terminated \/ UNCHANGED vars
  <2>1. UNCHANGED hotKeyVars
    BY <1>8 DEF DispatchHotkey, ProcessInput, UpdateTrayIconSize, HandleHotkey, HandleInput, Invoke,
           HandleTaskbarCreated, UserPressesKey, UserTurnsWheel, DpiChanges, WindowsChange,
           PressKey, TurnWheel, ChangeDpi, ChangeWindows, BackendChanges, SettingChanged,
           PrimaryScreenChanges, ChangePrimaryScreen, GeometryChanges, ChangeGeometry,
           Waits, Terminated, vars, worldVars, desktopVars
  <2> QED
    BY <1>1, <2>1
<1> QED
  BY <1>4, <1>5, <1>6, <1>7, <1>8 DEF Next

(* At first there is nothing to show. *)
LEMMA DisplaysInit == Init => DInv
<1> SUFFICES ASSUME Init PROVE DInv
  OBVIOUS
<1>1. /\ pc = "start" /\ osds = <<>> /\ shown = <<>> /\ screens = Screens /\ primary = FirstScreen
      /\ messages = <<>> /\ traySize = 16 /\ cachedTraySize = NoTraySize
      /\ notifiers = <<>> /\ nextId = 1 /\ hotKeys = {}
  BY DEF Init, EntitiesInit, DesktopInit
<1>2. ScreenInv
  BY <1>1, ScreensAssumption DEF ScreenInv
<1>3. TrayInv
  BY <1>1 DEF TrayInv, NoTraySize
<1>4. DisplayInv /\ IdInv
  BY <1>1 DEF DisplayInv, IdInv
<1> QED
  BY <1>2, <1>3, <1>4 DEF DInv

(* The invariant of the displays is inductive relative to IInv. *)
LEMMA DisplaysStep == IInv /\ IInv' /\ DInv /\ [Next]_vars => DInv'
<1> SUFFICES ASSUME IInv, IInv', DInv, [Next]_vars PROVE DInv'
  OBVIOUS
<1>1. ScreenInv /\ TrayInv /\ DisplayInv /\ IdInv'
  BY IdsStay DEF DInv
<1>2. ASSUME Waits \/ Terminated PROVE UNCHANGED vars
  BY <1>2 DEF Waits, Terminated
<1>3. ScreenInv' /\ TrayInv' /\ DisplayInv'
  BY <1>1, <1>2, DisplaysStayInSteps, MakePoolDisplays, DestroyDisplays, CreateNextDisplays,
     LoadNextDisplays, MessageDisplays, ChangeDisplays DEF Next
<1> QED
  BY <1>1, <1>3 DEF DInv

(* What OSDs and icons show is what their entities, the screens and the     *)
(* settings say, but for a message that is still queued.                    *)
THEOREM DisplayInvariant == Spec => []DInv
BY DisplaysInit, DisplaysStep, Invariant, PTL DEF Spec

(* In the event loop every OSD is placed on the primary screen with the     *)
(* size of its skin, and every icon of an initialized setting is shown, in  *)
(* the size icons have unless a message about it is queued.                 *)
THEOREM EverythingFits == Spec => []DisplaysFit
<1>1. IInv /\ DInv => DisplaysFit
  <2> SUFFICES ASSUME IInv, DInv, pc = "exec"
               PROVE  /\ \A id \in OfType("osd") : OsdIsPlaced(id)
                      /\ \A id \in OfType("tray_icon") : IconFits(id)
    BY DEF DisplaysFit
  <2>1. /\ \A id \in OfType("osd") \cup OfType("tray_icon") : id \in loaded
        /\ \A id \in DOMAIN pool : pool[id] \in Skins => id \in loaded
        /\ DOMAIN osds = OfType("osd") /\ DOMAIN shown = OfType("tray_icon")
    BY AllAreLoaded DEF DInv, DisplayInv
  <2>2. ASSUME NEW id \in OfType("osd") PROVE OsdIsPlaced(id)
    <3>1. HasLoaded(id) /\ IsPlaced(osds[id])
      BY <2>1, <2>2 DEF DInv, ScreenInv, DisplayInv
    <3>2. P(id, "skin") \in loaded /\ P(id, "skin") \in DOMAIN pool
      BY <2>1, <3>1 DEF HasLoaded
    <3>3. osds[id].size = SkinSize(P(id, "skin"), DOMAIN pool)
      BY <3>1, <3>2 DEF HasLoaded, SkinSize
    <3>4. osds[id] = UpdatePosition(osds[id], screens[primary])
      BY <3>1, PlaceIs DEF IsPlaced, IsOsd
    <3> QED
      BY <3>1, <3>3, <3>4 DEF OsdIsPlaced, HasLoaded
  <2>3. ASSUME NEW id \in OfType("tray_icon") PROVE IconFits(id)
    <3>1. shown[id] = 0 <=> P(id, "target") \notin initialized
      BY <2>1, <2>3 DEF DInv, DisplayInv
    <3>2. (shown[id] = 0) = (P(id, "target") \notin initialized)
      BY <3>1
    <3>3. shown[id] \in {0, traySize} \/ \E m \in Range(messages) : m.kind = "taskbar"
      <4>1. CASE News
        BY <4>1 DEF News, IsNews, Range
      <4>2. CASE ~News
        BY <2>1, <4>2 DEF DInv, TrayInv
      <4> QED
        BY <4>1, <4>2
    <3> QED
      BY <3>2, <3>3 DEF IconFits
  <2> QED
    BY <2>2, <2>3
<1> QED
  BY <1>1, Invariant, DisplayInvariant, PTL

-----------------------------------------------------------------------------
(* The codes of the runs of keys in the tables of virtual keys, first and   *)
(* last.                                                                    *)
PlainSpans == <<<<3, 3>>, <<8, 9>>, <<13, 13>>, <<16, 20>>, <<27, 27>>, <<31, 57>>, <<65, 93>>,
    <<95, 95>>>>
FunctionAndMediaSpans == <<<<112, 135>>, <<145, 145>>, <<147, 148>>, <<160, 183>>, <<186, 192>>,
    <<219, 222>>, <<250, 251>>>>
KeypadSpans == <<<<12, 12>>, <<96, 107>>, <<109, 111>>, <<144, 144>>>>

(* The runs of a table have these codes. *)
AreRuns(runs, spans) ==
    /\ DOMAIN runs = DOMAIN spans
    /\ \A r \in DOMAIN runs :
        runs[r][1] = spans[r][1] /\ DOMAIN runs[r][2] = 1..spans[r][2] - spans[r][1] + 1

(* The spans of the first table (win_shortcut_key_table.h). *)
LEMMA PlainSpansAre == AreRuns(PlainKeys, PlainSpans)
<1>0. DOMAIN PlainKeys = 1..8
  BY DEF PlainKeys
<1>1. PlainKeys[1][1] = 3 /\ DOMAIN PlainKeys[1][2] = 1..1
  BY DEF PlainKeys
<1>2. PlainKeys[2][1] = 8 /\ DOMAIN PlainKeys[2][2] = 1..2
  BY DEF PlainKeys
<1>3. PlainKeys[3][1] = 13 /\ DOMAIN PlainKeys[3][2] = 1..1
  BY DEF PlainKeys
<1>4. PlainKeys[4][1] = 16 /\ DOMAIN PlainKeys[4][2] = 1..5
  BY DEF PlainKeys
<1>5. PlainKeys[5][1] = 27 /\ DOMAIN PlainKeys[5][2] = 1..1
  BY DEF PlainKeys
<1>6. PlainKeys[6][1] = 31 /\ DOMAIN PlainKeys[6][2] = 1..27
  BY DEF PlainKeys
<1>7. PlainKeys[7][1] = 65 /\ DOMAIN PlainKeys[7][2] = 1..29
  BY DEF PlainKeys
<1>8. PlainKeys[8][1] = 95 /\ DOMAIN PlainKeys[8][2] = 1..1
  BY DEF PlainKeys
<1> QED
  BY <1>0, <1>1, <1>2, <1>3, <1>4, <1>5, <1>6, <1>7, <1>8 DEF AreRuns, PlainSpans

(* The spans of the second table. *)
LEMMA FunctionAndMediaSpansAre == AreRuns(FunctionAndMediaKeys, FunctionAndMediaSpans)
<1>0. DOMAIN FunctionAndMediaKeys = 1..7
  BY DEF FunctionAndMediaKeys
<1>1. FunctionAndMediaKeys[1][1] = 112 /\ DOMAIN FunctionAndMediaKeys[1][2] = 1..24
  BY DEF FunctionAndMediaKeys
<1>2. FunctionAndMediaKeys[2][1] = 145 /\ DOMAIN FunctionAndMediaKeys[2][2] = 1..1
  BY DEF FunctionAndMediaKeys
<1>3. FunctionAndMediaKeys[3][1] = 147 /\ DOMAIN FunctionAndMediaKeys[3][2] = 1..2
  BY DEF FunctionAndMediaKeys
<1>4. FunctionAndMediaKeys[4][1] = 160 /\ DOMAIN FunctionAndMediaKeys[4][2] = 1..24
  BY DEF FunctionAndMediaKeys
<1>5. FunctionAndMediaKeys[5][1] = 186 /\ DOMAIN FunctionAndMediaKeys[5][2] = 1..7
  BY DEF FunctionAndMediaKeys
<1>6. FunctionAndMediaKeys[6][1] = 219 /\ DOMAIN FunctionAndMediaKeys[6][2] = 1..4
  BY DEF FunctionAndMediaKeys
<1>7. FunctionAndMediaKeys[7][1] = 250 /\ DOMAIN FunctionAndMediaKeys[7][2] = 1..2
  BY DEF FunctionAndMediaKeys
<1> QED
  BY <1>0, <1>1, <1>2, <1>3, <1>4, <1>5, <1>6, <1>7 DEF AreRuns, FunctionAndMediaSpans

(* The spans of the keypad. *)
LEMMA KeypadSpansAre == AreRuns(KeypadKeys, KeypadSpans)
<1>0. DOMAIN KeypadKeys = 1..4
  BY DEF KeypadKeys
<1>1. KeypadKeys[1][1] = 12 /\ DOMAIN KeypadKeys[1][2] = 1..1
  BY DEF KeypadKeys
<1>2. KeypadKeys[2][1] = 96 /\ DOMAIN KeypadKeys[2][2] = 1..12
  BY DEF KeypadKeys
<1>3. KeypadKeys[3][1] = 109 /\ DOMAIN KeypadKeys[3][2] = 1..3
  BY DEF KeypadKeys
<1>4. KeypadKeys[4][1] = 144 /\ DOMAIN KeypadKeys[4][2] = 1..1
  BY DEF KeypadKeys
<1> QED
  BY <1>0, <1>1, <1>2, <1>3, <1>4 DEF AreRuns, KeypadSpans

(* No code is in two tables. *)
AreApart(some, others) ==
    \A r \in DOMAIN some, s \in DOMAIN others :
        some[r][2] < others[s][1] \/ others[s][2] < some[r][1]

(* The runs of a table come one after the other. *)
AreInOrder(spans) ==
    \A r \in DOMAIN spans :
        /\ spans[r][1] \in Nat \ {0} /\ spans[r][2] \in Nat /\ r \in Nat
        /\ \A s \in DOMAIN spans : r < s => spans[r][2] < spans[s][1]

(* So it is in the tables there are. *)
LEMMA SpansAreApart ==
  /\ AreInOrder(PlainSpans) /\ AreInOrder(FunctionAndMediaSpans) /\ AreInOrder(KeypadSpans)
  /\ AreApart(PlainSpans, FunctionAndMediaSpans) /\ AreApart(PlainSpans, KeypadSpans)
  /\ AreApart(FunctionAndMediaSpans, KeypadSpans)
<1>1. AreInOrder(PlainSpans)
  BY DEF AreInOrder, PlainSpans
<1>2. AreInOrder(FunctionAndMediaSpans)
  BY DEF AreInOrder, FunctionAndMediaSpans
<1>3. AreInOrder(KeypadSpans)
  BY DEF AreInOrder, KeypadSpans
<1>4. AreApart(PlainSpans, FunctionAndMediaSpans)
  BY DEF AreApart, PlainSpans, FunctionAndMediaSpans
<1>5. AreApart(PlainSpans, KeypadSpans)
  BY DEF AreApart, PlainSpans, KeypadSpans
<1>6. AreApart(FunctionAndMediaSpans, KeypadSpans)
  BY DEF AreApart, FunctionAndMediaSpans, KeypadSpans
<1> QED
  BY <1>1, <1>2, <1>3, <1>4, <1>5, <1>6

(* A key of a table is at a place of a run. *)
LEMMA KeysOfRuns ==
  ASSUME NEW runs, NEW spans, AreRuns(runs, spans), AreInOrder(spans), NEW mods
  PROVE  \A m \in KeysOf(runs, mods) :
            \E r \in DOMAIN spans : \E k \in 1..spans[r][2] - spans[r][1] + 1 :
                m = [code |-> spans[r][1] + k - 1, combination |-> Combination(mods, runs[r][2][k])]
<1> SUFFICES ASSUME NEW m \in KeysOf(runs, mods)
             PROVE  \E r \in DOMAIN spans : \E k \in 1..spans[r][2] - spans[r][1] + 1 :
                        m = [code |-> spans[r][1] + k - 1, combination |-> Combination(mods,
                            runs[r][2][k])]
  OBVIOUS
<1>1. PICK r \in DOMAIN runs : \E k \in DOMAIN runs[r][2] :
            m = [code |-> runs[r][1] + k - 1, combination |-> Combination(mods, runs[r][2][k])]
  BY DEF KeysOf
<1>2. r \in DOMAIN spans /\ runs[r][1] = spans[r][1]
          /\ DOMAIN runs[r][2] = 1..spans[r][2] - spans[r][1] + 1
  BY <1>1 DEF AreRuns
<1> QED
  BY <1>1, <1>2

(* The code of a key is in a span of its table. *)
LEMMA SpanOf ==
  ASSUME NEW runs, NEW spans, AreRuns(runs, spans), AreInOrder(spans), NEW mods,
             NEW m \in KeysOf(runs, mods)
  PROVE  /\ m.code \in Nat \ {0}
         /\ \E r \in DOMAIN spans : spans[r][1] <= m.code /\ m.code <= spans[r][2]
BY KeysOfRuns DEF AreInOrder

(* A code names one key of a table. *)
LEMMA OneKeyInTable ==
  ASSUME NEW runs, NEW spans, AreRuns(runs, spans), AreInOrder(spans), NEW mods,
         NEW m \in KeysOf(runs, mods), NEW n \in KeysOf(runs, mods), m.code = n.code
  PROVE  m = n
<1> DEFINE Is(x, r, k) == x = [code |-> spans[r][1] + k - 1, combination |-> Combination(mods,
        runs[r][2][k])]
<1>1. PICK r \in DOMAIN spans : \E k \in 1..spans[r][2] - spans[r][1] + 1 : Is(m, r, k)
  BY KeysOfRuns
<1>2. PICK k \in 1..spans[r][2] - spans[r][1] + 1 : Is(m, r, k)
  BY <1>1
<1>3. PICK s \in DOMAIN spans : \E l \in 1..spans[s][2] - spans[s][1] + 1 : Is(n, s, l)
  BY KeysOfRuns
<1>4. PICK l \in 1..spans[s][2] - spans[s][1] + 1 : Is(n, s, l)
  BY <1>3
<1>5. /\ m.code = spans[r][1] + k - 1 /\ n.code = spans[s][1] + l - 1
      /\ spans[r][1] \in Nat /\ spans[s][1] \in Nat /\ spans[r][2] \in Nat /\ spans[s][2] \in Nat
  BY <1>2, <1>4 DEF AreInOrder
<1>6. r \in Nat /\ s \in Nat /\ (r < s => spans[r][2] < spans[s][1]) /\ (s < r
          => spans[s][2] < spans[r][1])
  BY DEF AreInOrder
<1> DEFINE a == spans[r][1]  b == spans[r][2]  c == spans[s][1]  d == spans[s][2]
<1>7. /\ a \in Nat /\ b \in Nat /\ c \in Nat /\ d \in Nat
      /\ k \in 1..b - a + 1 /\ l \in 1..d - c + 1 /\ a + k - 1 = c + l - 1
      /\ (r < s => b < c) /\ (s < r => d < a)
  BY <1>2, <1>4, <1>5, <1>6
<1> HIDE DEF a, b, c, d, Is
<1>8. r = s
  <2>1. a <= a + k - 1 /\ a + k - 1 <= b
    BY <1>7
  <2>2. c <= c + l - 1 /\ c + l - 1 <= d
    BY <1>7
  <2>3. ~(b < c) /\ ~(d < a)
    BY <1>7, <2>1, <2>2
  <2>4. r \in Nat /\ s \in Nat
    BY <1>6
  <2>5. ~(r < s) /\ ~(s < r)
    BY <1>7, <2>3
  <2> QED
    BY <2>4, <2>5
<1>9. a = c
  BY <1>8 DEF a, c
<1>10. k = l
  BY <1>7, <1>9
<1> QED
  BY <1>2, <1>4, <1>8, <1>10 DEF Is

(* A code names one key of all tables. *)
LEMMA OneKeyOfCode ==
  ASSUME NEW m \in KeyMapping, NEW n \in KeyMapping, m.code = n.code
  PROVE  m = n
<1> DEFINE plain == KeysOf(PlainKeys, {})
           media == KeysOf(FunctionAndMediaKeys, {})
           keypad == KeysOf(KeypadKeys, {"Num"})
<1>1. KeyMapping = plain \cup media \cup keypad
  BY DEF KeyMapping
<1>2. \A k \in plain : k.code \in Nat \ {0}
          /\ \E r \in DOMAIN PlainSpans : PlainSpans[r][1] <= k.code /\ k.code <= PlainSpans[r][2]
  BY SpanOf, PlainSpansAre, SpansAreApart
<1>3. \A k \in media : k.code \in Nat \ {0}
          /\ \E r \in DOMAIN FunctionAndMediaSpans : FunctionAndMediaSpans[r][1] <= k.code
                 /\ k.code <= FunctionAndMediaSpans[r][2]
  BY SpanOf, FunctionAndMediaSpansAre, SpansAreApart
<1>4. \A k \in keypad : k.code \in Nat \ {0}
          /\ \E r \in DOMAIN KeypadSpans : KeypadSpans[r][1] <= k.code
                 /\ k.code <= KeypadSpans[r][2]
  BY SpanOf, KeypadSpansAre, SpansAreApart
<1>5. \A k \in plain, l \in plain : k.code = l.code => k = l
  BY OneKeyInTable, PlainSpansAre, SpansAreApart
<1>6. \A k \in media, l \in media : k.code = l.code => k = l
  BY OneKeyInTable, FunctionAndMediaSpansAre, SpansAreApart
<1>7. \A k \in keypad, l \in keypad : k.code = l.code => k = l
  BY OneKeyInTable, KeypadSpansAre, SpansAreApart
<1> HIDE DEF plain, media, keypad
<1>8. \A k \in plain, l \in media : k.code # l.code
  BY <1>2, <1>3, SpansAreApart DEF AreApart, AreInOrder
<1>9. \A k \in plain, l \in keypad : k.code # l.code
  BY <1>2, <1>4, SpansAreApart DEF AreApart, AreInOrder
<1>10. \A k \in media, l \in keypad : k.code # l.code
  BY <1>3, <1>4, SpansAreApart DEF AreApart, AreInOrder
<1> QED
  BY <1>1, <1>5, <1>6, <1>7, <1>8, <1>9, <1>10

(* No key has the code 0, which stands for none. *)
LEMMA CodeIsPositive ==
  ASSUME NEW m \in KeyMapping PROVE m.code \in Nat \ {0}
<1>1. m \in KeysOf(PlainKeys, {}) \cup KeysOf(FunctionAndMediaKeys, {}) \cup KeysOf(KeypadKeys,
          {"Num"})
  BY DEF KeyMapping
<1> QED
  BY <1>1, SpanOf, PlainSpansAre, FunctionAndMediaSpansAre, KeypadSpansAre, SpansAreApart

(* Each bindable key has a code of its own. *)
LEMMA CodeIsOneKey ==
  ASSUME NEW c \in BindableKeys
  PROVE  /\ WinKeyByQtKey[c] \in Nat \ {0}
         /\ \A d \in BindableKeys : WinKeyByQtKey[c] = WinKeyByQtKey[d] => c = d
<1> DEFINE The(d) == CHOOSE m \in KeyMapping : m.combination = d
<1>1. \A d \in BindableKeys : The(d) \in KeyMapping /\ The(d).combination = d
          /\ WinKeyByQtKey[d] = The(d).code
  BY DEF BindableKeys, WinKeyByQtKey
<1> HIDE DEF The
<1> QED
  BY <1>1, OneKeyOfCode, CodeIsPositive

(* A hotkey has the trigger of the key that Windows reports. *)
LEMMA OneTrigger ==
  ASSUME NEW t, t = Combination(t.mods, t.key), NEW c, c = Combination(c.mods, c.key),
         Combination(c.mods \cap {"Num"}, c.key) \in BindableKeys,
         ConvertToNativeKey(t) = NativeKey(c)
  PROVE  t = c
<1> DEFINE kt == Combination(t.mods \cap {"Num"}, t.key)
           kc == Combination(c.mods \cap {"Num"}, c.key)
<1>1. /\ t.mods \ {"Num"} = c.mods \ {"Num"}
      /\ (IF kt \in BindableKeys THEN WinKeyByQtKey[kt] ELSE 0) = WinKeyByQtKey[kc]
  BY DEF ConvertToNativeKey, NativeKey
<1>2. kc \in BindableKeys
  OBVIOUS
<1> HIDE DEF kt, kc
<1>3. kt = kc
  BY <1>1, <1>2, CodeIsOneKey
<1>4. t.mods \cap {"Num"} = c.mods \cap {"Num"} /\ t.key = c.key
  BY <1>3 DEF kt, kc, Combination
<1>5. t.mods = c.mods
  BY <1>1, <1>4
<1> QED
  BY <1>4, <1>5

(* The main thread has a pool with which events are, or will be, handled. *)
Live == {"check", "create", "load", "exec"}

(* What the wheel manager knows of is the icons of the configuration and    *)
(* the volume icon of the task bar.                                         *)
WidgetInv ==
    pc \in Live => controls \subseteq {"volume_icon"} /\ \A id \in icons : Types[id] = "tray_icon"

(* Windows posts nothing before there is somebody to post it to, and        *)
(* nothing is handled before the event loop.                                *)
QuietInv ==
    /\ pc \in Early \cup {"check", "create"} => messages = <<>>
    /\ pc \in Early \cup {"check", "create", "load"} => handled.kind = "none"

(* A hot key is registered for the hotkey that has it as its trigger. *)
SignedInv == pc \in {"load", "exec"} => \A h \in hotKeys : h.native = Native(notifiers[h.id])

(* The message of a hot key has the id of a notifier whose hotkey has the   *)
(* pressed combination as its trigger.                                      *)
IsMeant(m) ==
    m.kind = "hotkey" =>
        /\ m.combination \in PressedKeys /\ m.id \in DOMAIN notifiers
        /\ Native(notifiers[m.id]) = NativeKey(m.combination)

(* So have all that are queued. *)
MessageInv == pc \in {"load", "exec"} => \A i \in DOMAIN messages : IsMeant(messages[i])

(* The combination of a hotkey is taken: by another program, by this hotkey *)
(* or by another.                                                           *)
IsRight(id) ==
    Types[id] = "hotkey" /\ Native(id).code # 0 =>
        Native(id) \in ForeignHotKeys \/ \E h \in hotKeys : h.native = Native(id)

(* So are those of all loaded hotkeys. *)
RegisteredInv == pc \in {"load", "exec"} => \A id \in loaded : IsRight(id)

(* One hotkey with the pressed combination was invoked. *)
HotkeyAnswered ==
    \E id \in OfType("hotkey") :
        P(id, "trigger") = handled.combination /\ handled.invoked = {Closure(id)}

(* All tray events for the turned wheel, over the thing they are for, were  *)
(* invoked.                                                                 *)
InputAnswered ==
    handled.invoked = {Closure(id) : id \in {id \in OfType("tray_event") :
        P(id, "trigger") = handled.combination /\ P(id, "source") \in handled.over}}

(* The last message was answered right. *)
AnsweredInv ==
    pc = "exec" =>
        /\ handled.kind = "hotkey" => HotkeyAnswered
        /\ handled.kind = "input" => InputAnswered

(* The inductive invariant of events, given IInv and DInv. *)
EInv == WidgetInv /\ QuietInv /\ SignedInv /\ MessageInv /\ RegisteredInv /\ AnsweredInv

(* A trigger that was read is a combination of modifiers and a key. *)
LEMMA TriggerIsRead ==
  ASSUME NEW record, NEW type \in {"hotkey", "tray_event"}, NEW types, AllRead(record, type, types)
  PROVE  LET t == Result(Read(record, type, "trigger", types)) IN t = Combination(t.mods, t.key)
<1> DEFINE t == Result(Read(record, type, "trigger", types))
<1>1. "trigger" \in DOMAIN Parameters[type] /\ Parameters[type]["trigger"] = Required("key")
  <2>1. "trigger" \in DOMAIN Parameters.hotkey /\ Parameters.hotkey["trigger"] = Required("key")
    BY DEF Parameters
  <2>2. "trigger" \in DOMAIN Parameters.tray_event
            /\ Parameters.tray_event["trigger"] = Required("key")
    BY DEF Parameters
  <2> QED
    BY <2>1, <2>2
<1>2. Read(record, type, "trigger", types) # {}
  BY <1>1 DEF AllRead, Succeeds
<1>3. t \in Read(record, type, "trigger", types)
  BY <1>2 DEF Result
<1>4. "trigger" \in DOMAIN record /\ t \in ParseConfigValue("key", record["trigger"], types)
  BY <1>1, <1>2, <1>3 DEF Read, Required, Parameter
<1> HIDE DEF t
<1>5. PICK text : t \in DeserializeKey(text)
  BY <1>4 DEF ParseConfigValue
<1>6. PICK mods, key : t = Combination(mods, key)
  BY <1>5 DEF DeserializeKey
<1> QED
  BY <1>6 DEF Combination, t

(* The trigger of a loaded hotkey, and its native combination. *)
LEMMA TriggerOf ==
  ASSUME IInv, pc \in {"load", "exec"}, NEW id \in loaded, Types[id] = "hotkey"
  PROVE  /\ id \in Ids /\ P(id, "trigger") = Combination(P(id, "trigger").mods, P(id,
                "trigger").key)
         /\ Native(id) = ConvertToNativeKey(P(id, "trigger"))
<1>1. pool = Types /\ id \in Ids /\ ~IsRefused(Types, id)
  <2>1. PoolInv
    BY DEF IInv
  <2>2. \A x \in loaded : x \in Ids /\ ~IsRefused(Types, x)
    BY <2>1, ZenonT(60) DEF PoolInv
  <2> QED
    BY <2>2, PoolIsTypes
<1>2. AllRead(Record(id), "hotkey", Types)
  BY <1>1 DEF IsRefused
<1>3. P(id, "trigger") = Result(Read(Record(id), "hotkey", "trigger", Types))
  BY <1>1 DEF P, ValueIn
<1>4. P(id, "trigger") = Combination(P(id, "trigger").mods, P(id, "trigger").key)
  BY <1>2, <1>3, TriggerIsRead
<1>5. Native(id) = ConvertToNativeKey(P(id, "trigger"))
  BY <1>1 DEF P, Native
<1> QED
  BY <1>1, <1>4, <1>5

(* Steps that leave everything but the messages as it is. *)
LEMMA EventsStay ==
  ASSUME EInv,
         UNCHANGED <<pc, config, pool, loaded, notifiers, hotKeys, icons, controls, handled>>,
         \/ messages' = messages
         \/ /\ pc = "exec"
            /\ \A i \in DOMAIN messages' : \E j \in DOMAIN messages : messages'[i] = messages[j]
  PROVE  EInv'
<1>1. Types' = Types /\ \A id : Native(id)' = Native(id)
  BY SameFile
<1>2. /\ \A id, key : P(id, key)' = P(id, key)
      /\ \A type : OfType(type)' = OfType(type)
  BY SameValues
<1>3. WidgetInv' /\ QuietInv' /\ SignedInv'
  BY <1>1 DEF EInv, WidgetInv, QuietInv, SignedInv, Live, Early
<1>4. MessageInv'
  <2>1. \A m : IsMeant(m) => IsMeant(m)'
    BY <1>1 DEF IsMeant
  <2> QED
    BY <2>1 DEF EInv, MessageInv
<1>5. RegisteredInv'
  BY <1>1 DEF EInv, RegisteredInv, IsRight
<1>6. AnsweredInv'
  <2>1. \A id : Closure(id)' = Closure(id)
    BY <1>2 DEF Closure
  <2>2. (HotkeyAnswered <=> HotkeyAnswered') /\ (InputAnswered <=> InputAnswered')
    BY <1>2, <2>1 DEF HotkeyAnswered, InputAnswered
  <2> QED
    BY <2>2 DEF EInv, AnsweredInv
<1> QED
  BY <1>3, <1>4, <1>5, <1>6 DEF EInv

(* Without a pool there is nothing to say. *)
LEMMA EventsOver ==
  ASSUME pc' \notin Early \cup Live PROVE EInv'
BY DEF EInv, WidgetInv, QuietInv, SignedInv, MessageInv, RegisteredInv, AnsweredInv, Early, Live

(* Steps before there is an entity, and after the last. *)
LEMMA EventsOutside ==
  ASSUME EInv, IInv, pc \notin Live, pc' \notin Live, UNCHANGED <<messages, handled>>,
         pc' \in Early => pc \in Early
  PROVE  EInv'
BY DEF EInv, WidgetInv, QuietInv, SignedInv, MessageInv, RegisteredInv, AnsweredInv, Early, Live

(* The actions that do not concern events. *)
LEMMA EventsStayInSteps ==
  ASSUME EInv, IInv, DInv,
         \/ InstallBufferLogger \/ InitializePlatform \/ RefuseArguments \/ ParseArguments
         \/ RunHelp \/ RunVersion \/ ListKeys \/ OpenLog \/ LoadConfig \/ Catch \/ CleanUp
         \/ ListEntities \/ CannotCreate \/ CannotLoad \/ Erase \/ ClosePool \/ Quit
         \/ WindowsChange \/ BackendChanges \/ PrimaryScreenChanges \/ GeometryChanges
         \/ UpdateTrayIconSize \/ UNCHANGED vars
  PROVE  EInv'
<1>1. CASE InstallBufferLogger \/ InitializePlatform \/ RefuseArguments \/ ParseArguments
           \/ RunHelp \/ RunVersion \/ ListKeys \/ OpenLog \/ LoadConfig \/ Catch \/ CleanUp
  <2>1. /\ UNCHANGED <<messages, handled>>
        /\ pc \in Early \/ pc' \in Over
    BY <1>1 DEF InstallBufferLogger, InitializePlatform, RefuseArguments, ParseArguments,
         RunHelp, RunVersion, ListKeys, OpenLog, LoadConfig, Catch, CleanUp, worldVars, desktopVars,
         Early, Over, GoTo
  <2>2. pc \notin Live /\ pc' \notin Live
    BY <1>1 DEF Mode, InstallBufferLogger, InitializePlatform, RefuseArguments, ParseArguments,
         RunHelp, RunVersion, ListKeys, OpenLog, LoadConfig, Catch, CleanUp, Live, GoTo, Throw
  <2> QED
    BY <2>1, <2>2, EventsOutside DEF Early, Over
<1>2. CASE ListEntities \/ CannotCreate \/ CannotLoad \/ Erase \/ ClosePool \/ Quit
  <2>1. pc' \notin Early \cup Live
    BY <1>2 DEF ListEntities, CannotCreate, CannotLoad, Erase, ClosePool, Quit, GoTo, Throw,
       Refused,
                Early, Live
  <2> QED
    BY <2>1, EventsOver
<1>3. CASE WindowsChange \/ BackendChanges \/ PrimaryScreenChanges \/ GeometryChanges
  <2>1. CASE WindowsChange
    BY <2>1, EventsStay DEF WindowsChange, ChangeWindows, Acts, entityVars, hotKeyVars, trayVars
  <2>2. CASE BackendChanges
    BY <2>2, EventsStay DEF BackendChanges, SettingChanged, Acts, desktopVars, hotKeyVars, trayVars
  <2>3. CASE PrimaryScreenChanges
    BY <2>3, EventsStay DEF PrimaryScreenChanges, ChangePrimaryScreen, Acts, desktopVars,
       hotKeyVars, trayVars
  <2>4. CASE GeometryChanges
    BY <2>4, EventsStay DEF GeometryChanges, ChangeGeometry, Acts, desktopVars, hotKeyVars, trayVars
  <2> QED
    BY <1>3, <2>1, <2>2, <2>3, <2>4
<1>4. CASE UNCHANGED vars
  BY <1>4, EventsStay DEF vars, worldVars, entityVars, desktopVars, hotKeyVars, trayVars
<1>5. CASE UpdateTrayIconSize
  <2>1. /\ pc = "exec" /\ TakeMessage("taskbar")
        /\ UNCHANGED <<pc, config, pool, loaded, notifiers, hotKeys, icons, controls, handled>>
    BY <1>5 DEF UpdateTrayIconSize, InEventLoop, GoTo, HandleTaskbarCreated, hotKeyVars
  <2>2. \A i \in DOMAIN messages' : \E j \in DOMAIN messages : messages'[i] = messages[j]
    BY <2>1, Taking DEF DInv
  <2> QED
    BY <2>1, <2>2, EventsStay
<1> QED
  BY <1>1, <1>2, <1>3, <1>4, <1>5

(* The volume icon of the task bar comes with the pool. *)
LEMMA MakePoolEvents ==
  ASSUME EInv, IInv, MakePool PROVE EInv'
<1>1. pc = "pool" /\ pc' = "check" /\ UNCHANGED <<messages, handled, icons>>
          /\ controls' = controls \cup {"volume_icon"}
  BY DEF MakePool, GoTo, CreateBuiltins
<1>2. icons = {} /\ controls = {}
  BY <1>1 DEF IInv, CleanInv, Nothing, Early
<1>3. messages = <<>> /\ handled.kind = "none"
  BY <1>1 DEF EInv, QuietInv, Early
<1> QED
  BY <1>1, <1>2, <1>3 DEF EInv, WidgetInv, QuietInv, SignedInv, MessageInv, RegisteredInv,
     AnsweredInv, Early

(* An empty configuration goes to the event loop at once. *)
LEMMA CheckIdsEvents ==
  ASSUME EInv, IInv, CheckIds PROVE EInv'
<1>1. /\ pc = "check" /\ pc' \in {"exec", "create", "close"}
      /\ UNCHANGED <<config, messages, handled, icons, controls, loaded, hotKeys>>
  BY DEF CheckIds, Return, Refused, GoTo, worldVars, entityVars, desktopVars, hotKeyVars, trayVars
<1>2. Types' = Types
  BY <1>1, SameFile
<1>3. loaded = {} /\ hotKeys = {}
  BY <1>1 DEF IInv, PoolInv
<1>4. messages = <<>> /\ handled.kind = "none"
  BY <1>1 DEF EInv, QuietInv
<1>5. WidgetInv' /\ QuietInv' /\ SignedInv' /\ RegisteredInv' /\ AnsweredInv'
  BY <1>1, <1>2, <1>3, <1>4 DEF EInv, WidgetInv, QuietInv, SignedInv, RegisteredInv, AnsweredInv,
     Early, Live
<1>6. MessageInv'
  BY <1>1, <1>4 DEF MessageInv
<1> QED
  BY <1>5, <1>6 DEF EInv

(* A tray icon is known from its creation on. *)
LEMMA CreateNextEvents ==
  ASSUME EInv, IInv, CreateNext PROVE EInv'
<1>1. /\ pc = "create" /\ pc' \in {"create", "load"}
      /\ UNCHANGED <<config, messages, handled, controls, loaded, hotKeys>>
      /\ \/ icons' = icons
         \/ icons' = icons \cup {Current} /\ TypeOf(Record(Current)) = "tray_icon"
  BY DEF CreateNext, CreateEntity, Continue, GoTo, hotKeyVars
<1>2. Types' = Types
  BY <1>1, SameFile
<1>3. loaded = {} /\ hotKeys = {}
  <2>1. PoolInv /\ pc \in {"check", "create"}
    BY <1>1 DEF IInv
  <2> QED
    BY <2>1, ZenonT(60) DEF PoolInv
<1>4. messages = <<>> /\ handled.kind = "none"
  BY <1>1 DEF EInv, QuietInv
<1>5. Current \in Ids /\ Types[Current] = TypeOf(Record(Current))
  BY <1>1, Progress, TypesOf
<1>6. WidgetInv'
  BY <1>1, <1>2, <1>5 DEF EInv, WidgetInv, Live
<1>7. QuietInv' /\ SignedInv' /\ RegisteredInv' /\ AnsweredInv'
  BY <1>1, <1>3, <1>4 DEF QuietInv, SignedInv, RegisteredInv, AnsweredInv, Early
<1>8. MessageInv'
  BY <1>1, <1>4 DEF MessageInv
<1> QED
  BY <1>6, <1>7, <1>8 DEF EInv

(* What a new notifier does to those that are there. *)
LEMMA Registering ==
  ASSUME IdInv, NEW id, NEW trigger, CreateShortcutNotifier(id, trigger)
  PROVE  /\ \A n \in DOMAIN notifiers : n \in DOMAIN notifiers' /\ notifiers'[n] = notifiers[n]
         /\ hotKeys \subseteq hotKeys'
         /\ \A h \in hotKeys' :
                h \in hotKeys \/ (h.native = ConvertToNativeKey(trigger) /\ notifiers'[h.id] = id)
         /\ \/ ConvertToNativeKey(trigger).code = 0
            \/ ConvertToNativeKey(trigger) \in ForeignHotKeys
            \/ \E h \in hotKeys' : h.native = ConvertToNativeKey(trigger)
<1> DEFINE native == ConvertToNativeKey(trigger)
           new == [id |-> nextId, native |-> native]
<1>1. CASE CanNotify(trigger)
  <2>1. hotKeys' = hotKeys \cup {new} /\ notifiers' = With(notifiers, nextId, id)
    BY <1>1 DEF CreateShortcutNotifier
  <2>2. new.id = nextId /\ new.native = native
    OBVIOUS
  <2> HIDE DEF new, native
  <2>3. nextId \notin DOMAIN notifiers
    BY DEF IdInv
  <2>4. /\ \A n \in DOMAIN notifiers : n \in DOMAIN notifiers' /\ notifiers'[n] = notifiers[n]
        /\ notifiers'[nextId] = id
    BY <2>1, <2>3 DEF With
  <2>5. /\ \A h \in hotKeys' : h \in hotKeys \/ (h.native = native /\ notifiers'[h.id] = id)
        /\ \E h \in hotKeys' : h.native = native
        /\ hotKeys \subseteq hotKeys'
    BY <2>1, <2>2, <2>4
  <2> QED
    BY <2>4, <2>5 DEF native
<1>2. CASE ~CanNotify(trigger)
  <2>1. notifiers' = notifiers /\ hotKeys' = hotKeys
    BY <1>2 DEF CreateShortcutNotifier, hotKeyVars
  <2>2. native.code = 0 \/ native \in ForeignHotKeys \/ \E h \in hotKeys : h.native = native
    BY <1>2 DEF CanNotify, IsTaken
  <2> HIDE DEF native
  <2>3. native.code = 0 \/ native \in ForeignHotKeys \/ \E h \in hotKeys' : h.native = native
    BY <2>1, <2>2
  <2> QED
    BY <2>1, <2>3 DEF native
<1> QED
  BY <1>1, <1>2

(* A hotkey is loaded: it has its combination, or somebody else has. *)
LEMMA LoadNextEvents ==
  ASSUME EInv, IInv, IInv', IdInv, LoadNext PROVE EInv'
<1> DEFINE cur == Current
<1>1. /\ pc = "load" /\ pc' \in {"load", "exec"} /\ LoadEntity(cur)
      /\ UNCHANGED <<config, messages, handled, icons, controls>>
  BY DEF LoadNext, Continue, GoTo, Return, LoadEntity, trayVars
<1>2. cur \in Ids /\ pool = Types /\ cur \in DOMAIN pool
  BY <1>1, Progress, PoolIsTypes, TypesOf
<1>3. /\ loaded' = loaded \cup {cur} /\ pool' = pool
      /\ \/ Types[cur] = "hotkey" /\ CreateShortcutNotifier(cur, P(cur, "trigger"))
         \/ Types[cur] # "hotkey" /\ UNCHANGED <<notifiers, hotKeys>>
  BY <1>1, <1>2, LoadEffect
<1>4. Types' = Types /\ \A id : Native(id)' = Native(id)
  BY <1>1, SameFile
<1>5. Native(cur) = ConvertToNativeKey(P(cur, "trigger"))
  BY <1>2 DEF Native, P
<1>6. /\ \A n \in DOMAIN notifiers : n \in DOMAIN notifiers' /\ notifiers'[n] = notifiers[n]
      /\ hotKeys \subseteq hotKeys'
      /\ \A h \in hotKeys' :
            h \in hotKeys \/ (h.native = Native(cur) /\ notifiers'[h.id] = cur)
      /\ Types[cur] = "hotkey" /\ Native(cur).code # 0 =>
            Native(cur) \in ForeignHotKeys \/ \E h \in hotKeys' : h.native = Native(cur)
  <2>1. CASE Types[cur] = "hotkey" /\ CreateShortcutNotifier(cur, P(cur, "trigger"))
    <3> HIDE DEF cur
    <3> QED
      BY <1>5, <2>1, Registering
  <2>2. CASE Types[cur] # "hotkey" /\ UNCHANGED <<notifiers, hotKeys>>
    <3> HIDE DEF cur
    <3>1. Types[cur] # "hotkey" /\ notifiers' = notifiers /\ hotKeys' = hotKeys
      BY <2>2
    <3> QED
      BY <3>1
  <2> QED
    BY <1>3, <2>1, <2>2
<1> HIDE DEF cur
<1>7. WidgetInv' /\ QuietInv'
  BY <1>1, <1>4 DEF EInv, WidgetInv, QuietInv, Live, Early
<1>8. SignedInv'
  <2>1. \A h \in hotKeys : h.id \in DOMAIN notifiers /\ h.native = Native(notifiers[h.id])
    BY <1>1 DEF EInv, SignedInv, IInv, OwnedInv
  <2>2. \A h \in hotKeys' : h.native = Native(notifiers'[h.id])
    BY <1>6, <2>1
  <2> QED
    BY <1>4, <2>2 DEF SignedInv
<1>9. MessageInv'
  <2>1. \A m : IsMeant(m) => IsMeant(m)'
    BY <1>4, <1>6 DEF IsMeant
  <2> QED
    BY <1>1, <2>1 DEF EInv, MessageInv
<1>10. RegisteredInv'
  <2>1. \A id \in loaded : IsRight(id)'
    BY <1>1, <1>4, <1>6 DEF EInv, RegisteredInv, IsRight
  <2>2. \A id : id = cur => IsRight(id)'
    BY <1>4, <1>6 DEF IsRight
  <2> QED
    BY <1>3, <2>1, <2>2 DEF RegisteredInv
<1>11. AnsweredInv'
  BY <1>1 DEF EInv, QuietInv, AnsweredInv
<1> QED
  BY <1>7, <1>8, <1>9, <1>10, <1>11 DEF EInv

(* Messages are posted that are meant for a notifier, or for nobody. *)
LEMMA PostEvents ==
  ASSUME EInv, IInv, DInv, UserPressesKey \/ UserTurnsWheel \/ DpiChanges PROVE EInv'
<1>1. /\ pc \in {"load", "exec"}
      /\ UNCHANGED <<pc, config, pool, loaded, notifiers, hotKeys, icons, controls, handled>>
  BY DEF UserPressesKey, UserTurnsWheel, DpiChanges, Posts, Acts, PressKey, TurnWheel, ChangeDpi,
         entityVars, hotKeyVars, trayVars
<1>2. PICK m \in Posted : messages' = Append(messages, m) /\ IsMeant(m)
  <2>1. CASE UserPressesKey
    <3>1. PICK c \in PressedKeys, h \in hotKeys :
                h.native = NativeKey(c) /\ Post(Message("hotkey", h.id, c))
      BY <2>1 DEF UserPressesKey, PressKey
    <3>2. h.id \in DOMAIN notifiers /\ h.native = Native(notifiers[h.id])
      BY <1>1 DEF IInv, OwnedInv, EInv, SignedInv
    <3>3. Message("hotkey", h.id, c) \in Posted
      BY DEF Message, Posted, Kinds, DInv, IdInv
    <3>4. IsMeant(Message("hotkey", h.id, c))
      BY <3>1, <3>2 DEF IsMeant, Message
    <3> QED
      BY <3>1, <3>3, <3>4 DEF Post
  <2>2. CASE UserTurnsWheel
    <3>1. PICK c \in TurnedWheels : Post(Message("input", 0, c))
      BY <2>2 DEF UserTurnsWheel, TurnWheel
    <3>2. Message("input", 0, c) \in Posted /\ IsMeant(Message("input", 0, c))
      BY DEF Message, Posted, Kinds, IsMeant
    <3> QED
      BY <3>1, <3>2 DEF Post
  <2>3. CASE DpiChanges
    <3>1. Post(Message("taskbar", 0, NoCombination))
      BY <2>3 DEF DpiChanges, ChangeDpi
    <3>2. Message("taskbar", 0, NoCombination) \in Posted /\ IsMeant(Message("taskbar", 0,
              NoCombination))
      BY DEF Message, Posted, Kinds, IsMeant
    <3> QED
      BY <3>1, <3>2 DEF Post
  <2> QED
    BY <2>1, <2>2, <2>3
<1>3. \A i \in DOMAIN messages' : messages'[i] = m \/ (i \in DOMAIN messages
          /\ messages'[i] = messages[i])
  BY <1>2, Posting DEF DInv
<1>4. Types' = Types /\ \A id : Native(id)' = Native(id)
  BY <1>1, SameFile
<1>5. /\ \A id, key : P(id, key)' = P(id, key)
      /\ \A type : OfType(type)' = OfType(type)
  BY <1>1, SameValues
<1>6. WidgetInv' /\ QuietInv' /\ SignedInv'
  BY <1>1, <1>4 DEF EInv, WidgetInv, QuietInv, SignedInv, Live, Early
<1>7. MessageInv'
  <2>1. \A n : IsMeant(n) => IsMeant(n)'
    BY <1>1, <1>4 DEF IsMeant
  <2> QED
    BY <1>1, <1>2, <1>3, <2>1 DEF EInv, MessageInv
<1>8. RegisteredInv'
  BY <1>1, <1>4 DEF EInv, RegisteredInv, IsRight
<1>9. AnsweredInv'
  <2>1. \A id : Closure(id)' = Closure(id)
    BY <1>5 DEF Closure
  <2>2. (HotkeyAnswered <=> HotkeyAnswered') /\ (InputAnswered <=> InputAnswered')
    BY <1>1, <1>5, <2>1 DEF HotkeyAnswered, InputAnswered
  <2> QED
    BY <1>1, <2>2 DEF EInv, AnsweredInv
<1> QED
  BY <1>6, <1>7, <1>8, <1>9 DEF EInv

(* A message is taken: the answer is right, whatever else is as it was. *)
LEMMA AnswerEvents ==
  ASSUME EInv, DInv, pc = "exec", pc' = pc, AnsweredInv',
         UNCHANGED <<config, pool, loaded, notifiers, hotKeys, icons, controls>>,
         NEW kind, TakeMessage(kind)
  PROVE  EInv'
<1>1. Types' = Types /\ \A id : Native(id)' = Native(id)
  BY SameFile
<1>2. \A i \in DOMAIN messages' : i + 1 \in DOMAIN messages /\ messages'[i] = messages[i + 1]
  BY Taking DEF DInv
<1>3. WidgetInv' /\ QuietInv' /\ SignedInv'
  BY <1>1 DEF EInv, WidgetInv, QuietInv, SignedInv, Live, Early
<1>4. MessageInv'
  <2>1. \A m : IsMeant(m) => IsMeant(m)'
    BY <1>1 DEF IsMeant
  <2>2. \A i \in DOMAIN messages' : IsMeant(messages'[i])
    BY <1>2 DEF EInv, MessageInv
  <2> QED
    BY <2>1, <2>2 DEF MessageInv
<1>5. RegisteredInv'
  BY <1>1 DEF EInv, RegisteredInv, IsRight
<1> QED
  BY <1>3, <1>4, <1>5 DEF EInv

(* A hot key invokes the hotkey that has it as its trigger. *)
LEMMA HotkeyEvents ==
  ASSUME EInv, IInv, DInv, DispatchHotkey PROVE EInv'
<1> DEFINE m == Head(messages)
           id == notifiers[m.id]
<1>1. /\ pc = "exec" /\ pc' = pc /\ TakeMessage("hotkey")
      /\ UNCHANGED <<config, pool, loaded, notifiers, hotKeys, icons, controls>>
      /\ handled' = Handled("hotkey", m.combination, {}, {Closure(i) : i \in NotifierOf(m)})
  BY DEF DispatchHotkey, InEventLoop, GoTo, HandleHotkey, Invoke, hotKeyVars, trayVars
<1>2. m = messages[1] /\ 1 \in DOMAIN messages /\ m.kind = "hotkey"
  BY <1>1, Taking DEF DInv
<1> HIDE DEF m
<1>3. IsMeant(m)
  BY <1>1, <1>2 DEF EInv, MessageInv
<1>4. /\ m.combination \in PressedKeys /\ m.id \in DOMAIN notifiers
      /\ Native(id) = NativeKey(m.combination)
  BY <1>2, <1>3 DEF IsMeant
<1>5. id \in loaded /\ Types[id] = "hotkey"
  BY <1>1, <1>4 DEF IInv, HotKeyInv
<1>6. NotifierOf(m) = {id}
  BY <1>4 DEF NotifierOf
<1> HIDE DEF id
<1>7. /\ id \in Ids /\ P(id, "trigger") = Combination(P(id, "trigger").mods, P(id, "trigger").key)
      /\ Native(id) = ConvertToNativeKey(P(id, "trigger"))
  BY <1>1, <1>5, TriggerOf
<1>8. /\ m.combination = Combination(m.combination.mods, m.combination.key)
      /\ Combination(m.combination.mods \cap {"Num"}, m.combination.key) \in BindableKeys
  BY <1>4, EventsAssumption
<1>9. P(id, "trigger") = m.combination
  BY <1>4, <1>7, <1>8, OneTrigger
<1>10. id \in OfType("hotkey")
  BY <1>1, <1>5, <1>7, PoolIsTypes, TypesOf DEF OfType
<1>11. handled'.kind = "hotkey" /\ handled'.combination = m.combination
           /\ handled'.invoked = {Closure(id)}
  BY <1>1, <1>6 DEF Handled
<1>12. /\ \A i, key : P(i, key)' = P(i, key)
       /\ \A type : OfType(type)' = OfType(type)
  BY <1>1, SameValues
<1>13. \A i : Closure(i)' = Closure(i)
  BY <1>12 DEF Closure
<1>14. HotkeyAnswered'
  <2>1. \E i \in OfType("hotkey") :
            P(i, "trigger") = handled'.combination /\ handled'.invoked = {Closure(i)}
    BY <1>9, <1>10, <1>11
  <2> QED
    BY <1>12, <1>13, <2>1 DEF HotkeyAnswered
<1>15. AnsweredInv'
  BY <1>11, <1>14 DEF AnsweredInv
<1> QED
  BY <1>1, <1>15, AnswerEvents

(* In the event loop the pool is what the configuration says, and all of it *)
(* is loaded.                                                               *)
LEMMA PoolOfLoop ==
  ASSUME IInv, pc = "exec"
  PROVE  /\ pool = Types /\ loaded = Ids /\ DOMAIN pool = DOMAIN Builtins \cup Ids
         /\ Ids \cap DOMAIN Builtins = {}
<1>1. pool = Types
  BY PoolIsTypes
<1>2. PoolInv
  BY DEF IInv
<1>3. loaded = Ids
  BY <1>2, ZenonT(60) DEF PoolInv
<1>4. DOMAIN pool = DOMAIN Builtins \cup Ids
  BY <1>2, ZenonT(60) DEF PoolInv
<1>5. Ids \cap DOMAIN Builtins = {}
  BY <1>2, ZenonT(60) DEF PoolInv
<1> QED
  BY <1>1, <1>3, <1>4, <1>5

(* Who hears a turn of the wheel: the icon under the cursor, or the control. *)
LEMMA Hearing ==
  ASSUME NEW over \in UnderCursor, NEW receivers \in Receivers(over)
  PROVE  receivers = over /\ over \subseteq icons \cup controls
<1>1. CASE over = {}
  BY <1>1 DEF Receivers
<1>2. CASE \E i \in icons : over = {i}
  <2>1. PICK i \in icons : over = {i}
    BY <1>2
  <2>2. over \cap icons = {i}
    BY <2>1
  <2> QED
    BY <2>1, <2>2 DEF Receivers
<1>3. CASE \E c \in controls : over = {c} /\ c \notin icons
  <2>1. PICK c \in controls : over = {c} /\ c \notin icons
    BY <1>3
  <2>2. over \cap icons = {} /\ over \cap controls = {c}
    BY <2>1
  <2> QED
    BY <2>1, <2>2 DEF Receivers
<1> QED
  BY <1>1, <1>2, <1>3 DEF UnderCursor

(* A turn of the wheel invokes the tray events for it. *)
LEMMA WheelEvents ==
  ASSUME EInv, IInv, DInv, ProcessInput PROVE EInv'
<1> DEFINE m == Head(messages)
<1>1. PICK over \in UnderCursor, receivers \in SUBSET (icons \cup controls) :
        /\ receivers \in Receivers(over)
        /\ handled' = Handled("input", m.combination, over,
                              {Closure(id) : id \in Triggered(receivers, m.combination)})
  <2>1. PICK over \in UnderCursor : \E receivers \in Receivers(over) :
            handled' = Handled("input", m.combination, over,
                               {Closure(id) : id \in Triggered(receivers, m.combination)})
    BY DEF ProcessInput, HandleInput
  <2>2. PICK receivers \in Receivers(over) :
            handled' = Handled("input", m.combination, over,
                               {Closure(id) : id \in Triggered(receivers, m.combination)})
    BY <2>1
  <2>3. receivers = over /\ over \subseteq icons \cup controls
    BY Hearing
  <2> QED
    BY <2>2, <2>3
<1> HIDE DEF m
<1>2. receivers = over /\ over \subseteq icons \cup controls
  BY <1>1, Hearing
<1>3. /\ pc = "exec" /\ pc' = pc /\ TakeMessage("input")
      /\ UNCHANGED <<config, pool, loaded, notifiers, hotKeys, icons, controls>>
  BY DEF ProcessInput, InEventLoop, GoTo, HandleInput, Invoke, hotKeyVars, trayVars
<1>4. /\ pool = Types /\ loaded = Ids /\ DOMAIN pool = DOMAIN Builtins \cup Ids
      /\ Ids \cap DOMAIN Builtins = {} /\ icons \subseteq DOMAIN pool
             /\ controls \subseteq DOMAIN pool
  BY <1>3, PoolOfLoop DEF IInv, OwnedInv
<1>5. \A id \in DOMAIN Builtins : pool[id] # "tray_event"
  <2>1. \A id \in DOMAIN Builtins : Builtins[id] # "tray_event"
    BY DEF Builtins
  <2> QED
    BY <1>4, <2>1, TypesOf
<1>6. Loaded("tray_event") = OfType("tray_event")
  BY <1>4, <1>5 DEF Loaded, OfType
<1>7. \A s \in icons \cup controls : pool[s] \in {"tray_icon", "standard_tray_icon"}
  <2>1. controls \subseteq {"volume_icon"} /\ \A id \in icons : Types[id] = "tray_icon"
    BY <1>3 DEF EInv, WidgetInv, Live
  <2>2. "volume_icon" \in DOMAIN Builtins /\ Builtins["volume_icon"] = "standard_tray_icon"
    BY DEF Builtins
  <2>3. pool["volume_icon"] = "standard_tray_icon"
    BY <1>4, <2>2, TypesOf
  <2> QED
    BY <1>4, <2>1, <2>3
<1>8. \A id : EventSource(id) \cap receivers # {} <=> P(id, "source") \in over
  BY <1>2, <1>4, <1>7 DEF EventSource
<1>9. Triggered(receivers, m.combination) =
        {id \in OfType("tray_event") : P(id, "trigger") = m.combination /\ P(id, "source") \in over}
  BY <1>6, <1>8 DEF Triggered
<1>10. /\ handled'.kind = "input" /\ handled'.combination = m.combination /\ handled'.over = over
       /\ handled'.invoked = {Closure(id) : id \in Triggered(receivers, m.combination)}
  BY <1>1 DEF Handled
<1>11. /\ \A i, key : P(i, key)' = P(i, key)
       /\ \A type : OfType(type)' = OfType(type)
  BY <1>3, SameValues
<1>12. \A i : Closure(i)' = Closure(i)
  BY <1>11 DEF Closure
<1>13. InputAnswered'
  <2>1. handled'.invoked = {Closure(id) : id \in {id \in OfType("tray_event") :
            P(id, "trigger") = handled'.combination /\ P(id, "source") \in handled'.over}}
    BY <1>9, <1>10
  <2> QED
    BY <1>11, <1>12, <2>1 DEF InputAnswered
<1>14. AnsweredInv'
  BY <1>10, <1>13 DEF AnsweredInv
<1> QED
  BY <1>3, <1>14, AnswerEvents

(* At first nothing is registered, posted or handled. *)
LEMMA EventsInit == Init => EInv
<1> SUFFICES ASSUME Init PROVE EInv
  OBVIOUS
<1>1. pc = "start" /\ messages = <<>>
  BY ZenonT(60) DEF Init, DesktopInit
<1>2. handled.kind = "none"
  <2>1. handled = Handled("none", NoCombination, {}, {})
    BY ZenonT(60) DEF Init, EntitiesInit
  <2> QED
    BY <2>1 DEF Handled
<1> QED
  BY <1>1, <1>2 DEF EInv, WidgetInv, QuietInv, SignedInv, MessageInv, RegisteredInv, AnsweredInv,
     Live

(* The invariant of events is inductive relative to the others. *)
LEMMA EventsStep == IInv /\ IInv' /\ DInv /\ EInv /\ [Next]_vars => EInv'
<1> SUFFICES ASSUME IInv, IInv', DInv, EInv, [Next]_vars PROVE EInv'
  OBVIOUS
<1>1. IdInv
  BY DEF DInv
<1> QED
  BY <1>1, EventsStayInSteps, MakePoolEvents, CheckIdsEvents, CreateNextEvents, LoadNextEvents,
     PostEvents, HotkeyEvents, WheelEvents
     DEF Next, Waits, Terminated

(* For whom hot keys are registered and messages are meant, at every        *)
(* moment.                                                                  *)
THEOREM EventInvariant == Spec => []EInv
BY EventsInit, EventsStep, Invariant, DisplayInvariant, PTL DEF Spec

(* In the event loop every hotkey whose trigger can be bound has it, or     *)
(* another with the same trigger has, or another program has.               *)
LEMMA AllAreRegistered ==
  ASSUME IInv, EInv, pc = "exec", NEW id \in OfType("hotkey"),
         Combination(P(id, "trigger").mods \cap {"Num"}, P(id, "trigger").key) \in BindableKeys
  PROVE  NativeKey(P(id, "trigger")) \in ForeignHotKeys \/ IsRegistered(P(id, "trigger"))
<1> DEFINE t == P(id, "trigger")
<1>1. pool = Types /\ loaded = Ids /\ DOMAIN pool = DOMAIN Builtins \cup Ids
          /\ Ids \cap DOMAIN Builtins = {}
  BY PoolOfLoop
<1>2. \A b \in DOMAIN Builtins : Builtins[b] # "hotkey"
  BY DEF Builtins
<1>3. id \in loaded /\ Types[id] = "hotkey"
  BY <1>1, <1>2, TypesOf DEF OfType
<1>4. t = Combination(t.mods, t.key) /\ Native(id) = ConvertToNativeKey(t)
  BY <1>3, TriggerOf
<1> HIDE DEF t
<1>5. Combination(t.mods \cap {"Num"}, t.key) \in BindableKeys
  BY DEF t
<1>6. Native(id) = NativeKey(t) /\ Native(id).code # 0
  <2>1. WinKeyByQtKey[Combination(t.mods \cap {"Num"}, t.key)] # 0
    BY <1>5, CodeIsOneKey
  <2> QED
    BY <1>4, <1>5, <2>1 DEF ConvertToNativeKey, NativeKey
<1>7. IsRight(id)
  BY <1>3 DEF EInv, RegisteredInv
<1>8. CASE Native(id) \in ForeignHotKeys
  BY <1>6, <1>8 DEF t
<1>9. CASE \E h \in hotKeys : h.native = Native(id)
  <2>1. PICK h \in hotKeys : h.native = NativeKey(t)
    BY <1>6, <1>9
  <2> DEFINE other == notifiers[h.id]
  <2>2. h.id \in DOMAIN notifiers /\ h.native = Native(other)
    BY DEF IInv, OwnedInv, EInv, SignedInv
  <2>3. other \in loaded /\ Types[other] = "hotkey"
    BY <2>2 DEF IInv, HotKeyInv
  <2>4. /\ P(other, "trigger") = Combination(P(other, "trigger").mods, P(other, "trigger").key)
        /\ Native(other) = ConvertToNativeKey(P(other, "trigger"))
    BY <2>3, TriggerOf
  <2>5. P(other, "trigger") = t
    BY <1>4, <1>5, <2>1, <2>2, <2>4, OneTrigger
  <2> QED
    BY <2>1, <2>2, <2>5 DEF IsRegistered, t
<1> QED
  BY <1>3, <1>6, <1>7, <1>8, <1>9 DEF IsRight

(* A key invokes the closure of one hotkey that has it as its trigger and a *)
(* turn of the wheel those of all tray events for it, and every hotkey is   *)
(* registered unless its trigger is taken: for any configuration and any    *)
(* queue of messages.                                                       *)
THEOREM EventsArrive == Spec => []EventsReachTheirTarget
<1>1. ASSUME IInv, EInv PROVE EventsReachTheirTarget
  <2> SUFFICES ASSUME pc = "exec"
               PROVE  /\ handled.kind = "hotkey" => HotkeyAnswered
                      /\ handled.kind = "input" => InputAnswered
                      /\ \A id \in OfType("hotkey") :
                            Combination(P(id, "trigger").mods \cap {"Num"}, P(id,
                                "trigger").key) \in BindableKeys =>
                                NativeKey(P(id, "trigger")) \in ForeignHotKeys
                                    \/ IsRegistered(P(id, "trigger"))
    BY DEF EventsReachTheirTarget, HotkeyAnswered, InputAnswered
  <2> QED
    BY <1>1, AllAreRegistered DEF EInv, AnsweredInv
<1> QED
  BY <1>1, Invariant, EventInvariant, PTL

-----------------------------------------------------------------------------
(* The log. *)

(* The messages of an emitted history but for the first of them. *)
Lines(e, lost) == [i \in 1..Len(e) - lost |-> [number |-> lost + i, lines |-> e[lost + i]]]

(* Those that a buffer keeps. *)
Latest(e) == Lines(e, IF Len(e) > BufferSize THEN Len(e) - BufferSize ELSE 0)

(* What a file gets of each message. *)
AllPieces(all) == [i \in DOMAIN all |-> Pieces(all[i])]

(* All that was logged went to the buffer. *)
Buffered == early = Len(emitted) /\ buffer = Latest(emitted) /\ written = <<>>

(* The buffer was flushed, and the file has all that it had and what came   *)
(* afterwards.                                                              *)
Filed ==
    /\ early <= Len(emitted) /\ buffer = <<>>
    /\ written = FlattenSeq(AllPieces(Lines(emitted, Lost)))

(* Each logger has what was logged; the last one leaves it where it is. *)
LoggerInv ==
    /\ emitted \in Seq(Nat) /\ early \in Nat
    /\ pc = "start" => emitted = <<>> /\ Buffered
    /\ logger = "buffer" => Buffered
    /\ logger = "file" => Filed
    /\ pc = "done" => Buffered \/ Filed

(* Which logger is installed at which step of the run. *)
PlaceInv ==
    /\ pc = "start" => logger = "none"
    /\ pc \in {"initialize", "parse", "help", "version", "list", "service"} => logger = "buffer"
    /\ pc \in {"config", "pool"} \cup (InPool \ {"close"}) => logger = "file"
    /\ pc \in {"close", "caught", "cleanup"} => logger \in {"buffer", "file"}
    /\ pc = "done" => logger = "none"

(* An exception is on its way only to where it is logged, and there is then *)
(* its message at the end of the file.                                      *)
ThrowInv ==
    /\ throws => pc \in {"erase", "close"} \cup Over
    /\ throws /\ pc \in {"cleanup", "done"} /\ written # <<>> => Last(written).line = 2

(* Warnings are counted by the entities and the windows they are about. *)
FiniteInv == IsFiniteSet(DOMAIN pool) /\ windows \subseteq DOMAIN NativeWindows

LInv == LoggerInv /\ PlaceInv /\ ThrowInv /\ FiniteInv

(* A message. *)
LogMessage == [number : Nat, lines : Nat]

(* A piece of the file. *)
PieceOfLog == [message : Nat, line : Nat, ended : BOOLEAN]

(* The messages that Log() numbers. *)
New(e, lines) == [i \in DOMAIN lines |-> [number |-> Len(e) + i, lines |-> lines[i]]]

(* The messages that are kept are numbered from the first that is. *)
LEMMA LinesAre ==
  ASSUME NEW e \in Seq(Nat), NEW lost \in Nat, lost <= Len(e)
  PROVE  /\ Lines(e, lost) \in Seq(LogMessage) /\ Len(Lines(e, lost)) = Len(e) - lost
         /\ \A i \in 1..Len(e) - lost :
               Lines(e, lost)[i] = [number |-> lost + i, lines |-> e[lost + i]]
<1> DEFINE n == Len(e) - lost
<1>1. n \in Nat /\ Len(e) \in Nat /\ lost + n = Len(e)
  OBVIOUS
<1>2. \A i \in 1..n : lost + i \in Nat /\ e[lost + i] \in Nat
  OBVIOUS
<1> HIDE DEF n
<1>3. Lines(e, lost) = [i \in 1..n |-> [number |-> lost + i, lines |-> e[lost + i]]]
  BY DEF Lines, n
<1>4. Lines(e, lost) \in [1..n -> LogMessage]
  BY <1>2, <1>3 DEF LogMessage
<1> DEFINE s == Lines(e, lost)
<1>5. /\ s \in [1..n -> LogMessage]
      /\ \A i \in 1..n : s[i] = [number |-> lost + i, lines |-> e[lost + i]]
  BY <1>3, <1>4
<1> HIDE DEF s
<1>6. s \in Seq(LogMessage) /\ Len(s) = n
  BY <1>1, <1>5
<1> QED
  BY <1>5, <1>6 DEF n, s

(* To lose the first of them is to keep the others. *)
LEMMA TailOfLines ==
  ASSUME NEW e \in Seq(Nat), NEW lost \in Nat, lost < Len(e)
  PROVE  Tail(Lines(e, lost)) = Lines(e, lost + 1)
<1> DEFINE n == Len(e) - lost
           s == Lines(e, lost)
           t == Lines(e, lost + 1)
<1>1. /\ lost <= Len(e) /\ n \in Nat /\ n - 1 \in Nat /\ n > 0
      /\ Len(e) - (lost + 1) = n - 1 /\ lost + 1 \in Nat
  OBVIOUS
<1>2. /\ s \in Seq(LogMessage) /\ Len(s) = n
      /\ \A i \in 1..n : s[i] = [number |-> lost + i, lines |-> e[lost + i]]
  BY <1>1, LinesAre
<1>3. /\ t \in Seq(LogMessage) /\ Len(t) = n - 1
      /\ \A i \in 1..n - 1 : t[i] = [number |-> (lost + 1) + i, lines |-> e[(lost + 1) + i]]
  <2>1. lost + 1 <= Len(e)
    OBVIOUS
  <2> QED
    BY <1>1, <2>1, LinesAre
<1> HIDE DEF n, s, t
<1>4. /\ Tail(s) \in Seq(LogMessage) /\ Len(Tail(s)) = n - 1
      /\ \A i \in 1..n - 1 : Tail(s)[i] = s[i + 1]
  BY <1>1, <1>2
<1>5. \A i \in 1..n - 1 : Tail(s)[i] = t[i]
  <2> TAKE i \in 1..n - 1
  <2>1. i + 1 \in 1..n /\ lost + (i + 1) = (lost + 1) + i
    BY <1>1
  <2> QED
    BY <1>2, <1>3, <1>4, <2>1
<1>6. Tail(s) = t
  BY <1>1, <1>3, <1>4, <1>5
<1> QED
  BY <1>6 DEF s, t

(* A new message comes after them. *)
LEMMA LinesOfAppend ==
  ASSUME NEW e \in Seq(Nat), NEW x \in Nat, NEW lost \in Nat, lost <= Len(e)
  PROVE  Lines(Append(e, x), lost) = Append(Lines(e, lost), [number |-> Len(e) + 1, lines |-> x])
<1> DEFINE n == Len(e) - lost
           f == Append(e, x)
           m == [number |-> Len(e) + 1, lines |-> x]
           s == Lines(e, lost)
           t == Lines(f, lost)
<1>1. /\ n \in Nat /\ f \in Seq(Nat) /\ Len(f) = Len(e) + 1 /\ f[Len(e) + 1] = x
      /\ \A i \in 1..Len(e) : f[i] = e[i]
      /\ Len(f) - lost = n + 1 /\ lost <= Len(f) /\ lost + n = Len(e) /\ m \in LogMessage
  BY DEF LogMessage
<1>2. /\ s \in Seq(LogMessage) /\ Len(s) = n
      /\ \A i \in 1..n : s[i] = [number |-> lost + i, lines |-> e[lost + i]]
  BY LinesAre
<1> HIDE DEF f
<1>3. /\ t \in Seq(LogMessage) /\ Len(t) = n + 1
      /\ \A i \in 1..n + 1 : t[i] = [number |-> lost + i, lines |-> f[lost + i]]
  <2>1. /\ t \in Seq(LogMessage) /\ Len(t) = Len(f) - lost
        /\ \A i \in 1..Len(f) - lost : t[i] = [number |-> lost + i, lines |-> f[lost + i]]
    BY <1>1, LinesAre
  <2> HIDE DEF n, t
  <2> QED
    BY <1>1, <2>1
<1>4. \A i \in 1..n : lost + i \in 1..Len(e)
  BY <1>1
<1>5. t[n + 1] = m /\ \A i \in 1..n : t[i] = s[i]
  <2>1. n + 1 \in 1..n + 1 /\ lost + (n + 1) = Len(e) + 1
    BY <1>1
  <2>2. \A i \in 1..n : i \in 1..n + 1
    BY <1>1
  <2> QED
    BY <1>1, <1>2, <1>3, <1>4, <2>1, <2>2
<1> HIDE DEF n, s, t, m
<1>6. t = Append(s, m)
  BY <1>1, <1>2, <1>3, <1>5
<1> QED
  BY <1>6 DEF s, t, f, m

(* BufferLogger::log() keeps the latest messages. *)
LEMMA PushOne ==
  ASSUME NEW e \in Seq(Nat), NEW x \in Nat
  PROVE  Push(Latest(e), [number |-> Len(e) + 1, lines |-> x]) = Latest(Append(e, x))
<1> DEFINE m == [number |-> Len(e) + 1, lines |-> x]
           f == Append(e, x)
<1>1. /\ Len(e) \in Nat /\ BufferSize \in Nat /\ f \in Seq(Nat) /\ Len(f) = Len(e) + 1
  BY BufferSizeAssumption
<1>2. CASE Len(e) > BufferSize
  <2> DEFINE lost == Len(e) - BufferSize
  <2>1. /\ lost \in Nat /\ lost <= Len(e) /\ lost < Len(f) /\ Len(f) > BufferSize
        /\ Len(f) - BufferSize = lost + 1 /\ Len(f) - lost > BufferSize /\ lost <= Len(f)
    BY <1>1, <1>2
  <2>2. Latest(e) = Lines(e, lost) /\ Latest(f) = Lines(f, lost + 1)
    BY <1>2, <2>1 DEF Latest
  <2> HIDE DEF lost, m
  <2>3. Append(Lines(e, lost), m) = Lines(f, lost)
    BY <2>1, LinesOfAppend DEF m
  <2> HIDE DEF f
  <2>4. Len(Lines(f, lost)) > BufferSize
    BY <1>1, <2>1, LinesAre
  <2>5. Tail(Lines(f, lost)) = Lines(f, lost + 1)
    BY <1>1, <2>1, TailOfLines
  <2>6. Push(Latest(e), m) = Latest(f)
    BY <2>2, <2>3, <2>4, <2>5 DEF Push
  <2> QED
    BY <2>6 DEF m, f
<1>3. CASE ~(Len(e) > BufferSize)
  <2>1. Latest(e) = Lines(e, 0) /\ 0 <= Len(e) /\ 0 <= Len(f) /\ 0 < Len(f)
    BY <1>1, <1>3 DEF Latest
  <2> HIDE DEF m
  <2>2. Append(Lines(e, 0), m) = Lines(f, 0)
    BY <2>1, LinesOfAppend DEF m
  <2> HIDE DEF f
  <2>3. Len(Lines(f, 0)) = Len(f)
    BY <1>1, <2>1, LinesAre
  <2>4. CASE Len(f) > BufferSize
    <3>1. Latest(f) = Lines(f, 0 + 1)
      <4>1. Len(f) - BufferSize = 1
        BY <1>1, <1>3, <2>4
      <4> QED
        BY <2>4, <4>1 DEF Latest
    <3>2. Tail(Lines(f, 0)) = Lines(f, 0 + 1)
      BY <1>1, <2>1, TailOfLines
    <3>3. Push(Latest(e), m) = Latest(f)
      BY <2>1, <2>2, <2>3, <2>4, <3>1, <3>2 DEF Push
    <3> QED
      BY <3>3 DEF m, f
  <2>5. CASE ~(Len(f) > BufferSize)
    <3>1. Latest(f) = Lines(f, 0)
      BY <2>5 DEF Latest
    <3>2. Push(Latest(e), m) = Latest(f)
      BY <2>1, <2>2, <2>3, <2>5, <3>1 DEF Push
    <3> QED
      BY <3>2 DEF m, f
  <2> QED
    BY <2>4, <2>5
<1> QED
  BY <1>2, <1>3

(* So it does when several come, by induction over how many. *)
LEMMA PushAll ==
  ASSUME NEW e \in Seq(Nat), NEW lines \in Seq(Nat)
  PROVE  Pushed(Latest(e), New(e, lines)) = Latest(e \o lines)
<1> DEFINE n == Len(lines)
           new == New(e, lines)
           Following(f, i) == IF i = 0 THEN Latest(e) ELSE Push(f[i - 1], new[i])
           IsLoop(f, k) == f = [i \in 0..k |-> Following(f, i)]
           Defined == {k \in Nat : \E f : IsLoop(f, k)}
<1>1. /\ n \in Nat /\ Len(new) = n
      /\ \A i \in 1..n : lines[i] \in Nat /\ new[i] = [number |-> Len(e) + i, lines |-> lines[i]]
  BY DEF New
<1> HIDE DEF new
<1>2. 0 \in Defined
  <2> DEFINE f == [i \in 0..0 |-> Latest(e)]
  <2>1. IsLoop(f, 0)
    OBVIOUS
  <2> HIDE DEF f, IsLoop
  <2> QED
    BY <2>1
<1>3. \A k \in Nat : k \in Defined => k + 1 \in Defined
  <2>1. SUFFICES ASSUME NEW k \in Nat, NEW f, IsLoop(f, k) PROVE \E g : IsLoop(g, k + 1)
    <3> HIDE DEF IsLoop
    <3> QED
      OBVIOUS
  <2> DEFINE g == [i \in 0..k + 1 |-> IF i <= k THEN f[i] ELSE Following(f, i)]
  <2>2. \A i \in 0..k : f[i] = Following(f, i)
    BY <2>1
  <2>3. \A i \in 0..k + 1 : g[i] = Following(g, i)
    BY <2>2
  <2>4. IsLoop(g, k + 1)
    BY <2>3
  <2> HIDE DEF g, IsLoop
  <2> QED
    BY <2>4
<1>4. \E f : IsLoop(f, n)
  <2> HIDE DEF IsLoop
  <2>1. n \in Defined
    <3> HIDE DEF Defined
    <3> QED
      BY <1>1, <1>2, <1>3, SetInduction
  <2> QED
    BY <2>1
<1> DEFINE after == CHOOSE f : IsLoop(f, n)
<1>5. IsLoop(after, n)
  <2> HIDE DEF IsLoop
  <2> QED
    BY <1>4
<1>6. Pushed(Latest(e), new) = after[n]
  BY <1>1 DEF Pushed
<1> HIDE DEF after
<1>7. \A i \in 0..n : after[i] = Following(after, i)
  BY <1>5
<1> HIDE DEF IsLoop
<1> DEFINE first(k) == SubSeq(lines, 1, k)
           Good == {k \in Nat : k \in 0..n => after[k] = Latest(e \o first(k))}
<1>8. 0 \in Good
  <2>1. e \o first(0) = e /\ after[0] = Latest(e)
    BY <1>1, <1>7
  <2> HIDE DEF first
  <2> QED
    BY <2>1
<1>9. \A k \in Nat : k \in Good => k + 1 \in Good
  <2>1. SUFFICES ASSUME NEW k \in Nat, k \in Good, k + 1 \in 0..n
                 PROVE  after[k + 1] = Latest(e \o first(k + 1))
    OBVIOUS
  <2>2. k \in 0..n /\ k + 1 \in 1..n /\ (k + 1) - 1 = k /\ k + 1 # 0
    BY <1>1, <2>1
  <2> DEFINE p == e \o first(k)
             x == lines[k + 1]
  <2>3. after[k + 1] = Push(after[k], new[k + 1])
    BY <1>7, <2>2
  <2>4. after[k] = Latest(p)
    BY <2>1, <2>2
  <2>5. p \in Seq(Nat) /\ Len(p) = Len(e) + k /\ x \in Nat /\ e \o first(k + 1) = Append(p, x)
    <3>1. first(k) \in Seq(Nat) /\ Len(first(k)) = k /\ first(k + 1) = Append(first(k), x)
      BY <1>1, <2>2
    <3>2. x \in Nat
      BY <1>1, <2>2
    <3> DEFINE s == first(k)
    <3>3. s \in Seq(Nat) /\ Len(s) = k /\ first(k + 1) = Append(s, x)
      BY <3>1
    <3> HIDE DEF s, first, x
    <3>4. e \o s \in Seq(Nat) /\ Len(e \o s) = Len(e) + k
      BY <3>3, ConcatProperties
    <3>5. e \o Append(s, x) = Append(e \o s, x)
      BY <3>2, <3>3
    <3> QED
      BY <3>2, <3>3, <3>4, <3>5 DEF s
  <2>6. new[k + 1] = [number |-> Len(p) + 1, lines |-> x]
    BY <1>1, <2>2, <2>5
  <2> HIDE DEF p, x, first
  <2> QED
    BY <2>3, <2>4, <2>5, <2>6, PushOne
<1>10. n \in Good
  <2> HIDE DEF Good
  <2> QED
    BY <1>1, <1>8, <1>9, SetInduction
<1>11. first(n) = lines
  OBVIOUS
<1> HIDE DEF first
<1> QED
  BY <1>1, <1>6, <1>10, <1>11 DEF new

(* Each message leaves something in the file, its last line at the end. *)
LEMMA PiecesOfLines ==
  ASSUME NEW m \in LogMessage
  PROVE  /\ Pieces(m) \in Seq(PieceOfLog) /\ Pieces(m) # <<>>
         /\ m.lines = 2 => Last(Pieces(m)).line = 2
<1>1. CASE m.lines = 0
  BY <1>1 DEF Pieces, Piece, PieceOfLog, LogMessage
<1>2. CASE m.lines # 0
  <2> DEFINE n == m.lines
             f == [k \in 1..n |-> Piece(m, k, TRUE)]
  <2>1. n \in Nat \ {0} /\ Pieces(m) = f /\ f \in [1..n -> PieceOfLog]
    BY <1>2 DEF Pieces, Piece, PieceOfLog, LogMessage
  <2>2. n \in 1..n /\ f[n].line = n
    BY <2>1 DEF Piece
  <2> HIDE DEF f
  <2>3. f \in Seq(PieceOfLog) /\ Len(f) = n /\ f # <<>>
    BY <2>1
  <2> QED
    BY <2>1, <2>2, <2>3 DEF Last
<1> QED
  BY <1>1, <1>2

(* The pieces of messages are sequences of pieces. *)
LEMMA AllPiecesOf ==
  ASSUME NEW a \in Seq(LogMessage)
  PROVE  AllPieces(a) \in [1..Len(a) -> Seq(PieceOfLog)] /\ Len(a) \in Nat
<1>1. DOMAIN a = 1..Len(a) /\ \A i \in 1..Len(a) : a[i] \in LogMessage
  OBVIOUS
<1>2. \A i \in 1..Len(a) : Pieces(a[i]) \in Seq(PieceOfLog)
  BY <1>1, PiecesOfLines
<1> QED
  BY <1>1, <1>2 DEF AllPieces

(* To write more is to have written all of it. *)
LEMMA WriteAll ==
  ASSUME NEW a \in Seq(LogMessage), NEW b \in Seq(LogMessage)
  PROVE  Write(FlattenSeq(AllPieces(a)), b) = FlattenSeq(AllPieces(a \o b))
<1> DEFINE x == AllPieces(a)
           y == AllPieces(b)
           c == a \o b
           z == AllPieces(c)
<1>1. /\ c \in Seq(LogMessage) /\ Len(c) = Len(a) + Len(b) /\ Len(a) \in Nat /\ Len(b) \in Nat
      /\ \A i \in 1..Len(a) : i \in 1..Len(c) /\ c[i] = a[i]
      /\ \A i \in 1..Len(b) : Len(a) + i \in 1..Len(c) /\ c[Len(a) + i] = b[i]
  OBVIOUS
<1> HIDE DEF c
<1>2. /\ x \in [1..Len(a) -> Seq(PieceOfLog)] /\ y \in [1..Len(b) -> Seq(PieceOfLog)]
      /\ z \in [1..Len(c) -> Seq(PieceOfLog)]
  BY <1>1, AllPiecesOf
<1>3. /\ \A i \in 1..Len(a) : x[i] = Pieces(a[i])
      /\ \A i \in 1..Len(b) : y[i] = Pieces(b[i])
      /\ \A i \in 1..Len(c) : z[i] = Pieces(c[i])
  BY <1>1 DEF AllPieces
<1> HIDE DEF x, y, z
<1>4. /\ x \in Seq(Seq(PieceOfLog)) /\ y \in Seq(Seq(PieceOfLog)) /\ z \in Seq(Seq(PieceOfLog))
      /\ Len(x) = Len(a) /\ Len(y) = Len(b) /\ Len(z) = Len(c)
  <2>1. \A n \in Nat : \A f \in [1..n -> Seq(PieceOfLog)] :
            f \in Seq(Seq(PieceOfLog)) /\ Len(f) = n
    OBVIOUS
  <2>2. Len(c) \in Nat
    BY <1>1
  <2> QED
    BY <1>1, <1>2, <2>1, <2>2
<1>5. \A i \in 1..Len(x) : z[i] = x[i]
  BY <1>1, <1>3, <1>4
<1>6. \A i \in 1..Len(y) : z[Len(x) + i] = y[i]
  BY <1>1, <1>3, <1>4
<1>7. z = x \o y
  <2>1. Len(z) = Len(x) + Len(y)
    BY <1>1, <1>4
  <2> QED
    BY <1>4, <1>5, <1>6, <2>1, ConcatIs
<1>8. FlattenSeq(x \o y) = FlattenSeq(x) \o FlattenSeq(y)
  <2>1. /\ Len(a) \in Nat /\ Len(b) \in Nat
        /\ x \in [1..Len(a) -> Seq(PieceOfLog)] /\ y \in [1..Len(b) -> Seq(PieceOfLog)]
    BY <1>1, <1>2
  <2> QED
    BY <2>1, FlattenConcat
<1>9. Write(FlattenSeq(x), b) = FlattenSeq(x) \o FlattenSeq(y)
  BY DEF Write, y, AllPieces
<1> QED
  BY <1>7, <1>8, <1>9 DEF x, z, c

(* What is logged comes after what was. *)
LEMMA NewLines ==
  ASSUME NEW e \in Seq(Nat), NEW lines \in Seq(Nat), NEW lost \in Nat, lost <= Len(e)
  PROVE  /\ New(e, lines) \in Seq(LogMessage)
         /\ Lines(e \o lines, lost) = Lines(e, lost) \o New(e, lines)
<1> DEFINE all == e \o lines
           n == Len(e) - lost
           l == Len(lines)
           new == New(e, lines)
           s == Lines(e, lost)
           t == Lines(all, lost)
<1>1. /\ all \in Seq(Nat) /\ Len(all) = Len(e) + l /\ Len(e) \in Nat /\ l \in Nat
      /\ \A i \in 1..Len(e) : all[i] = e[i]
      /\ \A i \in 1..l : all[Len(e) + i] = lines[i]
  OBVIOUS
<1>2. n \in Nat /\ lost + n = Len(e) /\ lost <= Len(e) + l /\ (Len(e) + l) - lost = n + l
  BY <1>1
<1>3. new \in Seq(LogMessage) /\ Len(new) = l
             /\ \A i \in 1..l : new[i] = [number |-> Len(e) + i, lines |-> lines[i]]
  <2>1. new = [i \in 1..l |-> [number |-> Len(e) + i, lines |-> lines[i]]]
    BY DEF New
  <2>2. \A i \in 1..l : lines[i] \in Nat /\ Len(e) + i \in Nat
    BY <1>1
  <2>3. /\ new \in [1..l -> LogMessage]
        /\ \A i \in 1..l : new[i] = [number |-> Len(e) + i, lines |-> lines[i]]
    BY <2>1, <2>2 DEF LogMessage
  <2>4. l \in Nat
    BY <1>1
  <2> HIDE DEF new, l
  <2>5. new \in Seq(LogMessage) /\ Len(new) = l
    BY <2>3, <2>4
  <2> QED
    BY <2>3, <2>5
<1>4. s \in Seq(LogMessage) /\ Len(s) = n
             /\ \A i \in 1..n : s[i] = [number |-> lost + i, lines |-> e[lost + i]]
  BY LinesAre
<1> HIDE DEF all
<1>5. t \in Seq(LogMessage) /\ Len(t) = n + l
             /\ \A i \in 1..n + l : t[i] = [number |-> lost + i, lines |-> all[lost + i]]
  <2>1. /\ t \in Seq(LogMessage) /\ Len(t) = Len(all) - lost
        /\ \A i \in 1..Len(all) - lost : t[i] = [number |-> lost + i, lines |-> all[lost + i]]
    BY <1>1, <1>2, LinesAre
  <2> HIDE DEF n, t, l
  <2> QED
    BY <1>1, <1>2, <2>1
<1> HIDE DEF n, l, s, t, new
<1>6. ASSUME NEW i \in 1..Len(s) PROVE t[i] = s[i]
  <2>1. i \in 1..n /\ n \in Nat /\ l \in Nat /\ lost \in Nat /\ lost + n = Len(e)
    BY <1>1, <1>2, <1>4
  <2>2. lost + i \in 1..lost + n /\ i \in 1..n + l
    BY <2>1
  <2>3. all[lost + i] = e[lost + i]
    BY <1>1, <2>1, <2>2
  <2> QED
    BY <1>4, <1>5, <2>1, <2>2, <2>3
<1>7. ASSUME NEW i \in 1..Len(new) PROVE t[Len(s) + i] = new[i]
  <2>1. i \in 1..l /\ n \in Nat /\ l \in Nat /\ lost \in Nat /\ lost + n = Len(e) /\ Len(s) = n
    BY <1>1, <1>2, <1>3, <1>4
  <2>2. n + i \in 1..n + l /\ lost + (n + i) = (lost + n) + i
    BY <2>1
  <2>3. t[n + i] = [number |-> lost + (n + i), lines |-> all[lost + (n + i)]]
    BY <1>5, <2>2
  <2>4. all[(lost + n) + i] = lines[i]
    BY <1>1, <2>1
  <2> QED
    BY <1>3, <2>1, <2>2, <2>3, <2>4
<1>8. t = s \o new
  <2>1. /\ s \in Seq(LogMessage) /\ new \in Seq(LogMessage) /\ t \in Seq(LogMessage)
        /\ Len(t) = Len(s) + Len(new)
    BY <1>3, <1>4, <1>5
  <2> QED
    BY <1>6, <1>7, <2>1, ConcatIs
<1> QED
  BY <1>3, <1>8 DEF s, t, new, all

(* Only what came early can be lost. *)
LEMMA LostIs ==
  ASSUME early \in Nat PROVE Lost \in Nat /\ Lost <= early
BY BufferSizeAssumption DEF Lost

(* Log() keeps what the installed logger has in step with the history. *)
LEMMA LogStep ==
  ASSUME LoggerInv, logger \in {"buffer", "file"}, NEW lines \in Seq(Nat), Log(lines)
  PROVE  /\ emitted' = emitted \o lines /\ emitted' \in Seq(Nat) /\ early' \in Nat
         /\ logger' = logger
         /\ logger = "buffer" => Buffered'
         /\ logger = "file" => Filed' /\ early' = early
<1> DEFINE new == New(emitted, lines)
<1>1. /\ emitted \in Seq(Nat) /\ early \in Nat /\ Len(lines) \in Nat /\ Len(emitted) \in Nat
      /\ emitted' = emitted \o lines /\ logger' = logger
      /\ early' = IF logger = "buffer" THEN early + Len(lines) ELSE early
      /\ buffer' = IF logger = "buffer" THEN Pushed(buffer, new) ELSE buffer
      /\ written' = IF logger = "file" THEN Write(written, new) ELSE written
  BY DEF LoggerInv, Log, New
<1>2. emitted' \in Seq(Nat) /\ Len(emitted') = Len(emitted) + Len(lines) /\ early' \in Nat
  BY <1>1
<1> HIDE DEF new
<1>3. CASE logger = "buffer"
  <2>1. Buffered
    BY <1>3 DEF LoggerInv
  <2>2. Pushed(buffer, new) = Latest(emitted')
    BY <1>1, <2>1, PushAll DEF Buffered, new
  <2>3. buffer' = Latest(emitted') /\ early' = Len(emitted') /\ written' = <<>>
    BY <1>1, <1>2, <1>3, <2>1, <2>2 DEF Buffered
  <2>4. Latest(emitted)' = Latest(emitted')
    BY DEF Latest, Lines
  <2> QED
    BY <1>1, <1>2, <1>3, <2>3, <2>4 DEF Buffered
<1>4. CASE logger = "file"
  <2>1. Filed
    BY <1>4 DEF LoggerInv
  <2>2. Lost' = Lost /\ Lost \in Nat /\ Lost <= Len(emitted)
    BY <1>1, <1>4, <2>1, LostIs DEF Lost, Filed
  <2>3. /\ new \in Seq(LogMessage) /\ Lines(emitted, Lost) \in Seq(LogMessage)
        /\ Lines(emitted', Lost) = Lines(emitted, Lost) \o new
    BY <1>1, <2>2, NewLines, LinesAre DEF new
  <2>4. written' = FlattenSeq(AllPieces(Lines(emitted', Lost)))
    BY <1>1, <1>4, <2>1, <2>3, WriteAll DEF Filed
  <2>5. FlattenSeq(AllPieces(Lines(emitted, Lost)))' = FlattenSeq(AllPieces(Lines(emitted', Lost)))
    BY <2>2 DEF Lines, AllPieces, Pieces, Piece
  <2>6. early' = early /\ early <= Len(emitted') /\ buffer' = <<>>
    BY <1>1, <1>2, <1>4, <2>1 DEF Filed
  <2> QED
    BY <1>1, <1>2, <1>4, <2>4, <2>5, <2>6 DEF Filed
<1> QED
  BY <1>3, <1>4

(* The file ends with the last line of the last message. *)
LEMMA LastIsWritten ==
  ASSUME NEW e \in Seq(Nat), NEW lost \in Nat, lost < Len(e)
  PROVE  /\ FlattenSeq(AllPieces(Lines(e, lost))) # <<>>
         /\ e[Len(e)] = 2 => Last(FlattenSeq(AllPieces(Lines(e, lost)))).line = 2
<1> DEFINE n == Len(e) - lost
           a == Lines(e, lost)
           x == AllPieces(a)
<1>1. lost <= Len(e) /\ n \in Nat \ {0} /\ lost + n = Len(e)
  OBVIOUS
<1>2. /\ a \in Seq(LogMessage) /\ Len(a) = n
      /\ \A i \in 1..n : a[i] = [number |-> lost + i, lines |-> e[lost + i]]
  BY <1>1, LinesAre
<1> HIDE DEF a, n
<1>3. n \in 1..n /\ a[n] \in LogMessage /\ a[n].lines = e[Len(e)]
  <2>1. n \in 1..n /\ n \in DOMAIN a
    BY <1>1, <1>2
  <2>2. a[n] \in LogMessage
    BY <1>2, <2>1
  <2>3. a[n].lines = e[lost + n]
    BY <1>2, <2>1
  <2> QED
    BY <1>1, <2>1, <2>2, <2>3
<1>4. x \in [1..n -> Seq(PieceOfLog)] /\ x[n] = Pieces(a[n])
  BY <1>2, <1>3, AllPiecesOf DEF AllPieces
<1> HIDE DEF x
<1>5. Pieces(a[n]) # <<>> /\ (a[n].lines = 2 => Last(Pieces(a[n])).line = 2)
  BY <1>3, PiecesOfLines
<1>6. FlattenSeq(x) # <<>> /\ Last(FlattenSeq(x)) = Last(x[n])
  BY <1>1, <1>4, <1>5, FlattenLast
<1>7. FlattenSeq(x) # <<>> /\ (e[Len(e)] = 2 => Last(FlattenSeq(x)).line = 2)
  BY <1>3, <1>4, <1>5, <1>6
<1> QED
  BY <1>7 DEF x, a

(* What each logger has is what the property says. *)
LEMMA LogIsCompleteFromInv ==
  ASSUME IInv, LInv PROVE LogIsComplete
<1> DEFINE numbers == [i \in 1..(Len(emitted) - Lost) |-> Lost + i]
           Entry(n) == [number |-> n, lines |-> emitted[n]]
<1>1. /\ emitted \in Seq(Nat) /\ Len(emitted) \in Nat /\ early \in Nat
      /\ Lost \in Nat /\ Lost <= early
  BY LostIs DEF LInv, LoggerInv
<1>2. /\ Lines(emitted, Lost) = [i \in DOMAIN numbers |-> Entry(numbers[i])]
      /\ AllPieces(Lines(emitted, Lost)) = [i \in DOMAIN numbers |-> Pieces(Entry(numbers[i]))]
  BY DEF Lines, AllPieces
<1>3. Buffered => buffer = Lines(emitted, Lost)
  BY DEF Buffered, Latest, Lost
<1>4. Filed /\ written = <<>> => buffer = Lines(emitted, Lost)
  <2> SUFFICES ASSUME Filed, written = <<>> PROVE buffer = Lines(emitted, Lost)
    OBVIOUS
  <2>1. ~(Lost < Len(emitted))
    BY <1>1, LastIsWritten DEF Filed
  <2>2. Lost = Len(emitted) /\ Len(emitted) - Lost = 0
    BY <1>1, <2>1 DEF Filed
  <2>3. Lines(emitted, Lost) = <<>>
    BY <2>2 DEF Lines
  <2> QED
    BY <2>3 DEF Filed
<1>5. CASE logger = "buffer" \/ (pc = "done" /\ written = <<>>)
  <2>1. Buffered \/ (Filed /\ written = <<>>)
    BY <1>5 DEF LInv, LoggerInv
  <2>2. written = <<>> /\ buffer = Lines(emitted, Lost)
    BY <1>3, <1>4, <2>1 DEF Buffered
  <2> HIDE DEF numbers, Entry
  <2>3. buffer = [i \in DOMAIN numbers |-> Entry(numbers[i])]
    BY <1>2, <2>2
  <2> QED
    BY <1>5, <2>2, <2>3 DEF LogIsComplete, numbers, Entry
<1>6. CASE ~(logger = "buffer" \/ (pc = "done" /\ written = <<>>))
  <2>1. Filed \/ pc = "start"
    <3>1. pc \in Early \cup InPool \cup Over
      BY DEF IInv, ConfigInv
    <3> QED
      BY <1>6, <3>1 DEF LInv, LoggerInv, PlaceInv, Buffered, Early, InPool, Over
  <2>2. buffer = <<>> /\ written = FlattenSeq(AllPieces(Lines(emitted, Lost)))
    <3>1. CASE Filed
      BY <3>1 DEF Filed
    <3>2. CASE pc = "start"
      <4>1. emitted = <<>> /\ Buffered
        BY <3>2 DEF LInv, LoggerInv
      <4>2. Len(emitted) - Lost = 0
        BY <1>1, <4>1 DEF Buffered
      <4>3. Lines(emitted, Lost) = <<>> /\ AllPieces(<<>>) = <<>>
        BY <4>2 DEF Lines, AllPieces
      <4>4. FlattenSeq(<<>>) = <<>>
        BY DEF FlattenSeq
      <4> QED
        BY <1>3, <4>1, <4>3, <4>4 DEF Buffered
    <3> QED
      BY <2>1, <3>1, <3>2
  <2>3. throws /\ pc = "done" => Last(written).line = 2
    BY <1>6 DEF LInv, ThrowInv
  <2> HIDE DEF numbers, Entry
  <2>4. written = FlattenSeq([i \in DOMAIN numbers |-> Pieces(Entry(numbers[i]))])
    BY <1>2, <2>2
  <2> QED
    BY <1>6, <2>2, <2>3, <2>4 DEF LogIsComplete, numbers, Entry
<1> QED
  BY <1>5, <1>6

(* Before anything is logged. *)
LEMMA LogInitInv == Init => LInv
<1> SUFFICES ASSUME Init PROVE LInv
  OBVIOUS
<1>1. /\ pc = "start" /\ throws = FALSE /\ logger = "none" /\ emitted = <<>> /\ early = 0
      /\ buffer = <<>> /\ written = <<>>
  BY ZenonT(60) DEF Init, LogInit
<1>2. pool = <<>> /\ windows \in FirstWindows
  BY ZenonT(60) DEF Init, EntitiesInit, DesktopInit
<1>3. Len(emitted) = 0 /\ early = Len(emitted) /\ emitted \in Seq(Nat) /\ early \in Nat
  BY <1>1
<1>4. Latest(emitted) = <<>>
  <2>1. ~(0 > BufferSize)
    BY BufferSizeAssumption
  <2> QED
    BY <1>3, <2>1 DEF Latest, Lines
<1>5. LoggerInv
  BY <1>1, <1>3, <1>4 DEF LoggerInv, Buffered
<1>6. PlaceInv /\ ThrowInv
  BY <1>1 DEF PlaceInv, ThrowInv, InPool
<1>7. FiniteInv
  BY <1>2, FS_EmptySet, WindowsAssumption DEF FiniteInv
<1> QED
  BY <1>5, <1>6, <1>7 DEF LInv

(* There are six entities that are not configured.                          *)
LEMMA FiniteBuiltins == IsFiniteSet(DOMAIN Builtins)
<1> DEFINE a == {"app", "brightness"}
           b == a \cup {"heos"}
           c == b \cup {"keyboard"}
           d == c \cup {"volume"}
           e == d \cup {"volume_icon"}
<1>1. IsFiniteSet(a)
  <2>1. IsFiniteSet({} \cup {"app"})
    BY FS_EmptySet, FS_AddElement
  <2>2. IsFiniteSet(({} \cup {"app"}) \cup {"brightness"})
    BY <2>1, FS_AddElement
  <2>3. ({} \cup {"app"}) \cup {"brightness"} = a
    OBVIOUS
  <2> QED
    BY <2>2, <2>3
<1>2. IsFiniteSet(b)
  BY <1>1, FS_AddElement
<1>3. IsFiniteSet(c)
  BY <1>2, FS_AddElement
<1>4. IsFiniteSet(d)
  BY <1>3, FS_AddElement
<1>5. IsFiniteSet(e)
  BY <1>4, FS_AddElement
<1>6. DOMAIN Builtins \subseteq e
  BY DEF Builtins
<1> QED
  BY <1>5, <1>6, FS_Subset

(* Nobody but the explorer opens windows, and entities are finitely many.   *)
LEMMA FiniteStep ==
  ASSUME IInv, FiniteInv, [Next]_vars PROVE FiniteInv'
<1>1. CASE InstallBufferLogger \/ InitializePlatform \/ ParseArguments \/ RefuseArguments \/ RunHelp
           \/ RunVersion \/ ListKeys \/ OpenLog \/ LoadConfig \/ CheckIds \/ CannotCreate \/ Quit
           \/ Catch \/ CleanUp \/ Waits \/ Terminated \/ UNCHANGED vars
  <2>1. UNCHANGED <<pool, windows>>
    BY <1>1 DEF InstallBufferLogger, InitializePlatform, ParseArguments, RefuseArguments, RunHelp,
       RunVersion, ListKeys, OpenLog, LoadConfig, CheckIds, CannotCreate, Quit, Catch, CleanUp,
       Waits, Terminated, vars, worldVars, entityVars, desktopVars, windowVars
  <2> QED
    BY <2>1 DEF FiniteInv
<1>2. CASE ListEntities \/ MakePool
  <2>1. pool' = Builtins /\ windows' = windows
    BY <1>2 DEF ListEntities, MakePool, CreateBuiltins, windowVars
  <2>2. IsFiniteSet(DOMAIN Builtins)
    BY FiniteBuiltins
  <2> QED
    BY <2>1, <2>2 DEF FiniteInv
<1>3. CASE CreateNext
  <2>1. pool' = With(pool, Current, TypeOf(Record(Current))) /\ windows' = windows
    BY <1>3 DEF CreateNext, CreateEntity, windowVars
  <2>2. DOMAIN pool' = DOMAIN pool \cup {Current}
    BY <2>1 DEF With
  <2> QED
    BY <2>1, <2>2, FS_AddElement DEF FiniteInv
<1>4. CASE LoadNext
  <2>1. pc = "load" /\ LoadEntity(Current)
    BY <1>4 DEF LoadNext
  <2>2. Current \in DOMAIN pool
    BY <2>1, Progress, PoolIsTypes, TypesOf
  <2> QED
    BY <2>1, <2>2, LoadEffect DEF FiniteInv
<1>5. CASE CannotLoad
  BY <1>5 DEF CannotLoad, PartOfLoad, FiniteInv
<1>6. CASE Erase \/ ClosePool
  <2>1. \E ids : DestroyEntities(ids)
    BY <1>6 DEF Erase, ClosePool
  <2>2. DOMAIN pool' \subseteq DOMAIN pool /\ windows' = windows
    BY <2>1 DEF DestroyEntities, Forget
  <2> QED
    BY <2>2, FS_Subset DEF FiniteInv
<1>7. CASE DispatchHotkey \/ ProcessInput \/ UpdateTrayIconSize
  <2>1. UNCHANGED <<pool, windows>>
    BY <1>7 DEF DispatchHotkey, HandleHotkey, ProcessInput, HandleInput, UpdateTrayIconSize,
       HandleTaskbarCreated, Invoke, windowVars
  <2> QED
    BY <2>1 DEF FiniteInv
<1>8. CASE UserPressesKey \/ UserTurnsWheel \/ DpiChanges \/ BackendChanges \/ PrimaryScreenChanges
           \/ GeometryChanges
  <2>1. UNCHANGED <<pool, windows>>
    BY <1>8 DEF UserPressesKey, UserTurnsWheel, DpiChanges, Posts, PressKey, TurnWheel, ChangeDpi,
       BackendChanges, SettingChanged, PrimaryScreenChanges, ChangePrimaryScreen, GeometryChanges,
       ChangeGeometry, entityVars, desktopVars, windowVars
  <2> QED
    BY <2>1 DEF FiniteInv
<1>9. CASE WindowsChange
  <2>1. PICK w \in DOMAIN NativeWindows : ChangeWindows(w)
    BY <1>9 DEF WindowsChange
  <2>2. pool' = pool
    BY <1>9 DEF WindowsChange, entityVars
  <2> QED
    BY <2>1, <2>2 DEF ChangeWindows, FiniteInv
<1> QED
  BY <1>1, <1>2, <1>3, <1>4, <1>5, <1>6, <1>7, <1>8, <1>9 DEF Next

(* A message does not change where messages go. *)
LEMMA Logged ==
  ASSUME LInv, logger \in {"buffer", "file"}, NEW lines \in Seq(Nat), Log(lines),
         pc' \notin {"start", "done"}
  PROVE  LoggerInv' /\ logger' = logger
<1>1. /\ emitted' \in Seq(Nat) /\ early' \in Nat /\ logger' = logger
      /\ logger = "buffer" => Buffered'
      /\ logger = "file" => Filed'
  BY LogStep DEF LInv
<1> QED
  BY <1>1 DEF LoggerInv

(* Without a message everything is where it was. *)
LEMMA SameLog ==
  ASSUME LoggerInv, UNCHANGED logVars, pc' \notin {"start", "done"} PROVE LoggerInv'
<1>1. UNCHANGED <<logger, emitted, early, buffer, written>>
  BY DEF logVars
<1>2. Lost' = Lost /\ Latest(emitted)' = Latest(emitted)
  BY <1>1 DEF Lost, Latest, Lines
<1>3. AllPieces(Lines(emitted, Lost))' = AllPieces(Lines(emitted, Lost))
  BY <1>1, <1>2 DEF Lines, AllPieces, Pieces, Piece
<1>4. (Buffered => Buffered') /\ (Filed => Filed')
  BY <1>1, <1>2, <1>3 DEF Buffered, Filed
<1> QED
  BY <1>1, <1>4 DEF LoggerInv

(* Warnings are messages of one line. *)
LEMMA LinesOfWarnings ==
  ASSUME NEW n \in Nat PROVE [i \in 1..n |-> 1] \in Seq(Nat)
OBVIOUS

(* There are only finitely many windows to warn of. *)
LEMMA WarningsAreFinite == ASSUME FiniteInv PROVE SearchWarnings \in Nat
<1> DEFINE S == {w \in windows : NativeWindows[w].hasChild /\ ~NativeWindows[w].opens}
<1>1. S \subseteq DOMAIN NativeWindows
  BY DEF FiniteInv
<1>2. IsFiniteSet(S)
  BY <1>1, FS_Subset, WindowsAssumption
<1>3. Cardinality(S) \in Nat
  BY <1>2, FS_CardinalityType
<1> DEFINE n == Cardinality(S)
           m == IF Cardinality(Candidates) > 1 THEN 1 ELSE 0
<1>4. SearchWarnings = n + m
  BY DEF SearchWarnings
<1>5. n \in Nat /\ m \in Nat
  BY <1>3
<1> HIDE DEF n, m
<1> QED
  BY <1>4, <1>5

(* How a run goes on while the logger stays the same and nothing is caught. *)
GoesOnLogging ==
    \/ throws' = throws /\ pc = "initialize" /\ pc' = "parse"
    \/ throws' = throws /\ pc = "parse" /\ pc' \in {"help", "version", "list", "service", "cleanup"}
    \/ throws' = throws /\ pc \in {"help", "version", "list"} /\ pc' \in {"cleanup", "close"}
    \/ throws' = throws /\ pc = "config" /\ pc' = "pool"
    \/ /\ throws' = throws /\ pc \in {"pool", "check", "create", "load", "exec"}
       /\ pc' \in {"check", "create", "load", "exec"}
    \/ throws' = throws /\ pc = "exec" /\ pc' = "close"
    \/ throws' = throws /\ pc = "close" /\ throws /\ pc' = "caught"
    \/ throws' = throws /\ pc = "close" /\ ~throws /\ pc' = "cleanup"
    \/ throws' = TRUE /\ pc = "config" /\ pc' = "caught"
    \/ throws' = TRUE /\ pc \in {"create", "load"} /\ pc' = "erase"
    \/ throws' = TRUE /\ pc \in {"check", "erase"} /\ pc' = "close"

(* Then the logger is still the one of this part of the run, and nothing is *)
(* on its way that was not caught.                                          *)
LEMMA GoesOnInv ==
  ASSUME LInv, GoesOnLogging, logger' = logger
  PROVE  PlaceInv' /\ ThrowInv' /\ pc' \notin {"start", "done"}
<1> USE DEF InPool, Over
<1>1. PlaceInv /\ ThrowInv
  BY DEF LInv
<1>2. PlaceInv' /\ pc' \notin {"start", "done"}
  BY <1>1 DEF PlaceInv, GoesOnLogging
<1>3. throws' => pc' \in {"erase", "close"} \cup Over
  BY <1>1 DEF ThrowInv, GoesOnLogging
<1>4. pc' = "cleanup" => ~throws'
  BY <1>1 DEF ThrowInv, GoesOnLogging
<1> QED
  BY <1>2, <1>3, <1>4 DEF ThrowInv

(* Steps that log nothing. *)
LEMMA SilentInv ==
  ASSUME IInv, LInv,
         \/ ParseArguments \/ RefuseArguments \/ RunVersion \/ ListEntities \/ ListKeys
         \/ LoadConfig \/ MakePool \/ CheckIds \/ CreateNext \/ CannotCreate \/ Quit
  PROVE  LoggerInv' /\ PlaceInv' /\ ThrowInv'
<1>1. UNCHANGED logVars /\ GoesOnLogging
  <2>1. CASE ParseArguments
    <3>1. /\ pc = "parse" /\ pc' = Mode(line) /\ throws' = throws /\ UNCHANGED logVars
      BY <2>1 DEF ParseArguments, GoTo
    <3>2. Mode(line) \in {"help", "version", "list", "service"}
      BY DEF Mode
    <3> QED
      BY <3>1, <3>2 DEF GoesOnLogging
  <2>2. CASE RefuseArguments \/ RunVersion \/ ListEntities \/ ListKeys
    <3>1. /\ pc \in {"parse", "version", "list"} /\ throws' = throws /\ UNCHANGED logVars
          /\ pc = "parse" => pc' = "cleanup"
          /\ pc \in {"version", "list"} => pc' \in {"cleanup", "close"}
      BY <2>2 DEF RefuseArguments, RunVersion, ListEntities, ListKeys, GoTo
    <3> QED
      BY <3>1 DEF GoesOnLogging
  <2>3. CASE LoadConfig
    <3>1. /\ pc = "config" /\ UNCHANGED logVars
          /\ (pc' = "pool" /\ throws' = throws) \/ (pc' = "caught" /\ throws' = TRUE)
      BY <2>3 DEF LoadConfig, GoTo, Throw
    <3> QED
      BY <3>1 DEF GoesOnLogging
  <2>4. CASE MakePool \/ CreateNext
    <3>1. /\ pc \in {"pool", "create"} /\ pc' \in {"check", "create", "load"}
          /\ throws' = throws /\ UNCHANGED logVars
      BY <2>4 DEF MakePool, CreateNext, Continue, GoTo
    <3> QED
      BY <3>1 DEF GoesOnLogging
  <2>5. CASE CheckIds \/ CannotCreate
    <3>1. CASE CheckIds
      <4>1. /\ pc = "check" /\ UNCHANGED logVars
            /\ (pc' \in {"exec", "create"} /\ throws' = throws) \/ (pc' = "close" /\ throws' = TRUE)
        BY <3>1 DEF CheckIds, Return, Refused, GoTo
      <4> QED
        BY <4>1 DEF GoesOnLogging
    <3>2. CASE CannotCreate
      BY <3>2 DEF CannotCreate, Throw, GoesOnLogging
    <3> QED
      BY <2>5, <3>1, <3>2
  <2>6. CASE Quit
    BY <2>6 DEF Quit, GoTo, GoesOnLogging
  <2> QED
    BY <2>1, <2>2, <2>3, <2>4, <2>5, <2>6
<1>2. PlaceInv' /\ ThrowInv' /\ pc' \notin {"start", "done"}
  BY <1>1, GoesOnInv DEF logVars
<1>3. LoggerInv'
  BY <1>1, <1>2, SameLog DEF LInv
<1> QED
  BY <1>2, <1>3

(* Steps that warn. *)
LEMMA WarningInv ==
  ASSUME LInv, GoesOnLogging, logger \in {"buffer", "file"}, NEW n \in Nat, LogLines(n)
  PROVE  LoggerInv' /\ PlaceInv' /\ ThrowInv'
<1>1. logger' = logger
  BY DEF LogLines, Log
<1>2. PlaceInv' /\ ThrowInv' /\ pc' \notin {"start", "done"}
  BY <1>1, GoesOnInv
<1>3. LoggerInv'
  <2> DEFINE lines == [i \in 1..n |-> 1]
  <2>1. lines \in Seq(Nat) /\ Log(lines)
    BY LinesOfWarnings DEF LogLines
  <2> HIDE DEF lines
  <2> QED
    BY <1>2, <2>1, Logged
<1> QED
  BY <1>2, <1>3

(* The buffer logger is installed, and the global logger is taken away. *)
LEMMA InstallInv ==
  ASSUME LInv, InstallBufferLogger \/ CleanUp PROVE LoggerInv' /\ PlaceInv' /\ ThrowInv'
<1>1. /\ UNCHANGED <<emitted, early, buffer, written, throws>>
      /\ \/ pc = "start" /\ pc' = "initialize" /\ logger' = "buffer"
         \/ pc = "cleanup" /\ pc' = "done" /\ logger' = "none"
  BY DEF InstallBufferLogger, CleanUp, GoTo, InstallGlobalLogger
<1>2. Lost' = Lost /\ Latest(emitted)' = Latest(emitted)
  BY <1>1 DEF Lost, Latest, Lines
<1>3. AllPieces(Lines(emitted, Lost))' = AllPieces(Lines(emitted, Lost))
  BY <1>1, <1>2 DEF Lines, AllPieces, Pieces, Piece
<1>4. (Buffered => Buffered') /\ (Filed => Filed')
  BY <1>1, <1>2, <1>3 DEF Buffered, Filed
<1>5. LoggerInv' /\ PlaceInv'
  BY <1>1, <1>4 DEF LInv, LoggerInv, PlaceInv, InPool
<1>6. ThrowInv'
  BY <1>1 DEF LInv, ThrowInv, Over
<1> QED
  BY <1>5, <1>6

(* What was buffered is what the file begins with. *)
LEMMA OpenLogInv ==
  ASSUME LInv, OpenLog PROVE LoggerInv' /\ PlaceInv' /\ ThrowInv'
<1>1. /\ pc = "service" /\ logger' = "file" /\ UNCHANGED <<emitted, early>>
      /\ written' = Write(written, buffer) /\ buffer' = <<>>
      /\ (pc' = "config" /\ throws' = throws) \/ (pc' = "caught" /\ throws' = TRUE)
  BY DEF OpenLog, FlushAndInstall, InstallGlobalLogger, GoTo, Throw
<1>2. emitted \in Seq(Nat) /\ early \in Nat /\ Buffered
  BY <1>1 DEF LInv, LoggerInv, PlaceInv
<1>3. Lost \in Nat /\ Lost <= Len(emitted) /\ buffer = Lines(emitted, Lost)
  BY <1>2, LostIs DEF Buffered, Latest, Lost
<1>4. Write(<<>>, buffer) = FlattenSeq(AllPieces(buffer))
  <2>1. buffer \in Seq(LogMessage)
    BY <1>2, <1>3, LinesAre
  <2>2. AllPieces(<<>>) = <<>> /\ <<>> \in Seq(LogMessage) /\ <<>> \o buffer = buffer
    BY <2>1 DEF AllPieces
  <2>3. FlattenSeq(<<>>) = <<>>
    BY DEF FlattenSeq
  <2>4. Write(FlattenSeq(AllPieces(<<>>)), buffer) = FlattenSeq(AllPieces(<<>> \o buffer))
    BY <2>1, <2>2, WriteAll
  <2> QED
    BY <2>2, <2>3, <2>4
<1>5. AllPieces(Lines(emitted, Lost))' = AllPieces(Lines(emitted, Lost))
  BY <1>1 DEF Lost, Lines, AllPieces, Pieces, Piece
<1>6. Filed'
  BY <1>1, <1>2, <1>3, <1>4, <1>5 DEF Filed, Buffered
<1>7. LoggerInv' /\ PlaceInv'
  BY <1>1, <1>2, <1>6 DEF LoggerInv, PlaceInv, InPool
<1>8. ThrowInv'
  BY <1>1 DEF LInv, ThrowInv, Over
<1> QED
  BY <1>7, <1>8

(* The last message of a service that failed is the exception. *)
LEMMA CatchInv ==
  ASSUME LInv, Catch PROVE LoggerInv' /\ PlaceInv' /\ ThrowInv'
<1> DEFINE lines == <<2>>
<1>1. /\ pc = "caught" /\ pc' = "cleanup" /\ throws' = throws /\ Log(lines)
      /\ lines \in Seq(Nat) /\ Len(lines) = 1 /\ lines[1] = 2
      /\ logger \in {"buffer", "file"} /\ emitted \in Seq(Nat)
  BY DEF Catch, GoTo, LInv, PlaceInv, LoggerInv
<1> HIDE DEF lines
<1>2. LoggerInv' /\ logger' = logger
  BY <1>1, Logged
<1>3. PlaceInv'
  BY <1>1, <1>2 DEF LInv, PlaceInv, InPool
<1>4. /\ emitted' = emitted \o lines /\ emitted' \in Seq(Nat) /\ early' \in Nat
      /\ logger = "buffer" => written' = <<>>
      /\ logger = "file" => Filed' /\ Lost' = Lost /\ Filed
  <2>1. /\ emitted' = emitted \o lines /\ emitted' \in Seq(Nat) /\ early' \in Nat
        /\ logger = "buffer" => Buffered'
        /\ logger = "file" => Filed' /\ early' = early
    BY <1>1, LogStep DEF LInv
  <2>2. logger = "file" => Filed
    BY DEF LInv, LoggerInv
  <2> QED
    BY <2>1, <2>2 DEF Buffered, Lost
<1>5. ASSUME logger = "file" PROVE Last(written').line = 2
  <2>1. Lost \in Nat /\ Lost <= Len(emitted)
    BY <1>4, <1>5, LostIs DEF LInv, LoggerInv, Filed
  <2>2. Len(emitted') = Len(emitted) + 1 /\ emitted'[Len(emitted) + 1] = 2
    <3> DEFINE e == emitted
               f == emitted'
    <3>1. e \in Seq(Nat) /\ lines \in Seq(Nat) /\ Len(lines) = 1 /\ lines[1] = 2 /\ f = e \o lines
      BY <1>1, <1>4
    <3> HIDE DEF e, f
    <3> DEFINE k == Len(e) + 1
    <3>2. /\ k \in 1..Len(e) + Len(lines) /\ k - Len(e) = 1 /\ ~(k <= Len(e))
          /\ Len(e) + Len(lines) = k
      BY <3>1
    <3>3. /\ Len(f) = Len(e) + Len(lines)
          /\ \A i \in 1..Len(e) + Len(lines) :
                f[i] = IF i <= Len(e) THEN e[i] ELSE lines[i - Len(e)]
      BY <3>1, ConcatProperties
    <3> HIDE DEF k
    <3>4. f[k] = lines[k - Len(e)]
      BY <3>2, <3>3
    <3>5. Len(f) = k /\ f[k] = 2
      BY <3>1, <3>2, <3>3, <3>4
    <3> QED
      BY <3>5 DEF e, f, k
  <2>3. emitted' \in Seq(Nat) /\ Lost < Len(emitted') /\ emitted'[Len(emitted')] = 2
    BY <1>4, <2>1, <2>2
  <2>4. Last(FlattenSeq(AllPieces(Lines(emitted', Lost)))).line = 2
    BY <2>1, <2>3, LastIsWritten
  <2>5. written' = FlattenSeq(AllPieces(Lines(emitted', Lost)))
    <3>1. FlattenSeq(AllPieces(Lines(emitted, Lost)))'
              = FlattenSeq(AllPieces(Lines(emitted', Lost)))
      BY <1>4, <1>5 DEF Lines, AllPieces, Pieces, Piece
    <3> QED
      BY <1>4, <1>5, <3>1 DEF Filed
  <2> QED
    BY <2>4, <2>5
<1>6. ThrowInv'
  BY <1>1, <1>4, <1>5 DEF ThrowInv, Over
<1> QED
  BY <1>2, <1>3, <1>6

(* The platform logs what it likes when it is initialized. *)
LEMMA InitializePlatformInv ==
  ASSUME LInv, InitializePlatform PROVE LoggerInv' /\ PlaceInv' /\ ThrowInv'
<1>1. pc = "initialize" /\ pc' = "parse" /\ throws' = throws /\ logger = "buffer"
  BY DEF InitializePlatform, GoTo, LInv, PlaceInv
<1>2. PICK lines \in MessagesAtStart : Log(lines)
  BY DEF InitializePlatform
<1>3. lines \in Seq(Nat)
  BY MessagesAssumption
<1>4. LoggerInv' /\ logger' = logger
  BY <1>1, <1>2, <1>3, Logged
<1> QED
  BY <1>1, <1>4, GoesOnInv DEF GoesOnLogging

(* An event in the loop invokes finitely many closures. *)
LEMMA CallsAreFinite ==
  ASSUME IInv, FiniteInv, NEW ids \in SUBSET loaded,
         NEW closures, closures = {Closure(id) : id \in ids},
         LogCalls(closures)
  PROVE  \E n \in Nat : LogLines(n)
<1> DEFINE Calls(method) == Cardinality({c \in closures : c.action = method})
<1>1. IsFiniteSet(ids)
  BY FS_Subset DEF FiniteInv, IInv, OwnedInv
<1>2. IsFiniteSet(closures)
  <2> DEFINE f == [id \in ids |-> Closure(id)]
  <2>1. f \in Surjection(ids, closures)
    <3>1. f \in [ids -> closures] /\ \A c \in closures : \E id \in ids : f[id] = c
      OBVIOUS
    <3> HIDE DEF f
    <3> QED
      BY <3>1 DEF Surjection
  <2> HIDE DEF f
  <2> QED
    BY <1>1, <2>1, FS_Surjection
<1>3. \A method : Calls(method) \in Nat
  <2> TAKE method
  <2>1. IsFiniteSet({c \in closures : c.action = method})
    BY <1>2, FS_Subset
  <2> QED
    BY <2>1, FS_CardinalityType
<1>4. LogLines(Calls("debugAction") + SearchWarnings * Calls("ensureNativeOsdHidden"))
  BY DEF LogCalls
<1> HIDE DEF Calls
<1> DEFINE a == Calls("debugAction")
           b == Calls("ensureNativeOsdHidden")
<1>5. a \in Nat /\ b \in Nat /\ SearchWarnings \in Nat /\ LogLines(a + SearchWarnings * b)
  BY <1>3, <1>4, WarningsAreFinite
<1> HIDE DEF a, b
<1>6. a + SearchWarnings * b \in Nat
  BY <1>5
<1> QED
  BY <1>5, <1>6

(* Steps of the pool that may warn: one of them after the other. *)
LEMMA PoolLogs ==
  ASSUME IInv, LInv, RunHelp \/ LoadNext \/ CannotLoad \/ Erase \/ ClosePool
  PROVE  \E n \in Nat : LogLines(n)
<1>1. FiniteInv /\ SearchWarnings \in Nat
  BY WarningsAreFinite DEF LInv
<1>2. CASE RunHelp
  <2>1. \E w \in ConsoleWidths : LogLines(IF w = 0 THEN 1 ELSE 0)
    BY <1>2 DEF RunHelp
  <2> QED
    BY <2>1
<1>3. CASE LoadNext \/ CannotLoad
  <2>1. LogLines(LoadWarnings(Current))
    BY <1>3 DEF LoadNext, CannotLoad
  <2>2. LoadWarnings(Current) \in Nat
    BY <1>1 DEF LoadWarnings
  <2> QED
    BY <2>1, <2>2
<1>4. CASE Erase \/ ClosePool
  <2>1. IsFiniteSet(hiding)
    BY <1>1, FS_Subset DEF FiniteInv, IInv, OwnedInv
  <2>2. Cardinality(hiding) \in Nat
    BY <2>1, FS_CardinalityType
  <2> DEFINE k == Cardinality(hiding)
  <2>3. k \in Nat /\ LogLines(SearchWarnings * k)
    BY <1>4, <2>2 DEF Erase, ClosePool
  <2> HIDE DEF k
  <2>4. SearchWarnings * k \in Nat
    BY <1>1, <2>3
  <2> QED
    BY <2>3, <2>4
<1> QED
  BY <1>2, <1>3, <1>4

(* So do the methods that a message of Windows calls. *)
LEMMA LoopLogs ==
  ASSUME IInv, LInv, DispatchHotkey \/ ProcessInput \/ UpdateTrayIconSize
  PROVE  \E n \in Nat : LogLines(n)
<1>1. FiniteInv
  BY DEF LInv
<1>2. CASE DispatchHotkey
  <2> DEFINE ids == NotifierOf(Head(messages))
             closures == {Closure(id) : id \in ids}
  <2>1. HandleHotkey /\ LogCalls(handled'.invoked) /\ pc = "exec"
    BY <1>2 DEF DispatchHotkey, InEventLoop
  <2>2. handled'.invoked = closures
    BY <2>1 DEF HandleHotkey, Handled
  <2>3. ids \in SUBSET loaded
    BY <2>1 DEF NotifierOf, IInv, HotKeyInv
  <2>4. LogCalls(closures) /\ closures = {Closure(id) : id \in ids}
    BY <2>1, <2>2
  <2> HIDE DEF ids, closures
  <2> QED
    BY <1>1, <2>3, <2>4, CallsAreFinite
<1>3. CASE ProcessInput
  <2>1. HandleInput /\ LogCalls(handled'.invoked)
    BY <1>3 DEF ProcessInput
  <2>2. PICK receivers :
            handled'.invoked =
                {Closure(id) : id \in Triggered(receivers, Head(messages).combination)}
    BY <2>1 DEF HandleInput, Handled
  <2> DEFINE ids == Triggered(receivers, Head(messages).combination)
             closures == {Closure(id) : id \in ids}
  <2>3. ids \in SUBSET loaded
    BY DEF Triggered, Loaded
  <2>4. LogCalls(closures) /\ closures = {Closure(id) : id \in ids}
    BY <2>1, <2>2
  <2> HIDE DEF ids, closures
  <2> QED
    BY <1>1, <2>3, <2>4, CallsAreFinite
<1>4. CASE UpdateTrayIconSize
  BY <1>4 DEF UpdateTrayIconSize
<1> QED
  BY <1>2, <1>3, <1>4

(* Whoever warns goes on. *)
LEMMA LoggingInv ==
  ASSUME IInv, LInv,
         \/ RunHelp \/ LoadNext \/ CannotLoad \/ Erase \/ ClosePool
         \/ DispatchHotkey \/ ProcessInput \/ UpdateTrayIconSize
  PROVE  LoggerInv' /\ PlaceInv' /\ ThrowInv'
<1>1. PICK n \in Nat : LogLines(n)
  BY PoolLogs, LoopLogs
<1>2. GoesOnLogging /\ pc \in {"help"} \cup InPool
  <2>1. CASE RunHelp
    BY <2>1 DEF RunHelp, GoTo, GoesOnLogging
  <2>2. CASE LoadNext
    <3>1. pc = "load" /\ pc' \in {"load", "exec"} /\ throws' = throws
      BY <2>2 DEF LoadNext, Continue, Return, GoTo
    <3> QED
      BY <3>1 DEF GoesOnLogging, InPool
  <2>3. CASE CannotLoad
    BY <2>3 DEF CannotLoad, Throw, GoesOnLogging, InPool
  <2>4. CASE Erase
    BY <2>4 DEF Erase, Refused, GoesOnLogging, InPool
  <2>5. CASE ClosePool
    <3>1. /\ pc = "close" /\ throws' = throws
          /\ pc' = IF throws THEN "caught" ELSE "cleanup"
      BY <2>5 DEF ClosePool
    <3>2. (throws /\ pc' = "caught") \/ (~throws /\ pc' = "cleanup")
      BY <3>1
    <3> QED
      BY <3>1, <3>2 DEF GoesOnLogging, InPool
  <2>6. CASE DispatchHotkey \/ ProcessInput \/ UpdateTrayIconSize
    <3>1. pc = "exec" /\ pc' = "exec" /\ throws' = throws
      BY <2>6 DEF DispatchHotkey, ProcessInput, UpdateTrayIconSize, InEventLoop, GoTo
    <3> QED
      BY <3>1 DEF GoesOnLogging, InPool
  <2> QED
    BY <2>1, <2>2, <2>3, <2>4, <2>5, <2>6
<1>3. logger \in {"buffer", "file"}
  BY <1>2 DEF LInv, PlaceInv, InPool
<1> QED
  BY <1>1, <1>2, <1>3, WarningInv

(* The user and Windows log nothing. *)
LEMMA StandingInv ==
  ASSUME LInv,
         \/ UserPressesKey \/ UserTurnsWheel \/ DpiChanges \/ WindowsChange
         \/ BackendChanges \/ PrimaryScreenChanges \/ GeometryChanges
         \/ Waits \/ Terminated \/ UNCHANGED vars
  PROVE  LoggerInv' /\ PlaceInv' /\ ThrowInv'
<1>1. UNCHANGED <<pc, throws, logger, emitted, early, buffer, written>>
  BY DEF UserPressesKey, UserTurnsWheel, DpiChanges, WindowsChange, BackendChanges,
         PrimaryScreenChanges, GeometryChanges, Posts, Acts, Waits, Terminated, vars, logVars
<1>2. LoggerInv'
  <2>1. Lost' = Lost /\ Latest(emitted)' = Latest(emitted)
    BY <1>1 DEF Lost, Latest, Lines
  <2>2. AllPieces(Lines(emitted, Lost))' = AllPieces(Lines(emitted, Lost))
    BY <1>1, <2>1 DEF Lines, AllPieces, Pieces, Piece
  <2>3. (Buffered => Buffered') /\ (Filed => Filed')
    BY <1>1, <2>1, <2>2 DEF Buffered, Filed
  <2> QED
    BY <1>1, <2>3 DEF LInv, LoggerInv
<1>3. PlaceInv' /\ ThrowInv'
  BY <1>1 DEF LInv, PlaceInv, ThrowInv
<1> QED
  BY <1>2, <1>3

(* Every step keeps the log. *)
LEMMA LogStepInv == IInv /\ LInv /\ [Next]_vars => LInv'
<1> SUFFICES ASSUME IInv, LInv, [Next]_vars PROVE LInv'
  OBVIOUS
<1>1. FiniteInv'
  BY FiniteStep DEF LInv
<1>2. LoggerInv' /\ PlaceInv' /\ ThrowInv'
  BY SilentInv, InstallInv, OpenLogInv, CatchInv, InitializePlatformInv, LoggingInv, StandingInv
     DEF Next
<1> QED
  BY <1>1, <1>2 DEF LInv

(* Where the messages are at each step of the run, and which logger has     *)
(* them.                                                                    *)
THEOREM LogInvariant == Spec => []LInv
BY LogInitInv, LogStepInv, Invariant, PTL DEF Spec

(* The log has every message that was not pushed out of the full buffer, in *)
(* order, whatever the size of the buffer and the number of messages.       *)
THEOREM LogKeepsAll == Spec => []LogIsComplete
BY LogIsCompleteFromInv, Invariant, LogInvariant, PTL

-----------------------------------------------------------------------------
(* A text has a character, and its line feeds are white space. *)
IsText(text) ==
    /\ text.length \in Nat \ {0}
    /\ text.spaces \subseteq 0..text.length - 1 /\ text.feeds \subseteq text.spaces

(* The character wrapText() ends a line at, and where it does so. *)
EndsAt(text, size, start, n) ==
    Min({start + size, text.length - 1} \cup {f \in text.feeds : f >= n /\ f # 0})
Cut(text, size, start, n) == Break(text, size, start, n, EndsAt(text, size, start, n))

(* The last of the spaces a line may be broken at. *)
LEMMA BreakableIs ==
  ASSUME NEW text, IsText(text), NEW n \in Nat, NEW i \in Nat
  PROVE  LET p == Breakable(text, n, i)
         IN  /\ p \in 0..i
             /\ p # 0 => p \in text.spaces /\ n <= p
             /\ \A s \in text.spaces : n <= s /\ s <= i => s <= p
<1> DEFINE S == {0} \cup {p \in text.spaces : n <= p /\ p <= i}
<1>1. text.spaces \subseteq Nat
  BY DEF IsText
<1>2. S \in SUBSET (0..i) /\ S # {}
  BY <1>1
<1>3. Max(S) \in S /\ \A k \in S : k <= Max(S)
  <2> HIDE DEF S
  <2> QED
    BY <1>2, MaxIsGreatest
<1>4. Breakable(text, n, i) = Max(S)
  BY DEF Breakable
<1> QED
  BY <1>2, <1>3, <1>4

(* What the loop in wrapText() stops at. *)
LEMMA EndsAtIs ==
  ASSUME NEW text, IsText(text), NEW size \in Nat, NEW start \in 0..text.length,
         NEW n \in 0..text.length - 1
  PROVE  LET i == EndsAt(text, size, start, n)
         IN  /\ i \in 0..text.length - 1 /\ i <= start + size
             /\ i = start + size \/ i = text.length - 1 \/ (i \in text.feeds /\ n <= i)
<1> DEFINE S == {start + size, text.length - 1} \cup {f \in text.feeds : f >= n /\ f # 0}
<1>1. text.length \in Nat \ {0} /\ text.feeds \subseteq Nat
  BY DEF IsText
<1>2. S \in SUBSET Nat /\ S # {}
  BY <1>1
<1>3. Min(S) \in S /\ \A k \in S : Min(S) <= k
  <2> HIDE DEF S
  <2> QED
    BY <1>2, MinIsLeast
<1>4. EndsAt(text, size, start, n) = Min(S)
  BY DEF EndsAt
<1> DEFINE i == Min(S)
<1>5. i \in S /\ i <= start + size /\ i <= text.length - 1
  BY <1>3
<1>6. i \in Nat
  BY <1>2, <1>3
<1>7. i = start + size \/ i = text.length - 1 \/ (i \in text.feeds /\ i >= n)
  BY <1>5
<1> HIDE DEF i, S
<1> QED
  BY <1>1, <1>4, <1>5, <1>6, <1>7 DEF i

(* Wherever a line starts, the next one starts within the text, and the     *)
(* loop goes on, unless what it looked at was already too much.             *)
LEMMA CutIsInText ==
  ASSUME NEW text, IsText(text), NEW size \in Nat \ {0}, NEW start \in 0..text.length,
         NEW n \in 0..text.length - 1
  PROVE  LET i == EndsAt(text, size, start, n)
             b == Cut(text, size, start, n)
         IN  /\ b[2] \in 0..i + 1
             /\ n <= start + size => n <= i
             /\ n > start + size => i = start + size /\ b[2] = i
<1> DEFINE i == EndsAt(text, size, start, n)
           p == Breakable(text, n, i)
           b == Cut(text, size, start, n)
<1>1. /\ i \in 0..text.length - 1 /\ i <= start + size /\ text.length \in Nat \ {0}
      /\ i = start + size \/ i = text.length - 1 \/ (i \in text.feeds /\ n <= i)
  BY EndsAtIs DEF IsText
<1> HIDE DEF i
<1>2. p \in 0..i /\ (p # 0 => p \in text.spaces /\ n <= p)
  BY <1>1, BreakableIs
<1>3. b = IF i = start + size /\ p # 0 THEN <<p, p + 1>>
          ELSE IF i = start + size THEN <<i, i>>
          ELSE IF i = text.length - 1 THEN <<i + 1, i + 1>> ELSE <<i, i + 1>>
  BY DEF Cut, Break, i
<1> HIDE DEF p, b
<1>4. b[2] \in 0..i + 1
  BY <1>1, <1>2, <1>3
<1>5. n <= start + size => n <= i
  BY <1>1
<1>6. n > start + size => i = start + size
  BY <1>1
<1>7. n > start + size => b[2] = i
  BY <1>1, <1>2, <1>3, <1>6
<1> QED
  BY <1>4, <1>5, <1>6, <1>7 DEF i, b

(* A line of the size is cut where nothing but a space gets lost. *)
LEMMA CutIsRight ==
  ASSUME NEW text, IsText(text), NEW size \in Nat \ {0}, NEW start \in 0..text.length,
         NEW n \in 0..text.length - 1, start <= n, n <= start + size
  PROVE  LET i == EndsAt(text, size, start, n)
             b == Cut(text, size, start, n)
         IN  /\ i \in n..text.length - 1
             /\ b[1] \in Nat /\ b[1] - start <= size
             /\ b[2] \in 0..i + 1 /\ i + 1 <= b[2] + size
             /\ i + 1 # text.length =>
                    (b[2] = b[1] + 1 /\ b[1] \in text.spaces)
                        \/ (b[2] = b[1] /\ b[1] \notin text.spaces)
             /\ i + 1 = text.length =>
                    b[1] = text.length
                        \/ (text.length - start = size + 1 /\ \A s \in text.spaces : s <= b[1])
<1> DEFINE i == EndsAt(text, size, start, n)
           p == Breakable(text, n, i)
           b == Cut(text, size, start, n)
<1>1. /\ i \in n..text.length - 1 /\ i <= start + size /\ text.length \in Nat \ {0}
      /\ i = start + size \/ i = text.length - 1 \/ i \in text.feeds
  <2>1. /\ i \in 0..text.length - 1 /\ i <= start + size
        /\ i = start + size \/ i = text.length - 1 \/ (i \in text.feeds /\ n <= i)
    BY EndsAtIs
  <2>2. text.length \in Nat \ {0}
    BY DEF IsText
  <2> HIDE DEF i
  <2>3. n <= i
    BY <2>1, <2>2
  <2> QED
    BY <2>1, <2>2, <2>3
<1> HIDE DEF i
<1>2. /\ p \in 0..i /\ (p # 0 => p \in text.spaces /\ n <= p)
      /\ \A s \in text.spaces : n <= s /\ s <= i => s <= p
  <2>1. i \in Nat /\ n \in Nat
    BY <1>1
  <2>2. p = Breakable(text, n, i)
    OBVIOUS
  <2> HIDE DEF p
  <2> QED
    BY <2>1, <2>2, BreakableIs
<1>3. b = IF i = start + size /\ p # 0 THEN <<p, p + 1>>
          ELSE IF i = start + size THEN <<i, i>>
          ELSE IF i = text.length - 1 THEN <<i + 1, i + 1>> ELSE <<i, i + 1>>
  BY DEF Cut, Break, i
<1>4. text.spaces \subseteq 0..text.length - 1 /\ text.feeds \subseteq text.spaces
  BY DEF IsText
<1> HIDE DEF p, b
<1>5. CASE i = start + size /\ p # 0
  <2>1. b[1] = p /\ b[2] = p + 1
    BY <1>3, <1>5
  <2>2. i + 1 = text.length => text.length - start = size + 1 /\ \A s \in text.spaces : s <= p
    <3>1. ASSUME i + 1 = text.length, NEW s \in text.spaces PROVE s <= p
      BY <1>1, <1>2, <1>4, <1>5, <3>1
    <3> QED
      BY <1>1, <1>5, <3>1
  <2> QED
    BY <1>1, <1>2, <1>5, <2>1, <2>2 DEF i, b
<1>6. CASE i = start + size /\ p = 0
  <2>1. b[1] = i /\ b[2] = i
    BY <1>3, <1>6
  <2>2. i \notin text.spaces
    BY <1>1, <1>2, <1>6
  <2>3. i + 1 = text.length => text.length - start = size + 1 /\ \A s \in text.spaces : s <= i
    BY <1>1, <1>4, <1>6
  <2> QED
    BY <1>1, <1>6, <2>1, <2>2, <2>3 DEF i, b
<1>7. CASE i # start + size
  <2>1. i < start + size
    BY <1>1, <1>7
  <2>2. CASE i = text.length - 1
    BY <1>1, <1>3, <1>7, <2>1, <2>2 DEF i, b
  <2>3. CASE i # text.length - 1
    BY <1>1, <1>3, <1>4, <1>7, <2>1, <2>3 DEF i, b
  <2> QED
    BY <2>2, <2>3
<1> QED
  BY <1>5, <1>6, <1>7

(* The lines of a text, and what is read of some of them that begin at a    *)
(* place.                                                                   *)
TextLines == [from : Nat, to : Nat]
AreReadable(text, size, start, lines) ==
    /\ lines \in Seq(TextLines) /\ lines # <<>> /\ lines[1].from = start
    /\ GoesOn(text, lines) /\ NothingLost(text, lines, size)
    /\ \A k \in 1..Len(lines) : lines[k].to - lines[k].from <= size

(* One line is put in front of others. *)
LEMMA LineInFront ==
  ASSUME NEW text, NEW size \in Nat, NEW piece \in TextLines, NEW lines, NEW start \in Nat,
         AreReadable(text, size, start, lines),
         piece.to - piece.from <= size,
         \/ start = piece.to + 1 /\ piece.to \in text.spaces
         \/ start = piece.to     /\ piece.to \notin text.spaces
  PROVE  AreReadable(text, size, piece.from, <<piece>> \o lines)
<1> DEFINE all == <<piece>> \o lines
<1>1. /\ lines \in Seq(TextLines) /\ lines # <<>> /\ lines[1].from = start
      /\ Len(lines) \in Nat \ {0}
  BY DEF AreReadable
<1>2. /\ all \in Seq(TextLines) /\ Len(all) = Len(lines) + 1 /\ all[1] = piece
      /\ \A k \in 1..Len(lines) : all[k + 1] = lines[k]
  BY <1>1
<1>3. all # <<>> /\ Last(all) = Last(lines)
  BY <1>1, <1>2 DEF Last
<1> HIDE DEF all
<1>4. \A k \in 2..Len(all) : k - 1 \in 1..Len(lines) /\ all[k] = lines[k - 1]
  <2> TAKE k \in 2..Len(all)
  <2>1. k - 1 \in 1..Len(lines) /\ (k - 1) + 1 = k
    BY <1>1, <1>2
  <2>2. all[(k - 1) + 1] = lines[k - 1]
    BY <1>2, <2>1
  <2> QED
    BY <2>1, <2>2
<1>5. GoesOn(text, all)
  <2>1. ASSUME NEW k \in 1..(Len(all) - 1)
        PROVE  \/ all[k + 1].from = all[k].to + 1 /\ all[k].to \in text.spaces
               \/ all[k + 1].from = all[k].to     /\ all[k].to \notin text.spaces
    <3>1. k \in 1..Len(lines) /\ all[k + 1] = lines[k]
      BY <1>1, <1>2
    <3>2. CASE k = 1
      BY <1>1, <1>2, <3>1, <3>2
    <3>3. CASE k # 1
      <4>1. k - 1 \in 1..(Len(lines) - 1) /\ (k - 1) + 1 = k /\ all[k] = lines[k - 1]
        BY <1>1, <1>2, <1>4, <3>1, <3>3
      <4>2. \/ lines[k].from = lines[k - 1].to + 1 /\ lines[k - 1].to \in text.spaces
            \/ lines[k].from = lines[k - 1].to     /\ lines[k - 1].to \notin text.spaces
        BY <4>1 DEF AreReadable, GoesOn
      <4> QED
        BY <3>1, <4>1, <4>2
    <3> QED
      BY <3>2, <3>3
  <2> QED
    BY <2>1 DEF GoesOn
<1>6. NothingLost(text, all, size)
  BY <1>3 DEF AreReadable, NothingLost
<1>7. \A k \in 1..Len(all) : all[k].to - all[k].from <= size
  <2> TAKE k \in 1..Len(all)
  <2>1. CASE k = 1
    BY <1>2, <2>1
  <2>2. CASE k # 1
    <3>1. k \in 2..Len(all)
      BY <1>1, <1>2, <2>2
    <3> QED
      BY <1>4, <3>1 DEF AreReadable
  <2> QED
    BY <2>1, <2>2
<1> QED
  BY <1>2, <1>3, <1>5, <1>6, <1>7 DEF AreReadable, all

(* wrapText() keeps every text, but for a last character that costs a word, *)
(* whatever the width.                                                      *)
THEOREM TextIsKept ==
  ASSUME NEW text, IsText(text), NEW size \in Nat \ {0}
  PROVE  AreReadable(text, size, 0, WrapText(text, size))
<1> DEFINE L == text.length
           D == (0..L) \X (0..L)
           stop == {p \in D : p[2] = L}
           Ends(p) == EndsAt(text, size, p[1], p[2])
           Goal(p) == Cut(text, size, p[1], p[2])
           InStep(p) == p[1] <= p[2] /\ p[2] <= p[1] + size
           piece == [p \in D |-> [from |-> p[1], to |-> Goal(p)[1]]]
           next == [p \in D |-> IF p \in stop THEN p ELSE <<Goal(p)[2], Ends(p) + 1>>]
           measure == [p \in D |-> IF InStep(p) THEN L - p[2]
                                   ELSE IF p[2] > p[1] + size THEN L + 1 ELSE L + 2]
           IsWrap(f) ==
               f = [at \in (0..text.length) \X (0..text.length) |->
                    LET start == at[1]
                        n == at[2]
                        i == Min({start + size, text.length - 1}
                                    \cup {g \in text.feeds : g >= n /\ g # 0})
                        b == Break(text, size, start, n, i)
                    IN  IF n = text.length THEN <<>>
                        ELSE <<[from |-> start, to |-> b[1]]>> \o f[<<b[2], i + 1>>]]
<1>1. L \in Nat \ {0}
  BY DEF IsText
<1>2. ASSUME NEW p \in D \ stop
      PROVE  /\ Ends(p) \in 0..L - 1 /\ Goal(p)[2] \in 0..Ends(p) + 1
             /\ p[2] <= p[1] + size => p[2] <= Ends(p)
             /\ p[2] > p[1] + size => Goal(p)[2] = Ends(p)
  <2> DEFINE s == p[1]
             n == p[2]
  <2>1. s \in 0..text.length /\ n \in 0..text.length - 1
    BY <1>1
  <2> HIDE DEF s, n
  <2>2. /\ Cut(text, size, s, n)[2] \in 0..EndsAt(text, size, s, n) + 1
        /\ n <= s + size => n <= EndsAt(text, size, s, n)
        /\ n > s + size => /\ EndsAt(text, size, s, n) = s + size
                           /\ Cut(text, size, s, n)[2] = EndsAt(text, size, s, n)
    BY <2>1, CutIsInText
  <2>3. EndsAt(text, size, s, n) \in 0..text.length - 1
    BY <2>1, EndsAtIs
  <2> QED
    BY <2>2, <2>3 DEF s, n
<1>3. ASSUME NEW p \in D \ stop, InStep(p)
      PROVE  /\ Ends(p) \in p[2]..L - 1 /\ Goal(p)[1] \in Nat /\ Goal(p)[1] - p[1] <= size
             /\ Goal(p)[2] \in 0..Ends(p) + 1 /\ Ends(p) + 1 <= Goal(p)[2] + size
             /\ Ends(p) + 1 # L =>
                    (Goal(p)[2] = Goal(p)[1] + 1 /\ Goal(p)[1] \in text.spaces)
                        \/ (Goal(p)[2] = Goal(p)[1] /\ Goal(p)[1] \notin text.spaces)
             /\ Ends(p) + 1 = L =>
                    \/ Goal(p)[1] = L
                    \/ L - p[1] = size + 1 /\ \A s \in text.spaces : s <= Goal(p)[1]
  <2> DEFINE s == p[1]
             n == p[2]
             i == EndsAt(text, size, s, n)
             b == Cut(text, size, s, n)
  <2>1. s \in 0..text.length /\ n \in 0..text.length - 1 /\ s <= n /\ n <= s + size
    BY <1>1, <1>3
  <2> HIDE DEF s, n
  <2>2. /\ i \in n..text.length - 1
        /\ b[1] \in Nat /\ b[1] - s <= size
        /\ b[2] \in 0..i + 1 /\ i + 1 <= b[2] + size
        /\ i + 1 # text.length =>
               (b[2] = b[1] + 1 /\ b[1] \in text.spaces)
                   \/ (b[2] = b[1] /\ b[1] \notin text.spaces)
        /\ i + 1 = text.length =>
               b[1] = text.length
                   \/ (text.length - s = size + 1 /\ \A w \in text.spaces : w <= b[1])
    BY <2>1, CutIsRight
  <2> HIDE DEF i, b
  <2>3. i = Ends(p) /\ b = Goal(p)
    BY DEF i, b, s, n
  <2>4. s = p[1] /\ n = p[2]
    BY DEF s, n
  <2> HIDE DEF Ends, Goal
  <2> QED
    BY <2>2, <2>3, <2>4
<1> HIDE DEF Ends, Goal
<1>4. next \in [D -> D]
  <2>1. ASSUME NEW p \in D PROVE next[p] \in D
    <3>1. CASE p \in stop
      BY <3>1
    <3>2. CASE p \notin stop
      <4>1. Goal(p)[2] \in 0..L /\ Ends(p) + 1 \in 0..L
        BY <1>1, <1>2, <3>2
      <4>2. next[p] = <<Goal(p)[2], Ends(p) + 1>>
        BY <3>2
      <4> QED
        BY <4>1, <4>2
    <3> QED
      BY <3>1, <3>2
  <2> QED
    BY <2>1
<1>5. ASSUME NEW p \in D \ stop
      PROVE  /\ next[p][1] = Goal(p)[2] /\ next[p][2] = Ends(p) + 1
             /\ next[p] \in D /\ next[p][1] <= next[p][2]
             /\ p[2] <= p[1] + size => next[p][2] > p[2]
             /\ InStep(p) \/ p[2] > p[1] + size => InStep(next[p])
  <2>1. next[p][1] = Goal(p)[2] /\ next[p][2] = Ends(p) + 1
    OBVIOUS
  <2>2. next[p] \in D
    BY <1>4
  <2>3. p \in D /\ p[1] \in Nat /\ p[2] \in Nat
    OBVIOUS
  <2>4. CASE InStep(p)
    BY <1>1, <1>2, <1>3, <2>1, <2>2, <2>3, <2>4
  <2>5. CASE p[2] > p[1] + size
    BY <1>1, <1>2, <2>1, <2>2, <2>3, <2>5
  <2>6. CASE ~InStep(p) /\ ~(p[2] > p[1] + size)
    BY <1>1, <1>2, <2>1, <2>2, <2>3, <2>6
  <2> QED
    BY <2>4, <2>5, <2>6
<1>6. measure \in [D -> Nat] /\ \A p \in D : measure[p] < L + 3
  <2>1. \A p \in D : measure[p] \in Nat /\ measure[p] < L + 3
    BY <1>1
  <2> QED
    BY <2>1
<1>7. \A p \in D \ stop : measure[next[p]] < measure[p]
  <2> TAKE p \in D \ stop
  <2>1. /\ p \in D /\ p[1] \in Nat /\ p[2] \in Nat /\ p[2] < L
        /\ next[p] \in D /\ next[p][1] \in 0..L /\ next[p][2] \in 0..L
    <3>1. next[p] \in D
      BY <1>5
    <3>2. \A q \in D : q[1] \in 0..L /\ q[2] \in 0..L
      OBVIOUS
    <3>3. p \in D /\ p[1] \in Nat /\ p[2] \in Nat /\ p[2] < L
      BY <1>1
    <3> HIDE DEF next, D
    <3> QED
      BY <3>1, <3>2, <3>3
  <2> HIDE DEF next, D
  <2>2. CASE InStep(p)
    <3>1. measure[p] = L - p[2] /\ measure[next[p]] = L - next[p][2] /\ next[p][2] > p[2]
      BY <1>5, <2>1, <2>2
    <3> QED
      BY <1>1, <2>1, <3>1
  <2>3. CASE ~InStep(p) /\ p[2] > p[1] + size
    <3>1. measure[p] = L + 1 /\ measure[next[p]] = L - next[p][2]
      BY <1>5, <2>1, <2>3
    <3> QED
      BY <1>1, <2>1, <3>1
  <2>4. CASE ~InStep(p) /\ ~(p[2] > p[1] + size)
    <3>1. measure[p] = L + 2
      BY <2>1, <2>4
    <3>2. next[p][1] <= next[p][2]
      BY <1>5
    <3>3. measure[next[p]] <= L + 1
      <4>1. CASE InStep(next[p])
        BY <1>1, <2>1, <4>1
      <4>2. CASE ~InStep(next[p])
        <5>1. next[p][2] > next[p][1] + size
          BY <2>1, <3>2, <4>2
        <5> QED
          BY <1>1, <2>1, <4>2, <5>1
      <4> QED
        BY <4>1, <4>2
    <3>4. measure[next[p]] \in Nat
      BY <1>6, <2>1
    <3> HIDE DEF measure
    <3> QED
      BY <1>1, <3>1, <3>3, <3>4
  <2> QED
    BY <2>2, <2>3, <2>4
<1>8. \A f : Collects(f, D, stop, piece, next) <=> IsWrap(f)
  BY DEF Collects, Ends, Goal, Cut, EndsAt
<1>9. \E f : IsWrap(f)
  <2> DEFINE bound == L + 3
  <2>1. bound \in Nat /\ stop \in SUBSET D /\ \A p \in D : measure[p] < bound
    BY <1>1, <1>6
  <2>2. measure \in [D -> Nat]
    BY <1>6
  <2>3. \E f : Collects(f, D, stop, piece, next)
    <3> HIDE DEF D, stop, piece, next, measure, bound
    <3> QED
      BY <1>4, <1>7, <2>1, <2>2, RecursionIsDefined
  <2> HIDE DEF IsWrap
  <2> QED
    BY <1>8, <2>3
<1> DEFINE wrap == CHOOSE f : IsWrap(f)
<1>10. WrapText(text, size) = wrap[<<0, 0>>]
  BY DEF WrapText
<1>11. \A p \in D : wrap[p] = IF p \in stop THEN <<>> ELSE <<piece[p]>> \o wrap[next[p]]
  <2>1. IsWrap(wrap)
    <3> HIDE DEF IsWrap
    <3> QED
      BY <1>9
  <2> HIDE DEF wrap, IsWrap
  <2>2. Collects(wrap, D, stop, piece, next)
    BY <1>8, <2>1
  <2> HIDE DEF piece, next, stop, D
  <2> QED
    BY <2>2 DEF Collects
<1> HIDE DEF wrap
<1> DEFINE Good == {k \in Nat : \A p \in D \ stop :
                        InStep(p) /\ L - p[2] <= k => AreReadable(text, size, p[1], wrap[p])}
<1>12. 0 \in Good
  <2>1. \A p \in D \ stop : p[2] \in 0..L - 1
    BY <1>1
  <2> QED
    BY <1>1, <2>1
<1>13. \A k \in Nat : k \in Good => k + 1 \in Good
  <2>1. SUFFICES ASSUME NEW k \in Nat, k \in Good, NEW p \in D \ stop, InStep(p), L - p[2] <= k + 1
                 PROVE  AreReadable(text, size, p[1], wrap[p])
    OBVIOUS
  <2>2. /\ p[1] \in Nat /\ p[2] \in Nat /\ p \in D
        /\ piece[p] \in TextLines /\ piece[p].from = p[1] /\ piece[p].to = Goal(p)[1]
    BY <1>3, <2>1 DEF TextLines
  <2>3. /\ next[p][1] = Goal(p)[2] /\ next[p][2] = Ends(p) + 1 /\ next[p] \in D
        /\ InStep(next[p]) /\ next[p][2] > p[2]
    BY <1>5, <2>1
  <2>4. wrap[p] = <<piece[p]>> \o wrap[next[p]]
    BY <1>11, <2>2
  <2>5. CASE Ends(p) + 1 = L
    <3> DEFINE one == piece[p]
    <3>1. wrap[p] = <<one>>
      <4>1. next[p] \in stop
        BY <2>3, <2>5
      <4>2. wrap[next[p]] = <<>>
        BY <1>11, <2>3, <4>1
      <4> QED
        BY <2>4, <4>2
    <3>2. /\ one \in TextLines /\ one.from = p[1] /\ one.to - one.from <= size
          /\ one.to = L \/ (L - one.from = size + 1 /\ \A s \in text.spaces : s <= one.to)
      BY <1>3, <2>1, <2>2, <2>5
    <3> DEFINE lines == <<one>>
    <3> HIDE DEF one
    <3>3. /\ lines \in Seq(TextLines) /\ Len(lines) = 1 /\ lines[1] = one /\ lines # <<>>
          /\ Last(lines) = one
      BY <3>2 DEF Last
    <3> HIDE DEF lines
    <3>4. GoesOn(text, lines)
      BY <3>3 DEF GoesOn
    <3>5. NothingLost(text, lines, size)
      BY <3>2, <3>3 DEF NothingLost
    <3>6. AreReadable(text, size, p[1], lines)
      BY <3>2, <3>3, <3>4, <3>5 DEF AreReadable
    <3> QED
      BY <3>1, <3>6 DEF lines
  <2>6. CASE Ends(p) + 1 # L
    <3>1. next[p] \in D \ stop
      BY <2>3, <2>6
    <3>2. L - next[p][2] <= k
      BY <1>1, <2>1, <2>2, <2>3, <3>1
    <3>3. AreReadable(text, size, next[p][1], wrap[next[p]])
      BY <2>1, <2>3, <3>1, <3>2
    <3>4. /\ piece[p].to - piece[p].from <= size
          /\ \/ next[p][1] = piece[p].to + 1 /\ piece[p].to \in text.spaces
             \/ next[p][1] = piece[p].to     /\ piece[p].to \notin text.spaces
      BY <1>3, <2>1, <2>2, <2>3, <2>6
    <3>5. next[p][1] \in Nat /\ size \in Nat
      BY <3>1
    <3>6. AreReadable(text, size, piece[p].from, <<piece[p]>> \o wrap[next[p]])
      <4> HIDE DEF piece, next
      <4> QED
        BY <2>2, <3>3, <3>4, <3>5, LineInFront
    <3> QED
      BY <2>2, <2>4, <3>6
  <2> QED
    BY <2>5, <2>6
<1>14. L \in Good
  <2> HIDE DEF Good
  <2> QED
    BY <1>1, <1>12, <1>13, SetInduction
<1>15. <<0, 0>> \in D \ stop /\ InStep(<<0, 0>>)
  BY <1>1
<1> QED
  BY <1>1, <1>10, <1>14, <1>15

(* The words of a text make up a text. *)
LEMMA TextOfWords ==
  ASSUME NEW words \in Seq(Nat \ {0}), words # <<>> PROVE IsText(Text(words))
<1> DEFINE n == Len(words)
           IsLoop(f) == f = [i \in 0..Len(words) |-> IF i = 0 THEN 0 ELSE f[i - 1] + words[i] + 1]
           Fits(f, k) == \A i \in 0..k : f[i] = IF i = 0 THEN 0 ELSE f[i - 1] + words[i] + 1
           Defined == {k \in Nat : \E f : Fits(f, k)}
<1>1. n \in Nat \ {0} /\ \A i \in 1..n : words[i] \in Nat \ {0}
  OBVIOUS
<1>2. 0 \in Defined
  <2> DEFINE f == [i \in 0..0 |-> 0]
  <2>1. Fits(f, 0)
    OBVIOUS
  <2> HIDE DEF f, Fits
  <2> QED
    BY <2>1
<1>3. \A k \in Nat : k \in Defined => k + 1 \in Defined
  <2>1. SUFFICES ASSUME NEW k \in Nat, NEW f, Fits(f, k) PROVE \E g : Fits(g, k + 1)
    <3> HIDE DEF Fits
    <3> QED
      OBVIOUS
  <2> DEFINE g == [i \in 0..k + 1 |-> IF i <= k THEN f[i] ELSE f[i - 1] + words[i] + 1]
  <2>2. Fits(g, k + 1)
    BY <2>1
  <2> HIDE DEF g, Fits
  <2> QED
    BY <2>2
<1>4. \E f : IsLoop(f)
  <2>1. n \in Defined
    <3> HIDE DEF Defined
    <3> QED
      BY <1>1, <1>2, <1>3, SetInduction
  <2>2. PICK f : Fits(f, n)
    <3> HIDE DEF Fits
    <3> QED
      BY <2>1
  <2> DEFINE g == [i \in 0..n |-> f[i]]
  <2>3. \A i \in 0..n : g[i] = IF i = 0 THEN 0 ELSE g[i - 1] + words[i] + 1
    BY <1>1, <2>2
  <2>4. IsLoop(g)
    BY <2>3
  <2> HIDE DEF g, IsLoop
  <2> QED
    BY <2>4
<1> DEFINE upTo == CHOOSE f : IsLoop(f)
<1>5. /\ Text(words).length = upTo[n] - 1 /\ Text(words).feeds = {}
      /\ Text(words).spaces = {upTo[i] - 1 : i \in 1..(n - 1)}
  BY DEF Text
<1>6. IsLoop(upTo)
  <2> HIDE DEF IsLoop
  <2> QED
    BY <1>4
<1> HIDE DEF upTo
<1>7. \A i \in 0..n : upTo[i] = IF i = 0 THEN 0 ELSE upTo[i - 1] + words[i] + 1
  BY <1>6
<1> DEFINE Rises(k) == /\ upTo[k] \in Nat
                       /\ \A i \in 0..k : i < k => upTo[i] \in Nat /\ upTo[i] + 2 <= upTo[k]
           Good == {k \in Nat : k \in 0..n => Rises(k)}
<1> HIDE DEF n
<1>8. Rises(0)
  <2>1. upTo[0] = 0
    BY <1>1, <1>7
  <2> QED
    BY <2>1
<1>9. ASSUME NEW k \in Nat, k + 1 \in 0..n, Rises(k) PROVE Rises(k + 1)
  <2>1. /\ upTo[k] \in Nat
        /\ \A i \in 0..k : i < k => upTo[i] \in Nat /\ upTo[i] + 2 <= upTo[k]
    BY <1>9
  <2>2. k + 1 \in 1..n /\ k + 1 # 0 /\ (k + 1) - 1 = k
    BY <1>1, <1>9
  <2>3. upTo[k + 1] = upTo[k] + words[k + 1] + 1 /\ words[k + 1] \in Nat \ {0}
    <3>1. upTo[k + 1] = IF k + 1 = 0 THEN 0 ELSE upTo[(k + 1) - 1] + words[k + 1] + 1
      BY <1>7, <1>9
    <3>2. words[k + 1] \in Nat \ {0}
      BY <1>1, <2>2
    <3> QED
      BY <3>1, <3>2, <2>2
  <2> DEFINE next == upTo[k + 1]
             now == upTo[k]
             word == words[k + 1]
  <2>4. next \in Nat /\ now + 2 <= next
    <3>1. next = now + word + 1 /\ word \in Nat \ {0} /\ now \in Nat
      BY <2>1, <2>3
    <3> HIDE DEF next, now, word
    <3> QED
      BY <3>1
  <2>5. ASSUME NEW i \in 0..k + 1, i < k + 1 PROVE upTo[i] \in Nat /\ upTo[i] + 2 <= upTo[k + 1]
    <3>1. CASE i = k
      BY <2>1, <2>4, <3>1
    <3>2. CASE i # k
      <4>1. i \in 0..k /\ i < k
        BY <2>5, <3>2
      <4>2. upTo[i] \in Nat /\ upTo[i] + 2 <= upTo[k]
        BY <2>1, <4>1
      <4> DEFINE prev == upTo[i]
      <4>3. prev \in Nat /\ prev + 2 <= now /\ now \in Nat /\ now + 2 <= next /\ next \in Nat
        BY <2>1, <2>4, <4>2
      <4> HIDE DEF next, now, prev
      <4>4. prev + 2 <= next
        BY <4>3
      <4> QED
        BY <4>3, <4>4 DEF next, prev
    <3> QED
      BY <3>1, <3>2
  <2> QED
    BY <2>4, <2>5
<1>10. \A k \in 0..n : Rises(k)
  <2> HIDE DEF Rises
  <2>1. \A k \in Nat : k \in Good => k + 1 \in Good
    <3> SUFFICES ASSUME NEW k \in Nat, k \in Good, k + 1 \in 0..n PROVE Rises(k + 1)
      OBVIOUS
    <3>1. k \in 0..n
      BY <1>1
    <3> QED
      BY <1>9, <3>1
  <2>2. 0 \in Good
    BY <1>8
  <2> HIDE DEF Good
  <2>3. Nat \subseteq Good
    BY <2>1, <2>2, SetInduction
  <2> QED
    BY <2>3, <1>1 DEF Good
<1>11. upTo[0] = 0 /\ n \in 0..n /\ 0 \in 0..n
  BY <1>1, <1>7
<1>12. upTo[n] \in Nat /\ \A i \in 0..n : i < n => upTo[i] \in Nat /\ upTo[i] + 2 <= upTo[n]
  BY <1>10, <1>11
<1>13. \A i \in 0..n : 0 < i => upTo[i] \in Nat /\ 2 <= upTo[i]
  <2> TAKE i \in 0..n
  <2>1. HAVE 0 < i
  <2>2. Rises(i) /\ 0 \in 0..i
    BY <1>1, <1>10
  <2>3. upTo[0] + 2 <= upTo[i] /\ upTo[i] \in Nat
    BY <2>1, <2>2
  <2> QED
    BY <2>3, <1>11
<1> HIDE DEF Good, Rises
<1>14. Text(words).length \in Nat \ {0}
  <2>1. upTo[n] >= 2
    BY <1>1, <1>13
  <2> QED
    BY <1>5, <1>12, <2>1
<1>15. Text(words).spaces \subseteq 0..(upTo[n] - 1) - 1
  <2>1. ASSUME NEW i \in 1..(n - 1) PROVE upTo[i] - 1 \in 0..(upTo[n] - 1) - 1
    <3>1. i \in 0..n /\ 0 < i /\ i < n
      BY <1>1
    <3>2. upTo[i] \in Nat /\ 2 <= upTo[i] /\ upTo[i] + 2 <= upTo[n] /\ upTo[n] \in Nat
      BY <3>1, <1>12, <1>13
    <3> DEFINE a == upTo[i]
               z == upTo[n]
    <3>3. a \in Nat /\ 2 <= a /\ a + 2 <= z /\ z \in Nat
      BY <3>2
    <3> HIDE DEF a, z
    <3>4. a - 1 \in 0..(z - 1) - 1
      BY <3>3
    <3> QED
      BY <3>4 DEF a, z
  <2> QED
    BY <1>5, <2>1
<1> QED
  BY <1>5, <1>14, <1>15 DEF IsText

(* What is known of an option: strings have lengths and words have letters. *)
IsOption(o) ==
    /\ o.words \in Seq(Nat \ {0}) /\ o.words # <<>>
    /\ Len(o.long) \in Nat /\ Len(o.valueName) \in Nat /\ Len(o.default) \in Nat

(* The options that are shown are some of the options. *)
LEMMA ShownIs ==
  ASSUME NEW S, NEW options \in Seq(S) PROVE Shown(options) \in Seq(S)
<1> DEFINE n == Len(options)
           Step(f, k) == IF options[k].hidden THEN f[k - 1] ELSE Append(f[k - 1], options[k])
           IsLoop(f) == f = [k \in 0..Len(options) |->
                                IF k = 0 THEN <<>>
                                ELSE IF options[k].hidden THEN f[k - 1]
                                     ELSE Append(f[k - 1], options[k])]
           Fits(f, k) == \A i \in 0..k : f[i] = IF i = 0 THEN <<>> ELSE Step(f, i)
           Defined == {k \in Nat : \E f : Fits(f, k)}
<1>1. n \in Nat /\ \A i \in 1..n : options[i] \in S
  OBVIOUS
<1>2. 0 \in Defined
  <2> DEFINE f == [i \in 0..0 |-> <<>>]
  <2>1. Fits(f, 0)
    OBVIOUS
  <2> HIDE DEF f, Fits
  <2> QED
    BY <2>1
<1>3. \A k \in Nat : k \in Defined => k + 1 \in Defined
  <2>1. SUFFICES ASSUME NEW k \in Nat, NEW f, Fits(f, k) PROVE \E g : Fits(g, k + 1)
    <3> HIDE DEF Fits
    <3> QED
      OBVIOUS
  <2> DEFINE g == [i \in 0..k + 1 |-> IF i <= k THEN f[i] ELSE Step(f, i)]
  <2>2. \A i \in 0..k + 1 : g[i] = IF i = 0 THEN <<>> ELSE Step(f, i)
    BY <2>1
  <2>3. \A i \in 1..k + 1 : g[i - 1] = f[i - 1]
    OBVIOUS
  <2> HIDE DEF g
  <2>4. \A i \in 1..k + 1 : Step(g, i) = Step(f, i)
    BY <2>3
  <2> HIDE DEF Step
  <2>5. Fits(g, k + 1)
    BY <2>2, <2>4
  <2> HIDE DEF Fits
  <2> QED
    BY <2>5
<1>4. \E f : IsLoop(f)
  <2>1. n \in Defined
    <3> HIDE DEF Defined, n
    <3> QED
      BY <1>1, <1>2, <1>3, SetInduction
  <2>2. PICK f : Fits(f, n)
    <3> HIDE DEF Fits
    <3> QED
      BY <2>1
  <2> DEFINE g == [i \in 0..n |-> f[i]]
  <2>3. \A i \in 0..n : g[i] = f[i]
    OBVIOUS
  <2>4. g = [i \in 0..n |-> IF i = 0 THEN <<>> ELSE Step(f, i)]
    <3> HIDE DEF Step, n
    <3> QED
      BY <2>2
  <2>5. \A i \in 0..n : i # 0 => Step(f, i) = Step(g, i)
    <3> HIDE DEF g
    <3>1. \A i \in 0..n : i # 0 => i - 1 \in 0..n
      BY <1>1
    <3> QED
      BY <2>3, <3>1
  <2>6. g = [i \in 0..n |-> IF i = 0 THEN <<>> ELSE Step(g, i)]
    <3> HIDE DEF Step, n, g
    <3> QED
      BY <2>4, <2>5
  <2> HIDE DEF g
  <2>7. IsLoop(g)
    BY <2>6
  <2> HIDE DEF IsLoop
  <2> QED
    BY <2>7
<1> DEFINE upTo == CHOOSE f : IsLoop(f)
<1>5. Shown(options) = upTo[n]
  BY DEF Shown
<1>6. IsLoop(upTo)
  <2> HIDE DEF IsLoop
  <2> QED
    BY <1>4
<1> HIDE DEF upTo
<1>7. \A i \in 0..n : upTo[i] = IF i = 0 THEN <<>> ELSE Step(upTo, i)
  BY <1>6
<1> DEFINE Good == {k \in Nat : k \in 0..n => upTo[k] \in Seq(S)}
<1> HIDE DEF n
<1>8. 0 \in Good
  <2>1. upTo[0] = <<>>
    BY <1>1, <1>7
  <2>2. <<>> \in Seq(S)
    OBVIOUS
  <2> QED
    BY <2>1, <2>2
<1>9. \A k \in Nat : k \in Good => k + 1 \in Good
  <2>1. SUFFICES ASSUME NEW k \in Nat, k \in Good, k + 1 \in 0..n PROVE upTo[k + 1] \in Seq(S)
    OBVIOUS
  <2>2. k \in 0..n /\ k + 1 \in 1..n /\ (k + 1) - 1 = k /\ k + 1 # 0
    BY <1>1, <2>1
  <2>3. upTo[k] \in Seq(S) /\ options[k + 1] \in S
    BY <1>1, <2>1, <2>2
  <2>4. upTo[k + 1] = Step(upTo, k + 1)
    <3> HIDE DEF Step
    <3> QED
      BY <1>7, <2>1, <2>2
  <2>5. upTo[k + 1] = upTo[k] \/ upTo[k + 1] = Append(upTo[k], options[k + 1])
    BY <2>2, <2>4
  <2> DEFINE t == upTo[k]
             o == options[k + 1]
  <2>6. Append(t, o) \in Seq(S) /\ t \in Seq(S)
    <3>1. t \in Seq(S) /\ o \in S
      BY <2>3
    <3> HIDE DEF t, o
    <3> QED
      BY <3>1
  <2> QED
    BY <2>5, <2>6
<1>10. n \in Good
  <2> HIDE DEF Good
  <2> QED
    BY <1>1, <1>8, <1>9, SetInduction
<1> QED
  BY <1>1, <1>5, <1>10

(* A header has a length. *)
LEMMA HeaderIsNumber ==
  ASSUME NEW o, IsOption(o), NEW h \in BOOLEAN PROVE HeaderLength(o, h) \in Nat
<1> DEFINE hasValue == o.valueName # None
           short == IF o.long # None THEN 2 ELSE IF hasValue THEN 1 ELSE 0
           first == IF ~h THEN 0 ELSE IF o.short = None THEN 4 ELSE 2 + short
           l == Len(o.long)
           v == Len(o.valueName)
           long == IF o.long = None THEN 0 ELSE 2 + l + (IF hasValue THEN 1 ELSE 0)
<1>1. l \in Nat /\ v \in Nat
  BY DEF IsOption
<1>2. HeaderLength(o, h) = first + long + v
  BY DEF HeaderLength
<1> HIDE DEF l, v
<1>3. short \in Nat
  OBVIOUS
<1> HIDE DEF short
<1>4. first \in Nat
  BY <1>3
<1>5. long \in Nat
  BY <1>1
<1> HIDE DEF first, long
<1> QED
  BY <1>1, <1>2, <1>4, <1>5

(* A description is a text. *)
LEMMA DescriptionIsText ==
  ASSUME NEW o, IsOption(o) PROVE IsText(Description(o))
<1> DEFINE more == IF o.default = None THEN <<>> ELSE <<7, 2, Len(o.default) + 3>>
           words == o.words \o more
<1>1. o.words \in Seq(Nat \ {0}) /\ o.words # <<>> /\ Len(o.default) \in Nat
  BY DEF IsOption
<1>2. more \in Seq(Nat \ {0})
  <2> DEFINE l == Len(o.default) + 3
  <2>1. l \in Nat \ {0} /\ 7 \in Nat \ {0} /\ 2 \in Nat \ {0}
    BY <1>1
  <2> HIDE DEF l
  <2>2. <<7, 2, l>> \in Seq(Nat \ {0}) /\ <<>> \in Seq(Nat \ {0})
    BY <2>1
  <2>3. more = <<>> \/ more = <<7, 2, l>>
    BY DEF l
  <2> HIDE DEF more
  <2> QED
    BY <2>2, <2>3
<1>3. Description(o) = Text(words)
  BY DEF Description
<1> HIDE DEF more
<1>4. words \in Seq(Nat \ {0}) /\ words # <<>>
  BY <1>1, <1>2
<1> HIDE DEF words
<1> QED
  BY <1>3, <1>4, TextOfWords

(* What HelpIsReadable says, of any help text. *)
SectionIsReadable(s, size) ==
    /\ GoesOn(s.text, s.lines) /\ NothingLost(s.text, s.lines, size - s.others)
    /\ s.first = s.others
    /\ \A l \in Range(s.lines) : s.others + (l.to - l.from) <= size

(* The column that descriptions start at leaves room for them. *)
LEMMA WidthIs ==
  ASSUME NEW n \in Nat, NEW header \in [1..n -> Nat]
  PROVE  LET width == Min({MaxHeaderLength, Max({0} \cup {header[i] : i \in 1..n})})
         IN  width \in 0..MaxHeaderLength
<1> DEFINE S == {0} \cup {header[i] : i \in 1..n}
<1>1. PICK b \in Nat : \A i \in 1..n : header[i] <= b
  BY HasBound
<1>2. S \in SUBSET (0..b) /\ S # {}
  BY <1>1
<1>3. Max(S) \in Nat
  <2> HIDE DEF S
  <2>1. Max(S) \in S
    BY <1>2, MaxIsGreatest
  <2>2. S \subseteq Nat
    BY <1>2
  <2> QED
    BY <2>1, <2>2
<1> DEFINE T == {MaxHeaderLength, Max(S)}
<1> HIDE DEF S
<1>4. T \in SUBSET Nat /\ T # {} /\ MaxHeaderLength \in T
  BY <1>3 DEF MaxHeaderLength
<1>5. Min(T) \in T /\ Min(T) <= MaxHeaderLength
  <2> HIDE DEF T
  <2> QED
    BY <1>4, MinIsLeast
<1> DEFINE width == Min(T)
<1>6. width \in 0..MaxHeaderLength
  <2>1. width \in Nat /\ width <= MaxHeaderLength
    <3> HIDE DEF T
    <3> QED
      BY <1>4, <1>5
  <2> HIDE DEF width
  <2> QED
    BY <2>1 DEF MaxHeaderLength
<1> QED
  BY <1>6 DEF S

(* printSections() prints every option for a reader, whatever the options   *)
(* are, when a line has at least 40 characters.                             *)
THEOREM PrintedIsReadable ==
  ASSUME NEW options, NEW S, options \in Seq(S), \A o \in S : IsOption(o),
         NEW length \in Nat, length >= 40, NEW garbage \in BOOLEAN
  PROVE  \A s \in Range(PrintSections(options, length, garbage)) : SectionIsReadable(s, length)
<1> DEFINE printed == Shown(options)
           n == Len(printed)
           has == garbage \/ \E o \in ToSet(printed) : o.short # None
           Header(o) == HeaderLength(o, has)
           header == [i \in 1..n |-> Header(printed[i])]
           width == Min({MaxHeaderLength, Max({0} \cup {Header(o) : o \in ToSet(printed)})})
           size == TextLength(length, width)
           First(o) == IF Header(o) > width THEN Indent + width + Spacing
                       ELSE Indent + Header(o) + (width - Header(o)) + Spacing
           Section(o) ==
               [text |-> Description(o), first |-> First(o),
                others |-> Indent + width + Spacing, lines |-> WrapText(Description(o), size)]
<1>1. printed \in Seq(S)
  BY ShownIs
<1>2. n \in Nat /\ DOMAIN printed = 1..n /\ \A i \in 1..n : printed[i] \in S
  BY <1>1
<1>3. has \in BOOLEAN
  OBVIOUS
<1>4. PrintSections(options, length, garbage) = [k \in DOMAIN printed |-> Section(printed[k])]
  BY DEF PrintSections
<1>5. ToSet(printed) = {printed[i] : i \in 1..n}
  BY <1>2 DEF ToSet
<1> HIDE DEF printed, n, has
<1>6. \A i \in 1..n : IsOption(printed[i]) /\ Header(printed[i]) \in Nat
  BY <1>2, <1>3, HeaderIsNumber
<1>7. width \in 0..28
  <2>1. header \in [1..n -> Nat]
    BY <1>6
  <2>2. {Header(o) : o \in ToSet(printed)} = {header[i] : i \in 1..n}
    BY <1>5
  <2>3. width = Min({MaxHeaderLength, Max({0} \cup {header[i] : i \in 1..n})})
    BY <2>2
  <2> HIDE DEF header, width
  <2> QED
    BY <1>2, <2>1, <2>3, WidthIs DEF MaxHeaderLength
<1> HIDE DEF width
<1>8. size \in Nat \ {0} /\ size = length - (Indent + width + Spacing)
  BY <1>7 DEF TextLength, Indent, Spacing
<1> HIDE DEF size
<1>9. ASSUME NEW k \in 1..n PROVE SectionIsReadable(Section(printed[k]), length)
  <2> DEFINE o == printed[k]
             text == Description(o)
             lines == WrapText(text, size)
             h == Header(o)
             others == Indent + width + Spacing
  <2>1. IsText(text) /\ h \in Nat
    BY <1>6, DescriptionIsText
  <2>2. AreReadable(text, size, 0, lines)
    <3> HIDE DEF text
    <3> QED
      BY <1>8, <2>1, TextIsKept
  <2>3. First(o) = others
    <3>1. First(o) = IF h > width THEN others ELSE Indent + h + (width - h) + Spacing
      OBVIOUS
    <3> HIDE DEF h
    <3> QED
      BY <1>7, <2>1, <3>1 DEF Indent, Spacing
  <2> HIDE DEF text, lines
  <2>4. /\ lines \in Seq(TextLines) /\ GoesOn(text, lines) /\ NothingLost(text, lines, size)
        /\ \A i \in 1..Len(lines) : lines[i].to - lines[i].from <= size
    BY <2>2 DEF AreReadable
  <2>5. \A l \in Range(lines) : l \in TextLines /\ l.to - l.from <= size
    BY <2>4 DEF Range
  <2>6. \A l \in Range(lines) : others + (l.to - l.from) <= length
    BY <1>7, <1>8, <2>5 DEF TextLines, Indent, Spacing
  <2> DEFINE s == Section(o)
  <2>7. s.text = text /\ s.first = others /\ s.others = others /\ s.lines = lines
    BY <2>3 DEF text, lines
  <2> HIDE DEF s, others
  <2>8. SectionIsReadable(s, length)
    BY <1>8, <2>4, <2>6, <2>7 DEF SectionIsReadable, others
  <2> QED
    BY <2>8 DEF s
<1> HIDE DEF Section
<1>10. Range(PrintSections(options, length, garbage)) = {Section(printed[k]) : k \in 1..n}
  BY <1>2, <1>4 DEF Range
<1> QED
  BY <1>9, <1>10

(* The options of the program are options. *)
LEMMA OptionsAreOptions ==
  /\ Options \in Seq({Options[i] : i \in 1..6})
  /\ \A o \in {Options[i] : i \in 1..6} : IsOption(o)
<1>1. Options \in Seq({Options[i] : i \in 1..6}) /\ Len(Options) = 6
  BY DEF Options
<1>2. ASSUME NEW i \in 1..6
      PROVE  Options[i].words \in Seq(Nat \ {0}) /\ Options[i].words # <<>>
  <2> DEFINE Are(w) == w \in Seq(Nat \ {0}) /\ w # <<>>
  <2>1. Are(<<4, 2, 1, 6, 5>>) /\ Are(<<4, 2, 1, 3, 5>>) /\ Are(<<4, 4, 3, 5>>)
    OBVIOUS
  <2>2. Are(<<5, 7, 6, 2, 7, 8, 6>>) /\ Are(<<4, 7, 11, 3, 5>>)
    OBVIOUS
  <2>3. Are(<<6, 7, 2, 3, 2, 3, 8, 6, 5, 6, 3, 11, 7>>)
    OBVIOUS
  <2>4. /\ Options[1].words = <<4, 2, 1, 6, 5>> /\ Options[2].words = <<4, 2, 1, 3, 5>>
        /\ Options[3].words = <<5, 7, 6, 2, 7, 8, 6>>
        /\ Options[4].words = <<6, 7, 2, 3, 2, 3, 8, 6, 5, 6, 3, 11, 7>>
        /\ Options[5].words = <<4, 4, 3, 5>> /\ Options[6].words = <<4, 7, 11, 3, 5>>
    BY DEF Options, Option
  <2>5. i = 1 \/ i = 2 \/ i = 3 \/ i = 4 \/ i = 5 \/ i = 6
    OBVIOUS
  <2> HIDE DEF Are
  <2>6. Are(Options[i].words)
    BY <2>1, <2>2, <2>3, <2>4, <2>5
  <2> QED
    BY <2>6 DEF Are
<1>3. \A i \in 1..6 : Options[i] \in ToSet(Options)
  BY <1>1 DEF ToSet
<1> QED
  BY <1>1, <1>2, <1>3, LengthsAssumption DEF IsOption

(* What was printed is readable. *)
HelpInv == \A s \in Range(help.sections) : SectionIsReadable(s, help.size)

(* Most steps print no help. *)
LEMMA HelpStays ==
  ASSUME [Next]_vars, ~RunHelp PROVE help' = help
<1>1. CASE UNCHANGED vars
  BY <1>1 DEF vars, mainVars
<1>2. CASE InstallBufferLogger \/ InitializePlatform \/ ParseArguments \/ RefuseArguments
  BY <1>2 DEF InstallBufferLogger, InitializePlatform, ParseArguments, RefuseArguments, mainVars
<1>3. CASE RunVersion \/ ListEntities \/ ListKeys \/ OpenLog \/ LoadConfig \/ MakePool
  BY <1>3 DEF RunVersion, ListEntities, ListKeys, OpenLog, LoadConfig, MakePool, mainVars
<1>4. CASE CheckIds \/ CreateNext \/ CannotCreate \/ LoadNext \/ CannotLoad \/ Erase \/ ClosePool
  BY <1>4 DEF CheckIds, CreateNext, CannotCreate, LoadNext, CannotLoad, Erase, ClosePool, mainVars
<1>5. CASE Quit \/ Catch \/ CleanUp \/ DispatchHotkey \/ ProcessInput \/ UpdateTrayIconSize
  BY <1>5 DEF Quit, Catch, CleanUp, DispatchHotkey, ProcessInput, UpdateTrayIconSize, InEventLoop,
              mainVars
<1>6. CASE UserPressesKey \/ UserTurnsWheel \/ DpiChanges \/ WindowsChange \/ BackendChanges
  BY <1>6 DEF UserPressesKey, UserTurnsWheel, DpiChanges, WindowsChange, BackendChanges, Posts, Acts,
              mainVars
<1>7. CASE PrimaryScreenChanges \/ GeometryChanges \/ Waits \/ Terminated
  BY <1>7 DEF PrimaryScreenChanges, GeometryChanges, Waits, Terminated, Acts, vars, mainVars
<1> QED
  BY <1>1, <1>2, <1>3, <1>4, <1>5, <1>6, <1>7 DEF Next

(* What is printed for a console of any width is readable. *)
LEMMA HelpPrinted == RunHelp => HelpInv'
<1> SUFFICES ASSUME RunHelp PROVE HelpInv'
  OBVIOUS
<1> DEFINE Length(w) == IF w = 0 THEN 80 ELSE Max({w, 40})
<1>1. PICK w \in ConsoleWidths, garbage \in BOOLEAN :
        help' = [size |-> Length(w), sections |-> PrintSections(Options, Length(w), garbage)]
  BY DEF RunHelp
<1>2. w \in Nat
  BY WidthsAssumption
<1>3. Length(w) \in Nat /\ Length(w) >= 40
  <2> DEFINE S == {w, 40}
             n == w + 40
  <2>1. n \in Nat /\ S \in SUBSET (0..n) /\ S # {} /\ 40 \in S /\ S \subseteq Nat
    BY <1>2
  <2>2. Max(S) \in S /\ Max(S) >= 40
    <3> HIDE DEF S, n
    <3>1. Max(S) \in S /\ \A k \in S : k <= Max(S)
      BY <2>1, MaxIsGreatest
    <3>2. Max(S) \in Nat
      BY <2>1, <3>1
    <3> QED
      BY <2>1, <3>1, <3>2
  <2> DEFINE m == Max(S)
  <2>3. m \in Nat /\ m >= 40
    <3>1. \A k \in S : k \in Nat
      BY <1>2
    <3> HIDE DEF S
    <3> QED
      BY <2>2, <3>1
  <2>4. Length(w) = IF w = 0 THEN 80 ELSE m
    OBVIOUS
  <2> HIDE DEF m, Length
  <2> QED
    BY <2>3, <2>4
<1> DEFINE length == Length(w)
<1>4. \A s \in Range(PrintSections(Options, length, garbage)) : SectionIsReadable(s, length)
  <2>1. length \in Nat /\ length >= 40
    BY <1>3
  <2> HIDE DEF length
  <2> QED
    BY <2>1, OptionsAreOptions, PrintedIsReadable
<1> HIDE DEF Length
<1>5. help'.sections = PrintSections(Options, length, garbage) /\ help'.size = length
  BY <1>1
<1> HIDE DEF length
<1> QED
  BY <1>4, <1>5 DEF HelpInv

(* HelpInv holds of no help, and is what a reader expects. *)
LEMMA HelpSteps ==
  /\ Init => HelpInv
  /\ HelpInv /\ [Next]_vars => HelpInv'
  /\ HelpInv => HelpIsReadable
<1>1. Init => HelpInv
  <2>1. (Init => help = NoHelp) /\ NoHelp.sections = <<>>
    <3>1. Init => help = NoHelp
      BY ZenonT(60) DEF Init
    <3>2. NoHelp.sections = <<>>
      BY DEF NoHelp
    <3> QED
      BY <3>1, <3>2
  <2>2. Range(<<>>) = {}
    BY DEF Range
  <2> HIDE DEF Init
  <2> QED
    BY <2>1, <2>2 DEF HelpInv
<1>2. HelpInv /\ [Next]_vars => HelpInv'
  <2> SUFFICES ASSUME HelpInv, [Next]_vars PROVE HelpInv'
    OBVIOUS
  <2>1. CASE RunHelp
    BY <2>1, HelpPrinted
  <2>2. CASE ~RunHelp
    <3>1. help' = help
      BY <2>2, HelpStays
    <3> QED
      BY <3>1 DEF HelpInv
  <2> QED
    BY <2>1, <2>2
<1>3. HelpInv => HelpIsReadable
  BY DEF HelpInv, HelpIsReadable, SectionIsReadable
<1> QED
  BY <1>1, <1>2, <1>3

(* The help text says all it has to say, but for a last word that a missing *)
(* column costs it, in the columns of a console of any width.               *)
THEOREM HelpKeepsText == Spec => []HelpIsReadable
BY HelpSteps, PTL DEF Spec
=============================================================================
