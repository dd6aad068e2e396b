---------------------------- MODULE CommandLine ----------------------------
(***************************************************************************)
(* lib/command_line and the parser of qnob/: what a command line asks the   *)
(* program to do, and how the help text is wrapped to the console.          *)
(*                                                                         *)
(* A text is its length and the places of its spaces and line feeds, counted *)
(* from 0; a line of wrapped text is the part [from, to) of it.  Which      *)
(* letters a text has is left out.                                          *)
(***************************************************************************)
EXTENDS Naturals, Sequences, FiniteSets, SequencesExt, FiniteSetsExt

None == ""          \* an empty QString, or a null QChar

-----------------------------------------------------------------------------
(* CommandLineOption.  "words" are the lengths of the words of a description, *)
(* which ends with a full stop; every option of the program is optional.    *)

Option(short, long, valueName, default, words) ==
    [short |-> short, long |-> long, valueName |-> valueName, default |-> default,
     words |-> words, required |-> FALSE, hidden |-> FALSE]

Options == <<
    Option(None, "config", "PATH", "./qnob.toml", <<4, 2, 1, 6, 5>>),
    Option(None, "log", "PATH", "./qnob.log", <<4, 2, 1, 3, 5>>),
    Option(None, "hide-console", None, None, <<5, 7, 6, 2, 7, 8, 6>>),
    Option(None, "list", "LIST", None, <<6, 7, 2, 3, 2, 3, 8, 6, 5, 6, 3, 11, 7>>),
    Option(None, "help", None, None, <<4, 4, 3, 5>>),
    Option("v", "version", None, None, <<4, 7, 11, 3, 5>>) >>

(* The provers do not know that strings have lengths. *)
ASSUME LengthsAssumption ==
    \A o \in ToSet(Options) : \A s \in {o.long, o.valueName, o.default} : Len(s) \in Nat

OptionName(o) == IF o.long # None THEN o.long ELSE o.short
Names(o) == {o.short, o.long} \ {None}

-----------------------------------------------------------------------------
(* Parsing.  A command line is a sequence of [name, value] records in which  *)
(* "value" is a set, empty when no value is given.                          *)

StandardLists == {"entities", "keys"}

(* QCommandLineParser::parse(). *)
BaseParses(options, line) ==
    \A a \in ToSet(line) : \E o \in ToSet(options) :
        a.name \in Names(o) /\ (o.valueName # None) = (a.value # {})

IsSet(o, line) == \E a \in ToSet(line) : a.name \in Names(o)
GivenValues(o, line) ==
    LET given == SelectSeq(line, LAMBDA a : a.name \in Names(o) /\ a.value # {})
    IN  [i \in DOMAIN given |-> CHOOSE v \in given[i].value : TRUE]

(* The values given to the handler of an option, in order. *)
HandlerValues(o, line) ==
    LET given == GivenValues(o, line)
    IN  IF given # <<>> THEN given
        ELSE IF o.default # None THEN <<o.default>>
        ELSE IF o.valueName = None /\ IsSet(o, line) THEN <<None>> ELSE <<>>

(* Only StandardList has a parser that can throw. *)
HandlerAccepts(o, value) == o.long = "list" => value \in StandardLists

ParseFails(options, line) ==
    \/ ~BaseParses(options, line)
    \/ \E o \in ToSet(options) :
        \/ o.required /\ ~IsSet(o, line)
        \/ \E v \in ToSet(HandlerValues(o, line)) : ~HandlerAccepts(o, v)

(* A handler overwrites its target: the last value counts. *)
Target(name, line, none) ==
    LET o == CHOOSE o \in ToSet(Options) : o.long = name
        values == HandlerValues(o, line)
    IN  IF values = <<>> THEN none ELSE Last(values)
Flag(name, line) == Target(name, line, "off") # "off"

Mode(line) ==
    IF Flag("help", line) THEN "help"
    ELSE IF Flag("version", line) THEN "version"
    ELSE IF Target("list", line, None) # None THEN "list" ELSE "service"

Args(line) ==
    [mode |-> Mode(line), configPath |-> Target("config", line, None),
     logPath |-> Target("log", line, None), list |-> Target("list", line, None),
     hideConsole |-> Flag("hide-console", line)]

-----------------------------------------------------------------------------
(* Help. *)

Indent == 2
Spacing == 2
MaxHeaderLength == 28

(* The words of a text, with one space between them. *)
Text(words) ==
    LET upTo[i \in 0..Len(words)] == IF i = 0 THEN 0 ELSE upTo[i - 1] + words[i] + 1
    IN  [length |-> upTo[Len(words)] - 1, feeds |-> {},
         spaces |-> {upTo[i] - 1 : i \in 1..(Len(words) - 1)}]

(* "Default is '{}'." *)
Description(o) ==
    Text(o.words \o IF o.default = None THEN <<>> ELSE <<7, 2, Len(o.default) + 3>>)

(* Where wrapText() ends a line, when n characters were looked at before and *)
(* the one at i is too many, the last or a line feed: the end of the line    *)
(* and the start of the next.                                               *)
Breakable(text, n, i) == Max({0} \cup {p \in text.spaces : n <= p /\ p <= i})

Break(text, size, start, n, i) ==
    IF i = start + size /\ Breakable(text, n, i) # 0
    THEN <<Breakable(text, n, i), Breakable(text, n, i) + 1>>
    ELSE IF i = start + size THEN <<i, i>>
    ELSE IF i = text.length - 1 THEN <<i + 1, i + 1>> ELSE <<i, i + 1>>

WrapText(text, size) ==
    LET from[at \in (0..text.length) \X (0..text.length)] ==
            LET start == at[1]
                n == at[2]
                i == Min({start + size, text.length - 1} \cup {f \in text.feeds : f >= n /\ f # 0})
                b == Break(text, size, start, n, i)
            IN  IF n = text.length THEN <<>>
                ELSE <<[from |-> start, to |-> b[1]]>> \o from[<<b[2], i + 1>>]
    IN  from[<<0, 0>>]

(* The length of what formatHeader() returns. *)
HeaderLength(o, hasShortOptions) ==
    (IF ~hasShortOptions THEN 0
     ELSE IF o.short = None THEN 4
     ELSE 2 + (IF o.long # None THEN 2 ELSE IF o.valueName # None THEN 1 ELSE 0))
    + (IF o.long = None THEN 0 ELSE 2 + Len(o.long) + (IF o.valueName # None THEN 1 ELSE 0))
    + Len(o.valueName)

(* The room for descriptions beside headers.  Mutant: the margin is forgotten. *)
WithoutMargin(maxLineLength, width) == maxLineLength - width - Spacing
TextLength(maxLineLength, width) == maxLineLength - Indent - width - Spacing

(* The options that are not hidden, in order. *)
Shown(options) ==
    LET upTo[k \in 0..Len(options)] ==
            IF k = 0 THEN <<>>
            ELSE IF options[k].hidden THEN upTo[k - 1] ELSE Append(upTo[k - 1], options[k])
    IN  upTo[Len(options)]

(* printSections() for one unnamed section: for every option that is shown,  *)
(* its text, the column of its first line and of the others, and its lines. *)
(* hasShortOptions is not initialised: "garbage" is what it holds.          *)
PrintSections(options, maxLineLength, garbage) ==
    LET shown == Shown(options)
        hasShortOptions == garbage \/ \E o \in ToSet(shown) : o.short # None
        Header(o) == HeaderLength(o, hasShortOptions)
        width == Min({MaxHeaderLength, Max({0} \cup {Header(o) : o \in ToSet(shown)})})
        size == TextLength(maxLineLength, width)
        FirstColumn(o) ==
            IF Header(o) > width THEN Indent + width + Spacing   \* on a line of its own
            ELSE Indent + Header(o) + (width - Header(o)) + Spacing
    IN  [k \in DOMAIN shown |->
            [text |-> Description(shown[k]), first |-> FirstColumn(shown[k]),
             others |-> Indent + width + Spacing, lines |-> WrapText(Description(shown[k]), size)]]

-----------------------------------------------------------------------------
(* What a reader of the help text expects of one printed option. *)

(* Line k + 1 goes on where line k ends, but for the space or line feed that  *)
(* the text was broken at.                                                  *)
GoesOn(text, lines) ==
    \A k \in 1..(Len(lines) - 1) :
        \/ lines[k + 1].from = lines[k].to + 1 /\ lines[k].to \in text.spaces
        \/ lines[k + 1].from = lines[k].to     /\ lines[k].to \notin text.spaces

(* Of a text nothing is lost, except that its last word is dropped when it    *)
(* does not fit into the line by its very last character.                   *)
NothingLost(text, lines, size) ==
    LET last == Last(lines)
    IN  \/ last.to = text.length
        \/ text.length - last.from = size + 1 /\ \A s \in text.spaces : s <= last.to
=============================================================================
