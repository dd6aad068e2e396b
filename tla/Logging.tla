------------------------------- MODULE Logging -------------------------------
(***************************************************************************)
(* lib/logging: the message handler of Qt, the logger that keeps messages     *)
(* until the log file is known, and the one that writes the file.            *)
(*                                                                         *)
(* A message is its number and how many lines of text it has.                *)
(***************************************************************************)
EXTENDS Naturals, Sequences, SequencesExt

CONSTANT BufferSize     \* BufferLogger::m_maxSize

ASSUME BufferSizeAssumption == BufferSize \in Nat

VARIABLES
    logger,         \* g_logger: "none", "buffer" or "file"
    emitted,        \* history: the line counts of all messages
    early,          \* history: how many of them the buffer logger got
    buffer,         \* BufferLogger::m_buffer
    written         \* what was written to the log file, in pieces

logVars == <<logger, emitted, early, buffer, written>>

LogInit == logger = "none" /\ emitted = <<>> /\ early = 0 /\ buffer = <<>> /\ written = <<>>

(* BufferLogger::log().  Mutant: a full buffer takes no new message.         *)
Refuse(messages, m) == IF Len(messages) = BufferSize THEN messages ELSE Append(messages, m)
Push(messages, m) ==
    LET all == Append(messages, m)
    IN  IF Len(all) > BufferSize THEN Tail(all) ELSE all

(* BufferLogger::log() for each of some messages. *)
Pushed(messages, new) ==
    LET after[i \in 0..Len(new)] == IF i = 0 THEN messages ELSE Push(after[i - 1], new[i])
    IN  after[Len(new)]

(* FileLogger::log(): the lines of each message, with their line feeds; of an *)
(* empty message there is the prefix only.                                  *)
Piece(m, line, ended) == [message |-> m.number, line |-> line, ended |-> ended]
Pieces(m) ==
    IF m.lines = 0 THEN <<Piece(m, 0, FALSE)>> ELSE [k \in 1..m.lines |-> Piece(m, k, TRUE)]
Write(file, messages) == file \o FlattenSeq([i \in DOMAIN messages |-> Pieces(messages[i])])

(* qt_message_output(), for messages of so many lines. *)
Log(lines) ==
    LET new == [i \in DOMAIN lines |-> [number |-> Len(emitted) + i, lines |-> lines[i]]]
    IN  /\ emitted' = emitted \o lines
        /\ early' = IF logger = "buffer" THEN early + Len(lines) ELSE early
        /\ buffer' = IF logger = "buffer" THEN Pushed(buffer, new) ELSE buffer
        /\ written' = IF logger = "file" THEN Write(written, new) ELSE written
        /\ UNCHANGED logger

(* Warnings of one line. *)
LogLines(n) == Log([i \in 1..n |-> 1])

(* Logger::installGlobalLogger() *)
InstallGlobalLogger(new) == logger' = new

(* BufferLogger::flush() to the file logger, which is then installed. *)
FlushAndInstall ==
    /\ written' = Write(written, buffer)
    /\ buffer' = <<>>
    /\ InstallGlobalLogger("file")
    /\ UNCHANGED <<emitted, early>>
=============================================================================
