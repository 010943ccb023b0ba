------------------------------ MODULE Console -------------------------------
(***************************************************************************)
(* Numbers on the serial console: the inserters of kostream (kostream.hpp) *)
(* and the loops of logger (logger.hpp), which collect the digits from the *)
(* last to the first in a buffer on the stack and send them backwards.     *)
(***************************************************************************)
EXTENDS Integers, Sequences, SequencesExt

CONSTANTS
    Unsigned,   \* numbers inserted as unsigned integers
    Signed,     \* numbers inserted as int
    Texts       \* texts inserted, sequences of characters

ASSUME ConsoleAssumption ==
    Unsigned \subseteq Nat /\ Signed \subseteq Int /\ Texts \subseteq Seq(0..127)

\* No integer type has more than 64 bits, four times 16.
ASSUME WidthAssumption ==
    \A i \in Unsigned \union Signed : ((i \div 65536) \div 65536) \div 65536 < 65536

VARIABLES
    m_mode,     \* "dec", "hex" or "bin", kept from insertion to insertion
    log,        \* the routine of logger in progress, its locals and the number
    sent        \* characters written to the port since the routine began

consoleVars == <<m_mode, log, sent>>

Modes == {"dec", "hex", "bin"}

\* "int" is log(int), which knows no radix.
Radix(routine) == CASE routine = "hex" -> 16 [] routine = "bin" -> 2 [] OTHER -> 10

\* Mistake: one buffer size for every routine.
BufferSizeSmall(routine) == 9

BufferSize(routine) ==
    CASE routine = "int" -> 100 [] routine = "dec" -> 30 [] OTHER -> 20

\* Mistake: the distance from '9' to 'A' forgotten.
CharacterNoGap(digit) == digit + 48

\* log_hex has the letters behind the digits.
Character(digit) == IF digit < 10 THEN digit + 48 ELSE digit + 55

\* A line feed gets a carriage return, but not in a std::string.
Expanded(st) == FlattenSeq([i \in DOMAIN st |-> IF st[i] = 10 THEN <<13, 10>> ELSE <<st[i]>>])

NoLog == [routine |-> "none", number |-> 0, x |-> 0, buffer |-> <<>>, status |-> "returned"]

Quiet == log.status = "returned"

StartLog(routine, number) ==
    /\ log' = [routine |-> routine, number |-> number, x |-> number,
               buffer |-> <<>>, status |-> "collecting"]
    /\ sent' = <<>>

InsertInt(i) == Quiet /\ StartLog("int", i) /\ UNCHANGED m_mode

InsertUnsigned(i) == Quiet /\ StartLog(m_mode, i) /\ UNCHANGED m_mode

InsertMode(im) == Quiet /\ m_mode' = im /\ log' = NoLog /\ sent' = <<>>

InsertText(st) == Quiet /\ sent' = Expanded(st) /\ log' = NoLog /\ UNCHANGED m_mode

InsertString(st) == Quiet /\ sent' = st /\ log' = NoLog /\ UNCHANGED m_mode

LogZero ==
    /\ log.status = "collecting" /\ log.number = 0
    /\ sent' = <<48>>
    /\ log' = [log EXCEPT !.status = "returned"]
    /\ UNCHANGED m_mode

\* A digit past the end of the buffer is written over other locals.
CollectDigit ==
    /\ log.status = "collecting" /\ log.x > 0
    /\ log' = IF Len(log.buffer) = BufferSize(log.routine)
              THEN [log EXCEPT !.status = "overrun"]
              ELSE [log EXCEPT !.x = @ \div Radix(log.routine),
                               !.buffer = Append(@, Character(log.x % Radix(log.routine)))]
    /\ UNCHANGED <<m_mode, sent>>

\* Nothing is collected of a negative number.
LastDigit ==
    /\ log.status = "collecting" /\ log.number # 0 /\ log.x <= 0
    /\ log' = [log EXCEPT !.status = "sending"]
    /\ UNCHANGED <<m_mode, sent>>

SendDigit ==
    /\ log.status = "sending" /\ log.buffer # <<>>
    /\ sent' = Append(sent, Last(log.buffer))
    /\ log' = [log EXCEPT !.buffer = Front(@)]
    /\ UNCHANGED m_mode

LogReturns ==
    /\ log.status = "sending" /\ log.buffer = <<>>
    /\ log' = [log EXCEPT !.status = "returned"]
    /\ UNCHANGED <<m_mode, sent>>

-----------------------------------------------------------------------------

\* The constructor leaves m_mode as it is, zero.
ConsoleInit ==
    /\ m_mode = "dec"
    /\ log = NoLog
    /\ sent = <<>>

ConsoleNext ==
    \/ \E i \in Signed : InsertInt(i)
    \/ \E i \in Unsigned : InsertUnsigned(i)
    \/ \E im \in Modes : InsertMode(im)
    \/ \E st \in Texts : InsertText(st) \/ InsertString(st)
    \/ LogZero \/ CollectDigit \/ LastDigit \/ SendDigit \/ LogReturns

ConsoleSpec == ConsoleInit /\ [][ConsoleNext]_consoleVars

-----------------------------------------------------------------------------
(* Properties. *)

\* What a reader makes of a character, -1 if it is not a digit, and of a text.
Digit(character) ==
    CASE character \in 48..57 -> character - 48
      [] character \in 65..70 -> character - 55
      [] OTHER -> -1

Value(text, radix) == FoldLeft(LAMBDA v, character : v * radix + Digit(character), 0, text)

\* A number that was written reads as itself in the radix that is set, an int in
\* the decimal one, and begins with zero only if it is zero.  Of a negative int
\* nothing is written (logger.hpp:25-106).
PrintedIsNumber ==
    log.status = "returned" /\ log.routine # "none" =>
        IF log.number < 0 THEN sent = <<>>
        ELSE /\ sent # <<>> /\ Value(sent, Radix(log.routine)) = log.number
             /\ \A i \in DOMAIN sent : Digit(sent[i]) \in 0..Radix(log.routine) - 1
             /\ log.number # 0 => sent[1] # 48

\* Only the binary buffer is too small, and for every number of more than 20 digits
\* it is (logger.hpp:85-106): log_bin never returns from one.
OverrunOnlyBinary ==
    /\ log.status = "overrun" => log.routine = "bin" /\ log.number >= 2 ^ 20
    /\ log.status = "returned" /\ log.routine = "bin" => log.number < 2 ^ 20
=============================================================================
