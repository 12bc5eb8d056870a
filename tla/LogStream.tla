----------------------------- MODULE LogStream -----------------------------
(***************************************************************************)
(* How a line of the log is put together: LogStream (LogStream.cpp) on its *)
(* FixedBuffer (LogStream.h), and the head and tail that Logger adds       *)
(* (Logging.cpp).                                                          *)
(*                                                                         *)
(* A line is a sequence of pieces, one for each <<.  A piece that does not *)
(* fit is left out as a whole and later, shorter ones may still follow.    *)
(* Only the digits of numbers are modelled as such; of every other piece   *)
(* its length counts.  A stream is the fill of its buffer (cur_), the end  *)
(* of the bytes ever written (numbers are ended by a NUL that is not       *)
(* counted), and the number of pieces left out.                            *)
(***************************************************************************)
EXTENDS Integers, SequencesExt, SequenceUtil

CONSTANTS
    SmallBuffer,        \* size of a LogStream's buffer
    MaxNumericSize,     \* room that is asked for before a number
    Numbers,            \* bound: numbers to be read back
    Statements          \* bound: the logging statements, a sequence

\* The longest number, 20 digits with sign and NUL, fits in MaxNumericSize.
ASSUME LogStreamAssumption ==
    /\ SmallBuffer \in Nat \ {0}
    /\ MaxNumericSize \in Nat /\ MaxNumericSize >= 22
    /\ Numbers \subseteq Nat
    /\ Statements \in Seq(ToSet(Statements)) /\ Len(Statements) > 0

-----------------------------------------------------------------------------
(* Numbers                                                                 *)

\* do { n % base; n /= base } while (n > 0): the digits, lowest first.
Lsd(base) ==
    LET digits[n \in Nat] ==
          IF n \div base = 0 THEN <<n % base>>
          ELSE <<n % base>> \o digits[n \div base]
    IN  digits

\* convert(buf, value).  % and / truncate towards zero and the loop goes on
\* for positive values only: of a negative number just the last digit is
\* written, and a sign if there were more.
Convert(value) ==
    IF value >= 0 THEN Reverse(Lsd(10)[value])
    ELSE LET digit == <<(-value) % 10>>
         IN  IF (-value) \div 10 > 0 THEN <<"-">> \o digit ELSE digit

\* convertHex(buf, value)
ConvertHex(value) == Reverse(Lsd(16)[value])

-----------------------------------------------------------------------------
(* FixedBuffer and operator<<                                              *)

EmptyStream == [len |-> 0, top |-> 0, cut |-> 0]

Avail(s) == SmallBuffer - s.len

\* n bytes, and further ones after them that are not counted.
Write(s, n, further) ==
    [s EXCEPT !.len = @ + n,
              !.top = IF s.len + n + further > @ THEN s.len + n + further ELSE @]

Skip(s) == [s EXCEPT !.cut = @ + 1]

\* FixedBuffer::append: texts, characters and truth values.
PutText(s, n) == IF Avail(s) > n THEN Write(s, n, 0) ELSE Skip(s)

\* Mutant: the number goes straight into the buffer.
PutInteger_Unchecked(s, value) == Write(s, Len(Convert(value)), 1)

\* formatInteger
PutInteger(s, value) ==
    IF Avail(s) > MaxNumericSize THEN Write(s, Len(Convert(value)), 1)
    ELSE Skip(s)

\* operator<<(double): snprintf gives n characters and a NUL.
PutReal(s, n) == IF Avail(s) > MaxNumericSize THEN Write(s, n, 1) ELSE Skip(s)

\* operator<<(const void pointer)
PutPointer(s, value) ==
    IF Avail(s) >= MaxNumericSize
    THEN Write(s, 2 + Len(ConvertHex(value)), 1)
    ELSE Skip(s)

\* A piece is <<kind, length or value>>.
Put(s, piece) ==
    CASE piece[1] = "text" -> PutText(s, piece[2])
      [] piece[1] = "int" -> PutInteger(s, piece[2])
      [] piece[1] = "real" -> PutReal(s, piece[2])
      [] piece[1] = "pointer" -> PutPointer(s, piece[2])

-----------------------------------------------------------------------------
(* Logger                                                                  *)

\* Impl's constructor: the time, the thread, the level and the error if there
\* is one, then the name of the function where the macro gives it.
Header(st) ==
    << <<"text", 25>>, <<"text", 1>>, <<"text", 5>>, <<"text", 1>>,
       <<"text", 6>>, <<"text", 1>> >>
    \o (IF st.errno = 0 THEN <<>>
        ELSE << <<"text", st.message>>, <<"text", 10>>, <<"int", st.errno>>,
                <<"text", 2>> >>)
    \o (IF st.function = 0 THEN <<>>
        ELSE << <<"text", st.function>>, <<"text", 1>> >>)

\* finish(): " - ", the file, '.', the line number, '\n'.
Finish(st) ==
    << <<"text", 3>>, <<"text", st.file>>, <<"text", 1>>, <<"int", st.line>>,
       <<"text", 1>> >>

Pieces(st) == Header(st) \o st.body \o Finish(st)

\* A stream after the pieces ps.
Stream(ps) ==
    LET after[i \in 0..Len(ps)] ==
          IF i = 0 THEN EmptyStream ELSE Put(after[i - 1], ps[i])
    IN  after[Len(ps)]

\* What ~Logger() hands to g_output for the statement st.
Format(st) == Stream(Pieces(st))

-----------------------------------------------------------------------------

\* The value of a sequence of digits.
ReadBack(text, base) ==
    LET value[i \in 0..Len(text)] ==
          IF i = 0 THEN 0 ELSE base * value[i - 1] + text[i]
    IN  value[Len(text)]

\* The length of a piece, without regard to the buffer.
PieceLength(piece) ==
    CASE piece[1] = "int" -> Len(Convert(piece[2]))
      [] piece[1] = "pointer" -> 2 + Len(ConvertHex(piece[2]))
      [] OTHER -> piece[2]

\* What operator<< can be given: numbers have 64 bits and so at most 21
\* characters.
IsPiece(piece) ==
    /\ piece[1] \in {"text", "int", "real", "pointer"}
    /\ piece[1] # "int" => piece[2] >= 0
    /\ piece[1] # "text" => PieceLength(piece) <= 21

ASSUME StatementsAssumption ==
    \A i \in DOMAIN Statements :
        LET ps == Pieces(Statements[i])
        IN  /\ ps \in Seq(STRING \X Int)
            /\ \A j \in DOMAIN ps : IsPiece(ps[j])

Lengths(ps) == [i \in DOMAIN ps |-> PieceLength(ps[i])]

FullLength(st) == SumSeq(Lengths(Pieces(st)))

\* Numbers that are not negative have their value in decimal and hexadecimal;
\* a line that leaves room for one more number is complete; and a longer one,
\* wherever the buffer's end falls among its pieces, is cut without a byte,
\* not even a number's NUL, beyond the buffer.
Legible ==
    /\ \A n \in Numbers :
          ReadBack(Convert(n), 10) = n /\ ReadBack(ConvertHex(n), 16) = n
    /\ \A i \in DOMAIN Statements :
          LET line == Format(Statements[i])
              full == FullLength(Statements[i])
          IN  /\ line.top <= SmallBuffer
              /\ line.len <= full
              /\ full + MaxNumericSize < SmallBuffer =>
                    line.len = full /\ line.cut = 0
=============================================================================
