------------------------------- MODULE Lexer -------------------------------
(***************************************************************************)
(* Parser::readNext of parser.h: the next element of a text.  A text is a   *)
(* string; the character at the end of the text is the empty one.  A symbol  *)
(* is named by its spelling in strKeywords (parser.cpp).                     *)
(***************************************************************************)
EXTENDS Naturals, Sequences, FiniteSetsExt

\* The next n characters, fewer at the end of the text.
Peek(s, i, n) ==
    IF i > Len(s) THEN "" ELSE SubSeq(s, i, IF i + n - 1 > Len(s) THEN Len(s) ELSE i + n - 1)
CharAt(s, i) == Peek(s, i, 1)

DigitChars == {"0", "1", "2", "3", "4", "5", "6", "7", "8", "9"}
WordChars == {"a", "b", "c", "d", "e", "f", "g", "h", "i", "j", "k", "l", "m", "n", "o", "p", "q",
              "r", "s", "t", "u", "v", "w", "x", "y", "z", "_"} \cup DigitChars
LineEnds == {"\n", "\r", ""}

Keywords == {"exec", "with", "object", "return", "if", "else", "true", "false", "null", "break",
             "undefined", "and", "or", "not", "while", "for", "switch", "constexpr"}
Singles == {"!", "?", "%", "^", "(", ")", "*", "/", "+", "-", "@", "$", ">", "<", "=", ".", ";",
            ":", ",", "[", "]", "{", "}"}
Pairs == {"!=", "?=", "??", "->", ">=", "<=", "==", "=>", ".."}

\* Where the run of characters of a set that begins at i ends.
RunEnd(s, i, chars) == Min({j \in i..(Len(s) + 1) : CharAt(s, j) \notin chars})
CommentEnd(s, i) == Min({j \in i..(Len(s) + 1) : CharAt(s, j) \in LineEnds})

RECURSIVE SkipBlank(_, _)

\* Blanks and comments, up to the end of the line.
SkipBlank(s, i) ==
    CASE CharAt(s, i) \in {" ", "\t"} -> SkipBlank(s, i + 1)
      [] CharAt(s, i) = "#" -> SkipBlank(s, CommentEnd(s, i))
      [] OTHER -> i

\* An element and where the text goes on.
Element(symbol, data, end) == [symbol |-> symbol, data |-> data, end |-> end]

ReadPunctuation(s, i) ==
    LET two == Peek(s, i, 2)
    IN IF Peek(s, i, 3) = "..." THEN Element("...", "", i + 3)
       ELSE IF two = "<>" THEN Element("!=", "", i + 2)
       ELSE IF two \in Pairs THEN Element(two, "", i + 2)
       ELSE Element(CharAt(s, i), "", i + 1)

ReadWord(s, i) ==
    LET end == RunEnd(s, i, WordChars)
        word == SubSeq(s, i, end - 1)
    IN IF word \in Keywords THEN Element(word, "", end) ELSE Element("identifier", word, end)

ReadNumber(s, i) ==
    LET end == RunEnd(s, i, DigitChars) IN Element("number", SubSeq(s, i, end - 1), end)

\* parseString is the library's; strings are taken to have no quotes inside.
ReadString(s, i) ==
    LET end == Min({j \in (i + 1)..(Len(s) + 1) : CharAt(s, j) \in {"\"", ""}})
    IN IF end > Len(s) THEN Element("unknown", "", end)
       ELSE Element("string", SubSeq(s, i + 1, end - 1), end + 1)

\* A character that begins nothing is an error.
ReadNext(s, from) ==
    LET i == SkipBlank(s, from)
        c == CharAt(s, i)
    IN CASE c = "" -> Element("eof", "", i)
         [] c = "\n" -> Element("separator", "", i + 1)
         [] c = "\r" -> Element("separator", "", IF CharAt(s, i + 1) = "\n" THEN i + 2 ELSE i + 1)
         [] c \in Singles -> ReadPunctuation(s, i)
         [] c = "\"" -> ReadString(s, i)
         [] c \in DigitChars -> ReadNumber(s, i)
         [] c \in WordChars \ DigitChars -> ReadWord(s, i)
         [] OTHER -> Element("unknown", "", i)
=============================================================================
