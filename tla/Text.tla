-------------------------------- MODULE Text --------------------------------
(***************************************************************************)
(* A command line and what becomes of it: printableStringToBinary and      *)
(* printableString (utils/text.cpp), Command::splitCommandString and the   *)
(* hash tag of Command::calcKeyHashSlot (command.cpp).                     *)
(*                                                                         *)
(* Somebody has a list of arguments in mind and types them as the library  *)
(* shows and expects them.  splitCommandString decodes the whole line and  *)
(* then splits it; both loops look at nothing but what is behind them, so  *)
(* here they run one character behind each other and every state is also   *)
(* the end of a line.                                                      *)
(*                                                                         *)
(* Characters stand for classes: "A" and "0" are hexadecimal digits, "g"   *)
(* any other printable character, "S" a byte other than " " that isSpace   *)
(* takes for one (09 to 0D, 85, A0), "H" any other byte that is no         *)
(* printable character.  Both may be typed as they are, a tab or the bytes *)
(* of a letter such as C3 A0, or as \xhh.  No argument has the bytes EF BE  *)
(* next to each other: the decoder removes them.                           *)
(*                                                                         *)
(* TextInit, TextNext and TextSpec have names of their own because         *)
(* ParsingProofs extends Reader beside this module.                        *)
(***************************************************************************)
EXTENDS Integers, SequencesExt

CONSTANT MaxKeys  \* bound: characters, quotes and blanks that are typed

ASSUME MaxKeysAssumption == MaxKeys \in Nat

Backslash == "\\"
Delimiters == {"\"", "'"}
HexDigits == {"A", "0"}
Plain == {"A", "g", "{", "}"}
Binary == {"H", "S"}
Spaces == {" ", "S"}

\* fromHex: 0A and A0 are spaces, 00 and AA are not.
FromHex(first, second) == IF first = second THEN "H" ELSE "S"

\* What an argument may have in it.  The decoder has no way to write a backslash
\* before a quote, and none is in an argument here.
Characters == Plain \union Binary \union Delimiters \union {" "}

None == ""

VARIABLES
    meant,      \* the arguments that are meant
    typing,     \* "blank", "bare", "closed", or the quote that is open
    keys,       \* keys used so far
    mistyped,   \* an escape sequence was typed that is none
    line,       \* characters that are typed and not yet decoded
    escape,     \* quoteStarted, xFound and hexBuff: what follows a backslash, with it
    decoded,    \* bytes that are decoded and not yet split
    previous,   \* command.at(i - 1)
    delimiter,  \* inQuote and currentDelimiter
    part,       \* the argument that is being collected
    parts       \* the arguments found so far

userVars == <<meant, typing, keys, mistyped>>
splitVars == <<previous, delimiter, part, parts>>
textVars == <<userVars, line, escape, decoded, splitVars>>

TextInit ==
    /\ meant = <<>>
    /\ typing = "blank"
    /\ keys = 0
    /\ mistyped = FALSE
    /\ line = <<>>
    /\ escape = <<>>
    /\ decoded = <<>>
    /\ previous = None
    /\ delimiter = None
    /\ part = <<>>
    /\ parts = <<>>

-----------------------------------------------------------------------------
(* The user.  A byte may be typed as printableString shows it.              *)

Escaped(first, second) == <<Backslash, "x", first, second>>
Typings(c) ==
    {<<c>>} \union
        {Escaped(digits[1], digits[2]) :
            digits \in {d \in HexDigits \X HexDigits : FromHex(d[1], d[2]) = c}}

Press(characters) ==
    /\ line = <<>> /\ decoded = <<>>
    /\ keys < MaxKeys
    /\ keys' = keys + 1
    /\ line' = characters
    /\ UNCHANGED <<escape, decoded, splitVars>>

\* Outside quotes whatever isSpace takes for a space is a blank.
Blank(b) ==
    /\ typing \in {"blank", "bare", "closed"}
    /\ \E typed \in Typings(b) : Press(typed)
    /\ typing' = "blank"
    /\ UNCHANGED <<meant, mistyped>>

\* A character outside quotes: a quote has a backslash before it.
TypeBare(c) ==
    /\ typing \in {"blank", "bare"}
    /\ c \notin Spaces
    /\ \E typed \in (IF c \in Delimiters THEN {<<Backslash, c>>} ELSE Typings(c)) : Press(typed)
    /\ typing' = "bare"
    /\ meant' = IF typing = "bare" THEN Front(meant) \o <<Append(Last(meant), c)>>
                ELSE Append(meant, <<c>>)
    /\ UNCHANGED mistyped

OpenQuote(quote) ==
    /\ typing = "blank"
    /\ Press(<<quote>>)
    /\ typing' = quote
    /\ meant' = Append(meant, <<>>)
    /\ UNCHANGED mistyped

\* A character inside quotes: only the quote that is open needs a backslash.
TypeQuoted(c) ==
    /\ typing \in Delimiters
    /\ \E typed \in (IF c = typing THEN {<<Backslash, c>>} ELSE Typings(c)) : Press(typed)
    /\ meant' = Front(meant) \o <<Append(Last(meant), c)>>
    /\ UNCHANGED <<typing, mistyped>>

CloseQuote ==
    /\ typing \in Delimiters
    /\ Press(<<typing>>)
    /\ typing' = "closed"
    /\ UNCHANGED <<meant, mistyped>>

\* \x and something that is no hexadecimal number of two digits.
Mistype(digits) ==
    /\ typing \in {"bare"} \union Delimiters
    /\ ~mistyped
    /\ Press(<<Backslash, "x">> \o digits \o <<"g">>)
    /\ mistyped' = TRUE
    /\ UNCHANGED <<meant, typing>>

-----------------------------------------------------------------------------
(* printableStringToBinary: one character of the loop. *)

Decode(emitted, rest) ==
    /\ decoded' = emitted
    /\ escape' = rest

\* A second hexadecimal digit makes a byte; a character that is no digit ends the
\* sequence and is itself lost.
AfterX(c) ==
    IF c \notin HexDigits THEN Decode(escape, <<>>)
    ELSE IF Len(escape) = 3 THEN Decode(<<FromHex(escape[3], c)>>, <<>>)
    ELSE Decode(<<>>, Append(escape, c))

AfterBackslash(c) ==
    IF c = "x" THEN Decode(<<>>, Append(escape, c))
    ELSE Decode(<<Backslash, c>>, <<>>)

DecodeCharacter ==
    /\ decoded = <<>> /\ line # <<>>
    /\ line' = Tail(line)
    /\ LET c == Head(line)
       IN  CASE Len(escape) >= 2                    -> AfterX(c)
             [] Len(escape) = 1                     -> AfterBackslash(c)
             [] Len(escape) = 0 /\ c = Backslash    -> Decode(<<>>, <<c>>)
             [] OTHER                               -> Decode(<<c>>, <<>>)
    /\ UNCHANGED <<userVars, splitVars>>

-----------------------------------------------------------------------------
(* splitCommandString: one byte of the loop. *)

EndOfWord ==
    /\ parts' = IF part # <<>> THEN Append(parts, part) ELSE parts
    /\ part' = <<>>
    /\ UNCHANGED delimiter

\* The backslash gives way to the quote behind it.
EscapedQuote(b) ==
    /\ part' = Append(Front(part), b)
    /\ UNCHANGED <<parts, delimiter>>

\* A quote that opens throws away what is before it in the same word.
Quote(b) ==
    /\ parts' = IF delimiter = None THEN parts ELSE Append(parts, part)
    /\ delimiter' = IF delimiter = None THEN b ELSE None
    /\ part' = <<>>

Collect(b) ==
    /\ part' = Append(part, b)
    /\ UNCHANGED <<parts, delimiter>>

IsSpace(b) == b \in Spaces

\* Mutant: every quote counts, also one of the other kind.
AnyQuote(b) == b \in Delimiters
IsQuote(b) == b \in Delimiters /\ delimiter \in {None, b}

SplitByte ==
    /\ decoded # <<>>
    /\ decoded' = Tail(decoded)
    /\ previous' = Head(decoded)
    /\ LET b == Head(decoded)
       IN  CASE IsSpace(b) /\ delimiter = None       -> EndOfWord
             [] IsQuote(b) /\ previous = Backslash     -> EscapedQuote(b)
             [] IsQuote(b) /\ previous # Backslash     -> Quote(b)
             [] OTHER                                  -> Collect(b)
    /\ UNCHANGED <<userVars, line, escape>>

\* What splitCommandString returns when the line ends here.
Arguments == IF parts = <<>> \/ part # <<>> THEN Append(parts, part) ELSE parts

-----------------------------------------------------------------------------
(* calcKeyHashSlot: the part of a key that is hashed. *)

IndexFrom(key, c, from) ==
    LET places == {i \in from..Len(key) : key[i] = c}
    IN  IF places = {} THEN 0 ELSE CHOOSE i \in places : \A j \in places : i <= j

\* Mutant: the closing brace is looked for from the start of the key.
FirstClosing(key, start) == IndexFrom(key, "}", 1)
Closing(key, start) == IndexFrom(key, "}", start + 1)

Hashed(key) ==
    LET start == IndexFrom(key, "{", 1)
        end == Closing(key, start)
    IN  IF start # 0 /\ end # 0 /\ end # start + 1
        THEN SubSeq(key, start + 1, end - 1)
        ELSE key

-----------------------------------------------------------------------------

TextNext ==
    \/ \E b \in Spaces : Blank(b)
    \/ \E c \in Characters : TypeBare(c) \/ TypeQuoted(c)
    \/ \E quote \in Delimiters : OpenQuote(quote)
    \/ CloseQuote
    \/ \E digits \in {<<>>, <<"A">>} : Mistype(digits)
    \/ DecodeCharacter
    \/ SplitByte

TextSpec == TextInit /\ [][TextNext]_textVars

-----------------------------------------------------------------------------
(* Properties. *)

LineIsRead == line = <<>> /\ decoded = <<>>

\* The command that runs has the arguments that were meant, byte for byte: spaces of
\* every kind and quotes inside quotes, quotes behind a backslash, bytes that are no
\* text, empty arguments, and as many spaces between them as one likes.  Outside
\* quotes a byte that isSpace takes for a space ends the argument and is lost, also
\* when it is written \xhh or is part of a letter: it is a Blank here, and whoever means
\* it has to quote it.  A mistyped escape sequence loses a character and is left out.
ArgumentsAreKept ==
    LineIsRead /\ ~mistyped /\ typing \notin Delimiters =>
        Arguments = IF meant = <<>> THEN <<<<>>>> ELSE meant

\* The server's rule: the hash tag of a key is what is between its first "{" and
\* the first "}" behind it, if there is something; else it is the key.
HasTag(key, tag) ==
    \E before, after \in 0..Len(key) :
        /\ before + Len(tag) + 2 + after = Len(key)
        /\ tag # <<>>
        /\ key = SubSeq(key, 1, before) \o <<"{">> \o tag \o <<"}">>
                 \o SubSeq(key, Len(key) - after + 1, Len(key))
        /\ "{" \notin Range(SubSeq(key, 1, before))
        /\ "}" \notin Range(tag)

\* A key is sent to the node that owns its slot: the client hashes the same bytes
\* of it as the server does.
HashesAsTheServer ==
    \A key \in Range(meant) :
        /\ \A i, j \in DOMAIN key :
               HasTag(key, SubSeq(key, i, j)) => Hashed(key) = SubSeq(key, i, j)
        /\ Hashed(key) # key => HasTag(key, Hashed(key))

=============================================================================
