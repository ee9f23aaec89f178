-------------------------------- MODULE Scanner --------------------------------
(***************************************************************************)
(* The scanner (src/src/scanner.c).  A call of scan_token is any number of *)
(* skipping steps, one for each round of skip_insig_chars, and a Scan.     *)
(*                                                                         *)
(* Characters are one-character strings.  "o", "r" and "x" stand for the   *)
(* letters, "1" for the digits, "@" for what no token begins with.         *)
(***************************************************************************)
EXTENDS Integers, Sequences, FiniteSets

CONSTANTS
  Sources,    \* the texts to scan
  LengthMod   \* Token.length is a uint8_t: 256

VARIABLES
  text,       \* the source
  current,    \* scanner.current, from 1
  line,       \* scanner.line
  unclosed,   \* a comment ended with the text (the error of scan_token)
  tokens      \* the tokens returned: [type, from, to, length, line]

scanner == <<text, current, line, unclosed, tokens>>

Alpha == {"o", "r", "x"}
Digit == {"1"}
Punctuation == {"(", ")", "{", "}", ";", ",", ".", "+", "-", "*", "/"}
MaybeEqual  == {"<", ">", "=", "!"}
Keywords    == {<<"o", "r">>}
End == "end"

(* A text is of characters, and ends before the first that is NUL.         *)
ASSUME ScannerAssumption ==
  /\ \A t \in Sources : t \in Seq(STRING) /\ \A i \in DOMAIN t : t[i] # End
  /\ LengthMod \in Nat \ {0}

CharAt(i) == IF i \in DOMAIN text THEN text[i] ELSE End

(* The first position from i on with one of the characters, or the end.    *)
Find(i, chars) ==
  CHOOSE j \in i .. Len(text) + 1 :
    /\ CharAt(j) \in chars \cup {End}
    /\ \A k \in i .. j - 1 : CharAt(k) \notin chars
FindNot(i, chars) ==
  CHOOSE j \in i .. Len(text) + 1 :
    CharAt(j) \notin chars /\ \A k \in i .. j - 1 : CharAt(k) \in chars

Newlines(i, j) == Cardinality({k \in i .. j - 1 : CharAt(k) = "\n"})

-------------------------------------------------------------------------------
(* skip_insig_chars.                                                       *)

AtLineComment == CharAt(current) = "/" /\ CharAt(current + 1) = "/"
AtComment     == CharAt(current) = "/" /\ CharAt(current + 1) = "*"
AtBlank       == CharAt(current) \in {" ", "\n"}
Done          == tokens # <<>> /\ tokens[Len(tokens)].type = "EOF"

SkipTo(j, lines) ==
  /\ current' = j /\ line' = line + lines
  /\ UNCHANGED <<text, tokens>>

SkipBlank ==
  /\ AtBlank /\ SkipTo(current + 1, Newlines(current, current + 1))
  /\ UNCHANGED unclosed

(* Mutant: the end of the line is not counted.                             *)
SkipLineCommentUncounted ==
  /\ AtLineComment /\ UNCHANGED unclosed
  /\ LET j == Find(current, {"\n"})
     IN SkipTo(IF CharAt(j) = "\n" THEN j + 1 ELSE j, 0)

SkipLineComment ==
  /\ AtLineComment /\ UNCHANGED unclosed
  /\ LET j == Find(current, {"\n"})
     IN IF CharAt(j) = "\n" THEN SkipTo(j + 1, 1) ELSE SkipTo(j, 0)

(* Where a star is before a slash.                                         *)
Closing == {j \in current .. Len(text) : CharAt(j) = "*" /\ CharAt(j + 1) = "/"}

(* Mutant: a comment that is not closed is left where it is.               *)
SkipCommentClosed ==
  /\ AtComment /\ UNCHANGED unclosed
  /\ IF Closing = {} THEN SkipTo(current, 0)
     ELSE LET j == CHOOSE j \in Closing : \A k \in Closing : j <= k
          IN SkipTo(j + 2, Newlines(current, j))

(* The first star that a slash follows ends the comment, be it the star    *)
(* that began it.                                                          *)
SkipComment ==
  /\ AtComment
  /\ IF Closing = {}
     THEN SkipTo(Len(text) + 1, Newlines(current, Len(text) + 1)) /\ unclosed' = TRUE
     ELSE LET j == CHOOSE j \in Closing : \A k \in Closing : j <= k
          IN SkipTo(j + 2, Newlines(current, j)) /\ UNCHANGED unclosed

-------------------------------------------------------------------------------
(* scan_token, behind what is skipped: the token and where to go on.       *)

Token(type, from, to) ==
  [type |-> type, from |-> from, to |-> to, length |-> (to - from) % LengthMod, line |-> line]

Lexed(type, i, j) == [token |-> Token(type, i, j), next |-> j]

(* Mutant: a string goes on to the next quote.                             *)
StringAcrossLines(i) ==
  LET j == Find(i + 1, {"\""})
  IN IF CharAt(j) = "\"" THEN [token |-> Token("string", i + 1, j), next |-> j + 1]
     ELSE [token |-> Token("error", i, j), next |-> j]

(* A string is without its quotes, and on one line.                        *)
String(i) ==
  LET j == Find(i + 1, {"\"", "\n"})
  IN IF CharAt(j) = "\"" THEN [token |-> Token("string", i + 1, j), next |-> j + 1]
     ELSE [token |-> Token("error", i, j), next |-> j]

(* Mutant: a dot belongs to the number before it.                          *)
NumberWithDot(i) ==
  LET j == FindNot(i, Digit)
  IN IF CharAt(j) = "." THEN Lexed("number", i, FindNot(j + 1, Digit)) ELSE Lexed("number", i, j)

Number(i) ==
  LET j == FindNot(i, Digit)
  IN IF CharAt(j) = "." /\ CharAt(j + 1) \in Digit
     THEN Lexed("number", i, FindNot(j + 1, Digit)) ELSE Lexed("number", i, j)

(* identifier_type: the whole lexeme is compared.                          *)
Word(i) ==
  LET j == FindNot(i, Alpha \cup Digit)
  IN Lexed(IF SubSeq(text, i, j - 1) \in Keywords THEN "keyword" ELSE "identifier", i, j)

ScanAt(i) ==
  LET c == CharAt(i)
  IN CASE c = End           -> Lexed("EOF", i, i)
       [] c \in Punctuation -> Lexed("symbol", i, i + 1)
       [] c \in MaybeEqual  -> Lexed("symbol", i, IF CharAt(i + 1) = "=" THEN i + 2 ELSE i + 1)
       [] c = "\""          -> String(i)
       [] c \in Digit       -> Number(i)
       [] c \in Alpha       -> Word(i)
       [] OTHER             -> Lexed("error", i, i + 1)

Scan ==
  /\ ~Done /\ ~AtBlank /\ ~AtLineComment /\ ~AtComment
  /\ IF unclosed
     THEN tokens' = Append(tokens, Token("error", current, current)) /\ UNCHANGED current
     ELSE LET s == ScanAt(current)
          IN tokens' = Append(tokens, s.token) /\ current' = s.next
  /\ unclosed' = FALSE /\ UNCHANGED <<text, line>>

ScannerStop == Done /\ UNCHANGED scanner

ScannerInit ==
  /\ text \in Sources /\ current = 1 /\ line = 1 /\ unclosed = FALSE /\ tokens = <<>>

ScannerNext == SkipBlank \/ SkipLineComment \/ SkipComment \/ Scan \/ ScannerStop
ScannerSpec == ScannerInit /\ [][ScannerNext]_scanner /\ WF_scanner(ScannerNext)

-------------------------------------------------------------------------------
(* Properties.                                                             *)

(* The lexical grammar: text[i .. j - 1] is a lexeme of the type.          *)
All(i, j, chars) == \A k \in i .. j - 1 : text[k] \in chars
IsLexeme(type, i, j) ==
  /\ i < j /\ j <= Len(text) + 1
  /\ CASE type = "symbol" ->
            \/ j = i + 1 /\ text[i] \in Punctuation \cup MaybeEqual
            \/ j = i + 2 /\ text[i] \in MaybeEqual /\ text[i + 1] = "="
       [] type = "number" ->
            \/ All(i, j, Digit)
            \/ \E k \in i + 1 .. j - 2 :
                 All(i, k, Digit) /\ text[k] = "." /\ All(k + 1, j, Digit)
       [] type = "identifier" ->
            /\ text[i] \in Alpha /\ All(i, j, Alpha \cup Digit)
            /\ SubSeq(text, i, j - 1) \notin Keywords
       [] type = "keyword" -> SubSeq(text, i, j - 1) \in Keywords
       [] type = "string" ->
            /\ j > i + 1 /\ text[i] = "\"" /\ text[j - 1] = "\""
            /\ \A k \in i + 1 .. j - 2 : text[k] \notin {"\"", "\n"}

Types == {"symbol", "number", "identifier", "keyword", "string"}

(* The text that a token stands for: a string's has its quotes.            *)
Span(t) == IF t.type = "string" THEN <<t.from - 1, t.to + 1>> ELSE <<t.from, t.to>>

(* Each token is the longest lexeme where it begins, of its type; an error *)
(* is where no lexeme begins, or where a comment is not closed.            *)
LongestLexeme(t) ==
  LET i == Span(t)[1]  j == Span(t)[2]
  IN CASE t.type = "EOF"   -> i = Len(text) + 1
       [] t.type = "error" -> \A type \in Types : \A k \in i .. Len(text) + 1 : ~IsLexeme(type, i, k)
       [] OTHER -> /\ IsLexeme(t.type, i, j)
                   /\ \A type \in Types : \A k \in j + 1 .. Len(text) + 1 : ~IsLexeme(type, i, k)

(* Errors are reported with the line they are on: every end of line before *)
(* a token is counted once, also those in comments.                        *)
LinesCounted ==
  /\ line = 1 + Newlines(1, current)
  /\ \A n \in DOMAIN tokens : tokens[n].line = 1 + Newlines(1, tokens[n].to)

(* A comment: to the end of the line, or to the first closing.             *)
Comment(i, j) ==
  /\ j > i + 1 /\ text[i] = "/"
  /\ \/ /\ text[i + 1] = "/"
        /\ \A k \in i .. j - 2 : text[k] # "\n"
        /\ j = Len(text) + 1 \/ text[j - 1] = "\n"
     \/ /\ text[i + 1] = "*"
        /\ \A k \in i + 1 .. j - 3 : ~(text[k] = "*" /\ text[k + 1] = "/")
        /\ text[j - 2] = "*" /\ text[j - 1] = "/"

(* The scanner passes over blanks and comments, and over nothing else but  *)
(* the tokens it returns, each the longest lexeme where it begins: no text *)
(* is lost, read twice, or split otherwise than the grammar says.          *)
ScansText ==
  IF tokens' = tokens
  THEN \/ current' = current + 1 /\ text[current] \in {" ", "\n"}
       \/ Comment(current, current')
       \/ unclosed' /\ current' = Len(text) + 1
  ELSE LET t == tokens'[Len(tokens')]
       IN /\ Span(t)[1] = current /\ current' \in {Span(t)[2], t.to}
          /\ LongestLexeme(t)
TokensAreLexemes == [][ScansText]_scanner

(* The text is scanned to its end.                                         *)
ScannerFinishes == <>Done
===============================================================================
