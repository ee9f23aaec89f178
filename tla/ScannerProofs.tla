------------------------------ MODULE ScannerProofs ------------------------------
(***************************************************************************)
(* What the scanner does with every text: it counts each end of line once, *)
(* and passes over blanks, comments and longest lexemes only.              *)
(***************************************************************************)
EXTENDS Scanner, FiniteSetTheorems, SequenceTheorems, WellFoundedInduction, TLAPS

-------------------------------------------------------------------------------
(* Characters.                                                             *)

IsText == text \in Seq(STRING) /\ \A i \in DOMAIN text : text[i] # End

LEMMA TextIs ==
  ASSUME IsText
  PROVE  /\ Len(text) \in Nat /\ DOMAIN text = 1 .. Len(text)
         /\ \A i \in 1 .. Len(text) : CharAt(i) = text[i] /\ CharAt(i) # End
         /\ \A i : i \notin 1 .. Len(text) => CharAt(i) = End
<1>1. Len(text) \in Nat /\ DOMAIN text = 1 .. Len(text)
  BY LenProperties DEF IsText
<1>2. QED
  BY <1>1 DEF CharAt, IsText

Below == {p \in Nat \X Nat : p[1] < p[2]}

LEMMA LeastOf ==
  ASSUME NEW T, T \subseteq Nat, T # {}
  PROVE  \E n \in T : \A m \in T : n <= m
<1>1. Below = OpToRel(<, Nat)
  BY DEF Below, OpToRel
<1>2. IsWellFoundedOn(Below, Nat)
  BY <1>1, NatLessThanWellFounded
<1>3. PICK n \in T : \A m \in T : ~(<<m, n>> \in Below)
  BY <1>2, WFMin
<1>4. \A m \in T : ~(m < n) /\ m \in Nat /\ n \in Nat
  BY <1>3 DEF Below
<1>5. QED
  BY <1>4

LEMMA FindIs ==
  ASSUME IsText, NEW i \in 1 .. Len(text) + 1, NEW chars, NEW j, j = Find(i, chars)
  PROVE  /\ j \in i .. Len(text) + 1 /\ j \in Nat
         /\ CharAt(j) \in chars \cup {End}
         /\ \A k \in i .. j - 1 : CharAt(k) \notin chars
<1>1. Len(text) \in Nat /\ CharAt(Len(text) + 1) = End
  BY TextIs
<1>2. PICK T : T = {m \in i .. Len(text) + 1 : CharAt(m) \in chars \cup {End}}
  OBVIOUS
<1>3. T \subseteq Nat /\ Len(text) + 1 \in T
  BY <1>1, <1>2
<1>4. PICK m \in T : \A k \in T : m <= k
  BY <1>3, LeastOf
<1>5. m \in i .. Len(text) + 1 /\ CharAt(m) \in chars \cup {End}
  BY <1>2, <1>4
<1>6. \A k \in i .. m - 1 : CharAt(k) \notin chars
  <2> SUFFICES ASSUME NEW k \in i .. m - 1, CharAt(k) \in chars
               PROVE  FALSE
    OBVIOUS
  <2>1. k \in T /\ ~(m <= k)
    BY <1>1, <1>2, <1>5
  <2>2. QED
    BY <2>1, <1>4
<1>7. QED
  BY <1>1, <1>5, <1>6 DEF Find

LEMMA FindNotIs ==
  ASSUME IsText, NEW i \in 1 .. Len(text) + 1, NEW chars, End \notin chars,
         NEW j, j = FindNot(i, chars)
  PROVE  /\ j \in i .. Len(text) + 1 /\ j \in Nat
         /\ CharAt(j) \notin chars
         /\ \A k \in i .. j - 1 : CharAt(k) \in chars
<1>1. Len(text) \in Nat /\ CharAt(Len(text) + 1) = End
  BY TextIs
<1>2. PICK T : T = {m \in i .. Len(text) + 1 : CharAt(m) \notin chars}
  OBVIOUS
<1>3. T \subseteq Nat /\ Len(text) + 1 \in T
  BY <1>1, <1>2
<1>4. PICK m \in T : \A k \in T : m <= k
  BY <1>3, LeastOf
<1>5. m \in i .. Len(text) + 1 /\ CharAt(m) \notin chars
  BY <1>2, <1>4
<1>6. \A k \in i .. m - 1 : CharAt(k) \in chars
  <2> SUFFICES ASSUME NEW k \in i .. m - 1, CharAt(k) \notin chars
               PROVE  FALSE
    OBVIOUS
  <2>1. k \in T /\ ~(m <= k)
    BY <1>1, <1>2, <1>5
  <2>2. QED
    BY <2>1, <1>4
<1>7. QED
  BY <1>1, <1>5, <1>6 DEF FindNot

-------------------------------------------------------------------------------
(* Ends of lines.                                                          *)

LEMMA NewlinesAdd ==
  ASSUME NEW i \in Nat, NEW j \in Nat, i >= 1, i <= j
  PROVE  /\ Newlines(1, i) \in Nat /\ Newlines(i, j) \in Nat
         /\ Newlines(1, j) = Newlines(1, i) + Newlines(i, j)
<1>1. PICK A : A = {k \in 1 .. i - 1 : CharAt(k) = "\n"}
  OBVIOUS
<1>2. PICK B : B = {k \in i .. j - 1 : CharAt(k) = "\n"}
  OBVIOUS
<1>3. PICK C : C = {k \in 1 .. j - 1 : CharAt(k) = "\n"}
  OBVIOUS
<1>4. C = A \cup B /\ A \cap B = {}
  BY <1>1, <1>2, <1>3
<1>5. IsFiniteSet(A) /\ IsFiniteSet(B)
  <2>1. IsFiniteSet(1 .. i - 1) /\ IsFiniteSet(i .. j - 1)
    BY FS_Interval
  <2>2. A \subseteq 1 .. i - 1 /\ B \subseteq i .. j - 1
    BY <1>1, <1>2
  <2>3. QED
    BY <2>1, <2>2, FS_Subset
<1>6. Cardinality(A) \in Nat /\ Cardinality(B) \in Nat
  BY <1>5, FS_CardinalityType
<1>7. Cardinality(C) = Cardinality(A) + Cardinality(B)
  <2>1. Cardinality(A \cup B) = Cardinality(A) + Cardinality(B) - Cardinality(A \cap B)
    BY <1>5, FS_Union
  <2>2. Cardinality(A \cap B) = 0
    BY <1>4, FS_EmptySet
  <2>3. QED
    BY <2>1, <2>2, <1>4, <1>6
<1>8. QED
  BY <1>1, <1>2, <1>3, <1>6, <1>7 DEF Newlines

LEMMA NoNewlines ==
  ASSUME NEW i \in Nat, NEW j \in Nat, \A k \in i .. j - 1 : CharAt(k) # "\n"
  PROVE  Newlines(i, j) = 0
<1>1. {k \in i .. j - 1 : CharAt(k) = "\n"} = {}
  OBVIOUS
<1>2. QED
  BY <1>1, FS_EmptySet DEF Newlines

LEMMA OneNewline ==
  ASSUME NEW i \in Nat, NEW j \in Nat, i <= j, CharAt(j) = "\n",
         \A k \in i .. j - 1 : CharAt(k) # "\n"
  PROVE  Newlines(i, j + 1) = 1
<1>1. {k \in i .. j + 1 - 1 : CharAt(k) = "\n"} = {j}
  OBVIOUS
<1>2. Cardinality({j}) = 1
  BY FS_Singleton
<1>3. QED
  BY <1>1, <1>2 DEF Newlines

-------------------------------------------------------------------------------
(* What a token is made of.                                                *)

Kinds == Types \cup {"EOF", "error"}

TokenSet == [type : Kinds, from : Nat, to : Nat, length : Nat, line : Nat]

LEMMA TokenIs ==
  ASSUME NEW type \in Kinds, NEW i \in Nat, NEW j \in Nat, i <= j, line \in Nat,
         NEW t, t = Token(type, i, j)
  PROVE  /\ t \in TokenSet
         /\ t.type = type /\ t.from = i /\ t.to = j /\ t.line = line
<1>1. (j - i) % LengthMod \in Nat
  BY ScannerAssumption
<1>2. QED
  BY <1>1 DEF Token, TokenSet

(* A call of scan_token at i makes t and goes on at next: the line is that *)
(* of the place where the text of the token ends.                          *)
Scanned(i, t, next) ==
  /\ t \in TokenSet /\ t.line = line
  /\ next \in i .. Len(text) + 1 /\ t.to \in i .. next
  /\ \A k \in i .. next - 1 : CharAt(k) # "\n"
  /\ Span(t)[1] = i /\ next \in {Span(t)[2], t.to}
  /\ LongestLexeme(t)

(* What begins a lexeme of each type.                                      *)
LEMMA Begins ==
  ASSUME IsText, NEW type \in Types, NEW i \in 1 .. Len(text) + 1, NEW j \in Nat,
         IsLexeme(type, i, j)
  PROVE  /\ i \in 1 .. Len(text) /\ CharAt(i) = text[i] /\ i < j /\ j <= Len(text) + 1
         /\ type = "symbol" => text[i] \in Punctuation \cup MaybeEqual
         /\ type = "number" => text[i] \in Digit
         /\ type \in {"identifier", "keyword"} => text[i] \in Alpha
         /\ type = "string" => text[i] = "\""
<1>1. i < j /\ j <= Len(text) + 1 /\ Len(text) \in Nat
  BY TextIs DEF IsLexeme
<1>2. i \in 1 .. Len(text) /\ CharAt(i) = text[i]
  BY <1>1, TextIs
<1>3. ASSUME type = "symbol" PROVE text[i] \in Punctuation \cup MaybeEqual
  BY <1>3 DEF IsLexeme
<1>4. ASSUME type = "number" PROVE text[i] \in Digit
  <2>1. ASSUME NEW m \in Nat, i < m, All(i, m, Digit) PROVE text[i] \in Digit
    BY <2>1, <1>1 DEF All
  <2>2. \/ All(i, j, Digit)
        \/ \E k \in i + 1 .. j - 2 : All(i, k, Digit)
    BY <1>4 DEF IsLexeme
  <2>3. QED
    BY <2>1, <2>2, <1>1
<1>5. ASSUME type = "identifier" PROVE text[i] \in Alpha
  BY <1>5 DEF IsLexeme
<1>6. ASSUME type = "keyword" PROVE text[i] \in Alpha
  <2>1. SubSeq(text, i, j - 1) = <<"o", "r">>
    BY <1>6 DEF IsLexeme, Keywords
  <2>2. SubSeq(text, i, j - 1)[1] = text[i]
    <3>1. \A k \in i .. j - 1 : text[k] \in STRING
      BY <1>1, <1>2, TextIs, ElementOfSeq DEF IsText
    <3>2. \A k \in 1 .. j - 1 - i + 1 : SubSeq(text, i, j - 1)[k] = text[i + k - 1]
      BY <3>1, SubSeqProperties
    <3>3. 1 \in 1 .. j - 1 - i + 1 /\ i + 1 - 1 = i
      BY <1>1
    <3>4. QED
      BY <3>2, <3>3
  <2>3. <<"o", "r">>[1] = "o"
    OBVIOUS
  <2>4. text[i] = "o"
    BY <2>1, <2>2, <2>3
  <2>5. QED
    BY <2>4 DEF Alpha
<1>7. ASSUME type = "string" PROVE text[i] = "\""
  BY <1>7 DEF IsLexeme
<1>8. QED
  BY <1>1, <1>2, <1>3, <1>4, <1>5, <1>6, <1>7

LEMMA KeywordIs ==
  ASSUME IsText, NEW i \in 1 .. Len(text) + 1, NEW j \in Nat, i < j, j <= Len(text) + 1,
         SubSeq(text, i, j - 1) \in Keywords
  PROVE  \A k \in i .. j - 1 : text[k] \in Alpha
<1>1. Len(text) \in Nat
  BY TextIs
<1>2. SubSeq(text, i, j - 1) = <<"o", "r">>
  BY DEF Keywords
<1>3. \A k \in i .. j - 1 : text[k] \in STRING
  <2> TAKE k \in i .. j - 1
  <2>1. k \in 1 .. Len(text)
    BY <1>1
  <2>2. QED
    BY <2>1, ElementOfSeq DEF IsText
<1>4. /\ Len(SubSeq(text, i, j - 1)) = j - i
      /\ \A k \in 1 .. j - i : SubSeq(text, i, j - 1)[k] = text[i + k - 1]
  <2>1. i \in Int /\ j - 1 \in Int /\ i <= j - 1 /\ (j - 1) - i + 1 = j - i
    OBVIOUS
  <2>2. /\ Len(SubSeq(text, i, j - 1)) = IF i <= j - 1 THEN (j - 1) - i + 1 ELSE 0
        /\ \A k \in 1 .. (j - 1) - i + 1 : SubSeq(text, i, j - 1)[k] = text[i + k - 1]
    BY <1>3, <2>1, SubSeqProperties
  <2>3. QED
    BY <2>1, <2>2
<1>5. j - i = 2
  BY <1>2, <1>4
<1>6. text[i] = "o" /\ text[i + 1] = "r"
  <2>1. 1 \in 1 .. j - i /\ 2 \in 1 .. j - i /\ i + 1 - 1 = i /\ i + 2 - 1 = i + 1
    BY <1>5
  <2>2. <<"o", "r">>[1] = "o" /\ <<"o", "r">>[2] = "r"
    OBVIOUS
  <2>3. /\ SubSeq(text, i, j - 1)[1] = text[i + 1 - 1]
        /\ SubSeq(text, i, j - 1)[2] = text[i + 2 - 1]
    BY <2>1, <1>4
  <2>4. QED
    BY <2>1, <2>2, <2>3, <1>2
<1>7. \A k \in i .. j - 1 : k = i \/ k = i + 1
  BY <1>5
<1>8. QED
  BY <1>6, <1>7 DEF Alpha

-------------------------------------------------------------------------------
(* The tokens, by what they begin with.                                    *)

Beginnings == Punctuation \cup MaybeEqual \cup Digit \cup Alpha \cup {"\""}

(* Another type of lexeme does not begin here.                             *)
Only(i, types) ==
  \A type \in Types \ types : \A k \in Nat : ~IsLexeme(type, i, k)

LEMMA Kind ==
  ASSUME IsText, NEW i \in 1 .. Len(text) + 1
  PROVE  /\ CharAt(i) \in Punctuation \cup MaybeEqual => Only(i, {"symbol"})
         /\ CharAt(i) \in Digit => Only(i, {"number"})
         /\ CharAt(i) \in Alpha => Only(i, {"identifier", "keyword"})
         /\ CharAt(i) = "\"" => Only(i, {"string"})
         /\ CharAt(i) \notin Beginnings => Only(i, {})
<1>1. /\ (Punctuation \cup MaybeEqual) \cap Digit = {}
      /\ (Punctuation \cup MaybeEqual) \cap Alpha = {}
      /\ Digit \cap Alpha = {}
      /\ "\"" \notin Punctuation \cup MaybeEqual \cup Digit \cup Alpha
  BY DEF Punctuation, MaybeEqual, Digit, Alpha
<1>2. ASSUME NEW type \in Types, NEW k \in Nat, IsLexeme(type, i, k)
      PROVE  \/ type = "symbol" /\ CharAt(i) \in Punctuation \cup MaybeEqual
             \/ type = "number" /\ CharAt(i) \in Digit
             \/ type \in {"identifier", "keyword"} /\ CharAt(i) \in Alpha
             \/ type = "string" /\ CharAt(i) = "\""
  BY <1>2, Begins DEF Types
<1>3. CharAt(i) \in Punctuation \cup MaybeEqual => Only(i, {"symbol"})
  BY <1>1, <1>2 DEF Only
<1>4. CharAt(i) \in Digit => Only(i, {"number"})
  BY <1>1, <1>2 DEF Only
<1>5. CharAt(i) \in Alpha => Only(i, {"identifier", "keyword"})
  BY <1>1, <1>2 DEF Only
<1>6. CharAt(i) = "\"" => Only(i, {"string"})
  BY <1>1, <1>2 DEF Only
<1>7. CharAt(i) \notin Beginnings => Only(i, {})
  BY <1>2 DEF Only, Beginnings
<1>8. QED
  BY <1>3, <1>4, <1>5, <1>6, <1>7

(* A longest lexeme from i up to j.                                        *)
LEMMA Longest ==
  ASSUME IsText, NEW i \in 1 .. Len(text) + 1, NEW j \in Nat, NEW t \in TokenSet,
         t.type \in Types, Span(t) = <<i, j>>, IsLexeme(t.type, i, j),
         NEW types, Only(i, types),
         \A type \in types : \A k \in j + 1 .. Len(text) + 1 : ~IsLexeme(type, i, k)
  PROVE  LongestLexeme(t)
<1>1. t.type # "EOF" /\ t.type # "error" /\ Len(text) \in Nat
  BY TextIs DEF Types
<1>2. Span(t)[1] = i /\ Span(t)[2] = j
  OBVIOUS
<1>3. \A type \in Types : \A k \in j + 1 .. Len(text) + 1 : ~IsLexeme(type, i, k)
  BY <1>1 DEF Only
<1>4. QED
  BY <1>1, <1>2, <1>3 DEF LongestLexeme

LEMMA NoLexeme ==
  ASSUME IsText, NEW i \in 1 .. Len(text) + 1, NEW t \in TokenSet,
         t.type = "error", t.from = i,
         \A type \in Types : \A k \in i .. Len(text) + 1 : ~IsLexeme(type, i, k)
  PROVE  Span(t)[1] = i /\ LongestLexeme(t)
<1>1. t.type # "string" /\ t.type # "EOF"
  OBVIOUS
<1>2. Span(t) = <<i, t.to>>
  BY <1>1 DEF Span
<1>3. Span(t)[1] = i
  BY <1>2
<1>4. QED
  BY <1>1, <1>3 DEF LongestLexeme

LEMMA EndIs ==
  ASSUME IsText, NEW i \in 1 .. Len(text) + 1, line \in Nat, CharAt(i) = End,
         NEW s, s = Lexed("EOF", i, i)
  PROVE  Scanned(i, s.token, s.next)
<1>1. Len(text) \in Nat /\ i \in Nat /\ i = Len(text) + 1
  BY TextIs
<1>2. PICK t : t = Token("EOF", i, i)
  OBVIOUS
<1>3. s.token = t /\ s.next = i
  BY <1>2 DEF Lexed
<1>4. t \in TokenSet /\ t.type = "EOF" /\ t.from = i /\ t.to = i /\ t.line = line
  <2>1. "EOF" \in Kinds /\ i <= i
    BY <1>1 DEF Kinds
  <2>2. QED
    BY <2>1, <1>1, <1>2, TokenIs
<1>5. Span(t) = <<i, i>>
  BY <1>4 DEF Span
<1>6. Span(t)[1] = i /\ Span(t)[2] = i
  BY <1>5
<1>7. LongestLexeme(t)
  BY <1>1, <1>4, <1>6 DEF LongestLexeme
<1>8. QED
  BY <1>1, <1>3, <1>4, <1>6, <1>7 DEF Scanned

LEMMA SymbolIs ==
  ASSUME IsText, NEW i \in 1 .. Len(text) + 1, line \in Nat,
         NEW next, next \in {i + 1, i + 2},
         CharAt(i) \in Punctuation \cup MaybeEqual,
         next = i + 2 => CharAt(i) \in MaybeEqual /\ CharAt(i + 1) = "=",
         next = i + 1 => CharAt(i) \in Punctuation \/ CharAt(i + 1) # "=",
         NEW s, s = Lexed("symbol", i, next)
  PROVE  Scanned(i, s.token, s.next)
<1>1. Len(text) \in Nat /\ i \in Nat /\ next \in Nat /\ i < next
  BY TextIs
<1>2. End \notin Punctuation \cup MaybeEqual /\ "=" # End
  BY DEF End, Punctuation, MaybeEqual
<1>3. i \in 1 .. Len(text) /\ CharAt(i) = text[i]
  BY <1>2, TextIs
<1>4. next = i + 2 => i + 1 \in 1 .. Len(text) /\ CharAt(i + 1) = text[i + 1]
  BY <1>2, TextIs
<1>5. next \in i .. Len(text) + 1
  BY <1>1, <1>3, <1>4
<1>6. PICK t : t = Token("symbol", i, next)
  OBVIOUS
<1>7. s.token = t /\ s.next = next
  BY <1>6 DEF Lexed
<1>8. t \in TokenSet /\ t.type = "symbol" /\ t.from = i /\ t.to = next /\ t.line = line
  BY <1>1, <1>6, TokenIs DEF Kinds, Types
<1>9. Span(t) = <<i, next>>
  BY <1>8 DEF Span
<1>10. Span(t)[1] = i /\ Span(t)[2] = next
  BY <1>9
<1>11. IsLexeme("symbol", i, next)
  BY <1>1, <1>3, <1>4, <1>5 DEF IsLexeme
<1>12. ASSUME NEW k \in next + 1 .. Len(text) + 1, IsLexeme("symbol", i, k)
       PROVE  FALSE
  <2>1. k = i + 2 /\ text[i] \in MaybeEqual /\ text[i + 1] = "=" /\ next = i + 1
    BY <1>1, <1>12 DEF IsLexeme
  <2>2. i + 1 \in 1 .. Len(text)
    BY <2>1, <1>1, <1>12
  <2>3. CharAt(i + 1) = "="
    BY <2>1, <2>2, TextIs
  <2>4. text[i] \notin Punctuation
    BY <2>1 DEF MaybeEqual, Punctuation
  <2>5. QED
    BY <2>1, <2>3, <2>4, <1>3
<1>13. LongestLexeme(t)
  <2>1. Only(i, {"symbol"})
    BY Kind
  <2>2. t.type \in Types /\ IsLexeme(t.type, i, next)
    BY <1>8, <1>11 DEF Types
  <2>3. \A type \in {"symbol"} : \A k \in next + 1 .. Len(text) + 1 : ~IsLexeme(type, i, k)
    BY <1>12
  <2>4. QED
    BY <2>1, <2>2, <2>3, <1>1, <1>8, <1>9, Longest
<1>14. \A k \in i .. next - 1 : CharAt(k) # "\n"
  <2> TAKE k \in i .. next - 1
  <2>1. k = i \/ (k = i + 1 /\ next = i + 2)
    BY <1>1
  <2>2. CharAt(i) # "\n"
    BY DEF Punctuation, MaybeEqual
  <2>3. QED
    BY <2>1, <2>2
<1>15. QED
  BY <1>1, <1>5, <1>7, <1>8, <1>10, <1>13, <1>14 DEF Scanned

(* A character that begins nothing.                                        *)
LEMMA ErrorIs ==
  ASSUME IsText, NEW i \in 1 .. Len(text) + 1, line \in Nat,
         CharAt(i) # End, CharAt(i) # "\n", CharAt(i) \notin Beginnings,
         NEW s, s = Lexed("error", i, i + 1)
  PROVE  Scanned(i, s.token, s.next)
<1>1. Len(text) \in Nat /\ i \in Nat /\ i \in 1 .. Len(text)
  BY TextIs
<1>2. PICK t : t = Token("error", i, i + 1)
  OBVIOUS
<1>3. s.token = t /\ s.next = i + 1
  BY <1>2 DEF Lexed
<1>4. t \in TokenSet /\ t.type = "error" /\ t.from = i /\ t.to = i + 1 /\ t.line = line
  <2>1. "error" \in Kinds /\ i <= i + 1 /\ i + 1 \in Nat
    BY <1>1 DEF Kinds
  <2>2. QED
    BY <2>1, <1>1, <1>2, TokenIs
<1>5. \A type \in Types : \A k \in i .. Len(text) + 1 : ~IsLexeme(type, i, k)
  <2>1. Only(i, {})
    BY Kind
  <2>2. QED
    BY <2>1, <1>1 DEF Only
<1>6. Span(t)[1] = i /\ LongestLexeme(t)
  BY <1>4, <1>5, NoLexeme
<1>7. \A k \in i .. (i + 1) - 1 : CharAt(k) # "\n"
  <2> TAKE k \in i .. (i + 1) - 1
  <2>1. k = i
    BY <1>1
  <2>2. QED
    BY <2>1
<1>8. QED
  BY <1>1, <1>3, <1>4, <1>6, <1>7 DEF Scanned

-------------------------------------------------------------------------------
(* Strings.                                                                *)

Quote == "\""
StringEnds == {"\"", "\n"}

Quoted(i, j) ==
  /\ i + 1 < j /\ j <= Len(text) + 1
  /\ CharAt(i) = Quote /\ CharAt(j - 1) = Quote
  /\ \A k \in i + 1 .. j - 2 : CharAt(k) \notin StringEnds

LEMMA StringLexeme ==
  ASSUME IsText, NEW i \in 1 .. Len(text) + 1, NEW j \in Nat
  PROVE  IsLexeme("string", i, j) <=> Quoted(i, j)
<1>1. Len(text) \in Nat
  BY TextIs
<1>2. ASSUME i + 1 < j, j <= Len(text) + 1
      PROVE  /\ CharAt(i) = text[i] /\ CharAt(j - 1) = text[j - 1]
             /\ \A k \in i + 1 .. j - 2 : CharAt(k) = text[k]
  <2>1. i \in 1 .. Len(text) /\ j - 1 \in 1 .. Len(text) /\ i + 1 .. j - 2 \subseteq 1 .. Len(text)
    BY <1>1, <1>2
  <2>2. QED
    BY <2>1, TextIs
<1>3. IsLexeme("string", i, j) <=>
        /\ i + 1 < j /\ j <= Len(text) + 1
        /\ text[i] = Quote /\ text[j - 1] = Quote
        /\ \A k \in i + 1 .. j - 2 : text[k] \notin StringEnds
  <2>1. IsLexeme("string", i, j) <=>
          /\ i < j /\ j <= Len(text) + 1
          /\ j > i + 1 /\ text[i] = "\"" /\ text[j - 1] = "\""
          /\ \A k \in i + 1 .. j - 2 : text[k] \notin {"\"", "\n"}
    BY DEF IsLexeme
  <2>2. j > i + 1 <=> i + 1 < j
    OBVIOUS
  <2>3. i + 1 < j => i < j
    BY <1>1
  <2>4. QED
    BY <2>1, <2>2, <2>3 DEF Quote, StringEnds
<1>4. QED
  BY <1>2, <1>3 DEF Quoted

LEMMA StringChars ==
  /\ End \notin StringEnds /\ Quote # End /\ Quote # "\n"
  /\ StringEnds = {Quote, "\n"}
BY DEF End, StringEnds, Quote

(* A string that ends on its line.                                         *)
LEMMA ClosedString ==
  ASSUME IsText, NEW i \in 1 .. Len(text), line \in Nat, CharAt(i) = Quote,
         NEW j \in i + 1 .. Len(text) + 1, CharAt(j) = Quote,
         \A k \in i + 1 .. j - 1 : CharAt(k) \notin StringEnds,
         NEW t, t = Token("string", i + 1, j)
  PROVE  Scanned(i, t, j + 1)
<1>1. Len(text) \in Nat /\ i \in Nat /\ j \in Nat /\ i \in 1 .. Len(text) + 1
  BY TextIs
<1>2. j \in 1 .. Len(text)
  BY <1>1, TextIs, StringChars
<1>3. t \in TokenSet /\ t.type = "string" /\ t.from = i + 1 /\ t.to = j /\ t.line = line
  <2>1. "string" \in Kinds /\ i + 1 <= j /\ i + 1 \in Nat
    BY <1>1 DEF Kinds, Types
  <2>2. QED
    BY <2>1, <1>1, TokenIs
<1>4. Span(t) = <<i, j + 1>>
  BY <1>1, <1>3 DEF Span
<1>5. Span(t)[1] = i /\ Span(t)[2] = j + 1
  BY <1>4
<1>6. IsLexeme("string", i, j + 1)
  <2>1. j + 1 \in Nat /\ (j + 1) - 1 = j /\ (j + 1) - 2 = j - 1 /\ i + 1 < j + 1
    BY <1>1
  <2>2. Quoted(i, j + 1)
    BY <2>1, <1>1, <1>2 DEF Quoted
  <2>3. QED
    BY <2>1, <2>2, <1>1, StringLexeme
<1>7. ASSUME NEW k \in j + 1 + 1 .. Len(text) + 1, IsLexeme("string", i, k) PROVE FALSE
  <2>1. k \in Nat /\ j \in i + 1 .. k - 2
    BY <1>1, <1>7
  <2>2. Quoted(i, k)
    BY <2>1, <1>1, <1>7, StringLexeme
  <2>3. CharAt(j) \notin StringEnds
    BY <2>1, <2>2 DEF Quoted
  <2>4. QED
    BY <2>3, StringChars
<1>8. LongestLexeme(t)
  <2>1. Only(i, {"string"})
    BY <1>1, Kind DEF Quote
  <2>2. t.type \in Types /\ IsLexeme(t.type, i, j + 1) /\ j + 1 \in Nat
    BY <1>1, <1>3, <1>6 DEF Types
  <2>3. \A type \in {"string"} : \A k \in j + 1 + 1 .. Len(text) + 1 : ~IsLexeme(type, i, k)
    BY <1>7
  <2>4. QED
    BY <2>1, <2>2, <2>3, <1>1, <1>3, <1>4, Longest
<1>9. \A k \in i .. (j + 1) - 1 : CharAt(k) # "\n"
  <2> TAKE k \in i .. (j + 1) - 1
  <2>1. k = i \/ k = j \/ k \in i + 1 .. j - 1
    BY <1>1
  <2>2. QED
    BY <2>1, StringChars
<1>10. j + 1 \in i .. Len(text) + 1 /\ j \in i .. j + 1
  BY <1>1, <1>2
<1>11. QED
  BY <1>3, <1>5, <1>8, <1>9, <1>10 DEF Scanned

(* A string that the line, or the text, ends before its second quote.      *)
LEMMA OpenString ==
  ASSUME IsText, NEW i \in 1 .. Len(text), line \in Nat, CharAt(i) = Quote,
         NEW j \in i + 1 .. Len(text) + 1, CharAt(j) \in {"\n", End},
         \A k \in i + 1 .. j - 1 : CharAt(k) \notin StringEnds,
         NEW t, t = Token("error", i, j)
  PROVE  Scanned(i, t, j)
<1>1. Len(text) \in Nat /\ i \in Nat /\ j \in Nat /\ i \in 1 .. Len(text) + 1 /\ i <= j
  BY TextIs
<1>2. t \in TokenSet /\ t.type = "error" /\ t.from = i /\ t.to = j /\ t.line = line
  <2>1. "error" \in Kinds
    BY DEF Kinds
  <2>2. QED
    BY <2>1, <1>1, TokenIs
<1>3. CharAt(j) # Quote
  BY StringChars
<1>4. ASSUME NEW k \in i .. Len(text) + 1, IsLexeme("string", i, k) PROVE FALSE
  <2>1. k \in Nat
    BY <1>1, <1>4
  <2>2. Quoted(i, k)
    BY <2>1, <1>1, <1>4, StringLexeme
  <2>3. i + 1 < k /\ CharAt(k - 1) = Quote /\ \A m \in i + 1 .. k - 2 : CharAt(m) \notin StringEnds
    BY <2>2 DEF Quoted
  <2>4. CASE k - 1 < j
    <3>1. k - 1 \in i + 1 .. j - 1
      BY <2>1, <2>3, <2>4, <1>1
    <3>2. QED
      BY <3>1, <2>3, StringChars
  <2>5. CASE k - 1 = j
    BY <2>3, <2>5, <1>3
  <2>6. CASE k - 1 > j
    <3>1. j \in i + 1 .. k - 2 /\ j \in 1 .. Len(text)
      BY <2>1, <2>6, <1>1, <1>4
    <3>2. CharAt(j) # End
      BY <3>1, TextIs
    <3>3. QED
      BY <3>1, <3>2, <2>3, StringChars
  <2>7. QED
    BY <2>1, <2>4, <2>5, <2>6, <1>1
<1>5. \A type \in Types : \A k \in i .. Len(text) + 1 : ~IsLexeme(type, i, k)
  <2>1. Only(i, {"string"})
    BY <1>1, Kind DEF Quote
  <2>2. QED
    BY <2>1, <1>1, <1>4 DEF Only
<1>6. Span(t)[1] = i /\ LongestLexeme(t)
  BY <1>1, <1>2, <1>5, NoLexeme
<1>7. \A k \in i .. j - 1 : CharAt(k) # "\n"
  <2> TAKE k \in i .. j - 1
  <2>1. k = i \/ k \in i + 1 .. j - 1
    BY <1>1
  <2>2. QED
    BY <2>1, StringChars
<1>8. j \in i .. Len(text) + 1 /\ j \in i .. j
  BY <1>1
<1>9. QED
  BY <1>2, <1>6, <1>7, <1>8 DEF Scanned

LEMMA StringIs ==
  ASSUME IsText, NEW i \in 1 .. Len(text), line \in Nat, CharAt(i) = Quote, NEW s, s = String(i)
  PROVE  Scanned(i, s.token, s.next)
<1>1. Len(text) \in Nat /\ i + 1 \in 1 .. Len(text) + 1
  BY TextIs
<1>2. PICK j : j = Find(i + 1, StringEnds)
  OBVIOUS
<1>3. /\ j \in i + 1 .. Len(text) + 1
      /\ CharAt(j) \in StringEnds \cup {End}
      /\ \A k \in i + 1 .. j - 1 : CharAt(k) \notin StringEnds
  BY <1>1, <1>2, FindIs
<1>4. s = IF CharAt(j) = Quote THEN [token |-> Token("string", i + 1, j), next |-> j + 1]
          ELSE [token |-> Token("error", i, j), next |-> j]
  BY <1>2 DEF String, StringEnds, Quote
<1>5. CASE CharAt(j) = Quote
  <2>1. s.token = Token("string", i + 1, j) /\ s.next = j + 1
    BY <1>4, <1>5
  <2>2. QED
    BY <2>1, <1>3, <1>5, ClosedString
<1>6. CASE CharAt(j) # Quote
  <2>1. s.token = Token("error", i, j) /\ s.next = j
    BY <1>4, <1>6
  <2>2. CharAt(j) \in {"\n", End}
    BY <1>3, <1>6, StringChars
  <2>3. QED
    BY <2>1, <2>2, <1>3, OpenString
<1>7. QED
  BY <1>5, <1>6

-------------------------------------------------------------------------------
(* Numbers and words.                                                      *)

Whole(i, j) == \A k \in i .. j - 1 : CharAt(k) \in Digit
Parted(i, m, j) ==
  /\ m \in i + 1 .. j - 2
  /\ Whole(i, m) /\ CharAt(m) = "." /\ Whole(m + 1, j)

LEMMA NumberLexeme ==
  ASSUME IsText, NEW i \in 1 .. Len(text) + 1, NEW j \in Nat
  PROVE  IsLexeme("number", i, j) <=>
           /\ i < j /\ j <= Len(text) + 1
           /\ Whole(i, j) \/ \E m \in Nat : Parted(i, m, j)
<1>1. Len(text) \in Nat
  BY TextIs
<1>2. ASSUME i < j, j <= Len(text) + 1 PROVE \A k \in i .. j - 1 : CharAt(k) = text[k]
  <2>1. i .. j - 1 \subseteq 1 .. Len(text)
    BY <1>1, <1>2
  <2>2. QED
    BY <2>1, TextIs
<1>3. IsLexeme("number", i, j) <=>
        /\ i < j /\ j <= Len(text) + 1
        /\ \/ All(i, j, Digit)
           \/ \E k \in i + 1 .. j - 2 : All(i, k, Digit) /\ text[k] = "." /\ All(k + 1, j, Digit)
  BY DEF IsLexeme
<1>4. ASSUME i < j, j <= Len(text) + 1 PROVE All(i, j, Digit) <=> Whole(i, j)
  BY <1>2, <1>4 DEF All, Whole
<1>5. ASSUME i < j, j <= Len(text) + 1, NEW m \in i + 1 .. j - 2
      PROVE  (All(i, m, Digit) /\ text[m] = "." /\ All(m + 1, j, Digit)) <=> Parted(i, m, j)
  <2>1. /\ m \in i .. j - 1
        /\ i .. m - 1 \subseteq i .. j - 1
        /\ m + 1 .. j - 1 \subseteq i .. j - 1
    BY <1>5
  <2>2. All(i, m, Digit) <=> Whole(i, m)
    BY <2>1, <1>2, <1>5 DEF All, Whole
  <2>3. All(m + 1, j, Digit) <=> Whole(m + 1, j)
    BY <2>1, <1>2, <1>5 DEF All, Whole
  <2>4. CharAt(m) = text[m]
    BY <2>1, <1>2, <1>5
  <2>5. QED
    BY <2>2, <2>3, <2>4 DEF Parted
<1>6. \A m \in Nat : Parted(i, m, j) => m \in i + 1 .. j - 2
  BY DEF Parted
<1>7. \A m \in i + 1 .. j - 2 : m \in Nat
  OBVIOUS
<1>8. QED
  BY <1>3, <1>4, <1>5, <1>6, <1>7

LEMMA NumberChars == End \notin Digit /\ "." \notin Digit /\ "." # End /\ "\n" \notin Digit /\ "." # "\n"
BY DEF End, Digit

(* The longest number from i on ends at j.                                 *)
LEMMA LongestNumber ==
  ASSUME IsText, NEW i \in 1 .. Len(text), line \in Nat, CharAt(i) \in Digit,
         NEW j \in i + 1 .. Len(text) + 1, IsLexeme("number", i, j),
         \A k \in j + 1 .. Len(text) + 1 : ~IsLexeme("number", i, k),
         \A k \in i .. j - 1 : CharAt(k) # "\n",
         NEW s, s = Lexed("number", i, j)
  PROVE  Scanned(i, s.token, s.next)
<1>1. Len(text) \in Nat /\ i \in Nat /\ j \in Nat /\ i \in 1 .. Len(text) + 1 /\ i <= j
  BY TextIs
<1>2. PICK t : t = Token("number", i, j)
  OBVIOUS
<1>3. s.token = t /\ s.next = j
  BY <1>2 DEF Lexed
<1>4. t \in TokenSet /\ t.type = "number" /\ t.from = i /\ t.to = j /\ t.line = line
  <2>1. "number" \in Kinds
    BY DEF Kinds, Types
  <2>2. QED
    BY <2>1, <1>1, <1>2, TokenIs
<1>5. Span(t) = <<i, j>>
  BY <1>4 DEF Span
<1>6. Span(t)[1] = i /\ Span(t)[2] = j
  BY <1>5
<1>7. LongestLexeme(t)
  <2>1. Only(i, {"number"})
    BY <1>1, Kind
  <2>2. t.type \in Types /\ IsLexeme(t.type, i, j)
    BY <1>4 DEF Types
  <2>3. \A type \in {"number"} : \A k \in j + 1 .. Len(text) + 1 : ~IsLexeme(type, i, k)
    OBVIOUS
  <2>4. QED
    BY <2>1, <2>2, <2>3, <1>1, <1>4, <1>5, Longest
<1>8. j \in i .. Len(text) + 1 /\ j \in i .. j
  BY <1>1
<1>9. QED
  BY <1>3, <1>4, <1>6, <1>7, <1>8 DEF Scanned

LEMMA NumberIs ==
  ASSUME IsText, NEW i \in 1 .. Len(text), line \in Nat, CharAt(i) \in Digit, NEW s, s = Number(i)
  PROVE  Scanned(i, s.token, s.next)
<1>1. Len(text) \in Nat /\ i \in Nat /\ i \in 1 .. Len(text) + 1
  BY TextIs
<1>2. PICK j : j = FindNot(i, Digit)
  OBVIOUS
<1>3. j \in i .. Len(text) + 1 /\ j \in Nat /\ CharAt(j) \notin Digit /\ Whole(i, j)
  BY <1>1, <1>2, NumberChars, FindNotIs DEF Whole
<1>4. j \in i + 1 .. Len(text) + 1
  <2>1. j # i
    BY <1>3
  <2>2. QED
    BY <2>1, <1>1, <1>3
<1>5. s = IF CharAt(j) = "." /\ CharAt(j + 1) \in Digit
          THEN Lexed("number", i, FindNot(j + 1, Digit)) ELSE Lexed("number", i, j)
  BY <1>2 DEF Number
(* A longer number has a dot at j, and a digit behind it.                  *)
<1>6. ASSUME NEW k \in Nat, k > j, IsLexeme("number", i, k)
      PROVE  CharAt(j) = "." /\ j + 1 < k /\ Whole(j + 1, k)
  <2>1. Whole(i, k) \/ \E m \in Nat : Parted(i, m, k)
    BY <1>1, <1>6, NumberLexeme
  <2>2. ~Whole(i, k)
    BY <1>3, <1>4, <1>6 DEF Whole
  <2>3. PICK m \in Nat : Parted(i, m, k)
    BY <2>1, <2>2
  <2>4. m \in i + 1 .. k - 2 /\ Whole(i, m) /\ CharAt(m) = "." /\ Whole(m + 1, k)
    BY <2>3 DEF Parted
  <2>5. ~(j < m)
    BY <2>4, <1>3, <1>4 DEF Whole
  <2>6. ~(m < j)
    <3>1. ASSUME m < j PROVE m \in i .. j - 1
      BY <3>1, <2>4, <1>3
    <3>2. QED
      BY <3>1, <2>4, <1>3, NumberChars DEF Whole
  <2>7. m = j
    BY <2>5, <2>6, <1>3
  <2>8. QED
    BY <2>4, <2>7, <1>3, <1>6
<1>7. CASE CharAt(j) = "." /\ CharAt(j + 1) \in Digit
  <2>1. j \in 1 .. Len(text) /\ j + 1 \in 1 .. Len(text) + 1
    <3>1. j \in 1 .. Len(text)
      BY <1>1, <1>4, <1>7, TextIs, NumberChars
    <3>2. QED
      BY <3>1, <1>1
  <2>2. PICK n : n = FindNot(j + 1, Digit)
    OBVIOUS
  <2>3. n \in j + 1 .. Len(text) + 1 /\ n \in Nat /\ CharAt(n) \notin Digit /\ Whole(j + 1, n)
    BY <2>1, <2>2, NumberChars, FindNotIs DEF Whole
  <2>4. n \in j + 2 .. Len(text) + 1
    <3>1. n # j + 1
      BY <2>3, <1>7
    <3>2. QED
      BY <3>1, <1>3, <2>3
  <2>5. n \in i + 1 .. Len(text) + 1
    BY <2>4, <1>4, <1>1
  <2>6. IsLexeme("number", i, n)
    <3>1. j \in i + 1 .. n - 2
      BY <2>4, <1>4, <1>1
    <3>2. Parted(i, j, n)
      BY <3>1, <2>3, <1>3, <1>7 DEF Parted
    <3>3. QED
      BY <3>2, <2>3, <2>5, <1>1, <1>3, NumberLexeme
  <2>7. ASSUME NEW k \in n + 1 .. Len(text) + 1, IsLexeme("number", i, k) PROVE FALSE
    <3>1. k \in Nat /\ k > j /\ n \in j + 1 .. k - 1
      BY <2>3, <2>4, <2>7, <1>1, <1>3
    <3>2. Whole(j + 1, k)
      BY <3>1, <2>7, <1>6
    <3>3. QED
      BY <3>1, <3>2, <2>3 DEF Whole
  <2>8. \A k \in i .. n - 1 : CharAt(k) # "\n"
    <3> TAKE k \in i .. n - 1
    <3>1. k \in i .. j - 1 \/ k = j \/ k \in j + 1 .. n - 1
      BY <1>3, <2>3
    <3>2. QED
      BY <3>1, <1>3, <2>3, <1>7, NumberChars DEF Whole
  <2>9. s = Lexed("number", i, n)
    BY <1>5, <1>7, <2>2
  <2>10. QED
    BY <2>5, <2>6, <2>7, <2>8, <2>9, LongestNumber
<1>8. CASE ~(CharAt(j) = "." /\ CharAt(j + 1) \in Digit)
  <2>1. IsLexeme("number", i, j)
    BY <1>1, <1>3, <1>4, NumberLexeme
  <2>2. ASSUME NEW k \in j + 1 .. Len(text) + 1, IsLexeme("number", i, k) PROVE FALSE
    <3>1. k \in Nat /\ k > j
      BY <2>2, <1>3
    <3>2. CharAt(j) = "." /\ j + 1 < k /\ Whole(j + 1, k)
      BY <3>1, <2>2, <1>6
    <3>3. CharAt(j + 1) \in Digit
      BY <3>1, <3>2, <1>3 DEF Whole
    <3>4. QED
      BY <3>2, <3>3, <1>8
  <2>3. \A k \in i .. j - 1 : CharAt(k) # "\n"
    BY <1>3, NumberChars DEF Whole
  <2>4. s = Lexed("number", i, j)
    BY <1>5, <1>8
  <2>5. QED
    BY <1>4, <2>1, <2>2, <2>3, <2>4, LongestNumber
<1>9. QED
  BY <1>7, <1>8

LEMMA WordIs ==
  ASSUME IsText, NEW i \in 1 .. Len(text), line \in Nat, CharAt(i) \in Alpha, NEW s, s = Word(i)
  PROVE  Scanned(i, s.token, s.next)
<1> DEFINE Letters == Alpha \cup Digit
<1>1. Len(text) \in Nat /\ i \in Nat /\ i \in 1 .. Len(text) + 1
  BY TextIs
<1>2. End \notin Letters /\ "\n" \notin Letters /\ CharAt(i) \in Letters /\ Alpha \subseteq Letters
  BY DEF Alpha, Digit, End
<1> HIDE DEF Letters
<1>3. PICK j : j = FindNot(i, Letters)
  OBVIOUS
<1>4. /\ j \in i .. Len(text) + 1 /\ j \in Nat
      /\ CharAt(j) \notin Letters /\ \A k \in i .. j - 1 : CharAt(k) \in Letters
  BY <1>1, <1>2, <1>3, FindNotIs
<1>5. j \in i + 1 .. Len(text) + 1
  <2>1. j # i
    BY <1>2, <1>4
  <2>2. QED
    BY <2>1, <1>1, <1>4
<1>6. PICK type : type = IF SubSeq(text, i, j - 1) \in Keywords THEN "keyword" ELSE "identifier"
  OBVIOUS
<1>7. s = Lexed(type, i, j)
  BY <1>3, <1>6 DEF Word, Letters
<1>8. type \in {"identifier", "keyword"} /\ type \in Types /\ type \in Kinds /\ type # "string"
  BY <1>6 DEF Types, Kinds
<1>9. PICK t : t = Token(type, i, j)
  OBVIOUS
<1>10. s.token = t /\ s.next = j
  BY <1>7, <1>9 DEF Lexed
<1>11. t \in TokenSet /\ t.type = type /\ t.from = i /\ t.to = j /\ t.line = line
  <2>1. i <= j
    BY <1>1, <1>5
  <2>2. QED
    BY <2>1, <1>1, <1>4, <1>8, <1>9, TokenIs
<1>12. Span(t) = <<i, j>>
  BY <1>8, <1>11 DEF Span
<1>13. Span(t)[1] = i /\ Span(t)[2] = j
  BY <1>12
<1>14. IsLexeme(type, i, j)
  <2>1. \A k \in i .. j - 1 : CharAt(k) = text[k]
    BY <1>1, <1>4, TextIs
  <2>2. i \in i .. j - 1 /\ i < j /\ j <= Len(text) + 1
    BY <1>1, <1>5
  <2>3. text[i] \in Alpha /\ All(i, j, Alpha \cup Digit)
    BY <2>1, <2>2, <1>4 DEF All, Letters
  <2>4. QED
    BY <2>2, <2>3, <1>6 DEF IsLexeme
<1>15. ASSUME NEW k \in j + 1 .. Len(text) + 1, NEW kind \in {"identifier", "keyword"},
              IsLexeme(kind, i, k)
       PROVE  FALSE
  <2>1. k \in Nat /\ i < k /\ j \in i .. k - 1 /\ j \in 1 .. Len(text)
    BY <1>1, <1>4, <1>5, <1>15
  <2>2. text[j] \in Letters
    <3>1. CASE kind = "identifier"
      <4>1. All(i, k, Alpha \cup Digit)
        BY <3>1, <1>15 DEF IsLexeme
      <4>2. QED
        BY <4>1, <2>1 DEF All, Letters
    <3>2. CASE kind = "keyword"
      <4>1. SubSeq(text, i, k - 1) \in Keywords /\ k <= Len(text) + 1
        BY <3>2, <1>15 DEF IsLexeme
      <4>2. \A m \in i .. k - 1 : text[m] \in Alpha
        BY <4>1, <2>1, <1>1, KeywordIs
      <4>3. QED
        BY <4>2, <2>1, <1>2
    <3>3. QED
      BY <3>1, <3>2
  <2>3. CharAt(j) = text[j]
    BY <2>1, TextIs
  <2>4. QED
    BY <2>2, <2>3, <1>4
<1>16. LongestLexeme(t)
  <2>1. Only(i, {"identifier", "keyword"})
    BY <1>1, Kind
  <2>2. t.type \in Types /\ IsLexeme(t.type, i, j)
    BY <1>8, <1>11, <1>14
  <2>3. \A kind \in {"identifier", "keyword"} :
          \A k \in j + 1 .. Len(text) + 1 : ~IsLexeme(kind, i, k)
    BY <1>15
  <2>4. QED
    BY <2>1, <2>2, <2>3, <1>1, <1>4, <1>11, <1>12, Longest
<1>17. \A k \in i .. j - 1 : CharAt(k) # "\n"
  BY <1>2, <1>4
<1>18. j \in i .. Len(text) + 1 /\ j \in i .. j
  BY <1>1, <1>5
<1>19. QED
  BY <1>10, <1>11, <1>13, <1>16, <1>17, <1>18 DEF Scanned

(* scan_token where there is nothing to skip.                              *)
LEMMA ScanAtIs ==
  ASSUME IsText, NEW i \in 1 .. Len(text) + 1, line \in Nat, CharAt(i) # "\n",
         NEW s, s = ScanAt(i)
  PROVE  Scanned(i, s.token, s.next)
<1>1. PICK c : c = CharAt(i)
  OBVIOUS
<1>2. s = CASE c = End           -> Lexed("EOF", i, i)
            [] c \in Punctuation -> Lexed("symbol", i, i + 1)
            [] c \in MaybeEqual  -> Lexed("symbol", i, IF CharAt(i + 1) = "=" THEN i + 2 ELSE i + 1)
            [] c = Quote         -> String(i)
            [] c \in Digit       -> Number(i)
            [] c \in Alpha       -> Word(i)
            [] OTHER             -> Lexed("error", i, i + 1)
  BY <1>1 DEF ScanAt, Quote
<1>3. /\ c = End => c \notin Punctuation /\ c \notin MaybeEqual /\ c # Quote
                    /\ c \notin Digit /\ c \notin Alpha
      /\ c \in Punctuation => c \notin MaybeEqual /\ c # Quote /\ c \notin Digit /\ c \notin Alpha
      /\ c \in MaybeEqual => c # Quote /\ c \notin Digit /\ c \notin Alpha
      /\ c = Quote => c \notin Digit /\ c \notin Alpha
      /\ c \in Digit => c \notin Alpha
  BY DEF End, Punctuation, MaybeEqual, Quote, Digit, Alpha
<1>4. c # End => i \in 1 .. Len(text)
  BY <1>1, TextIs
<1>5. i + 1 # i + 2 /\ i \in Nat
  BY TextIs
<1>6. CASE c = End
  <2>1. s = Lexed("EOF", i, i)
    BY <1>2, <1>3, <1>6
  <2>2. QED
    BY <2>1, <1>1, <1>6, EndIs
<1>7. CASE c \in Punctuation
  <2>1. s = Lexed("symbol", i, i + 1)
    BY <1>2, <1>3, <1>7
  <2>2. PICK next : next = i + 1
    OBVIOUS
  <2>3. /\ next \in {i + 1, i + 2} /\ s = Lexed("symbol", i, next)
        /\ CharAt(i) \in Punctuation \cup MaybeEqual
        /\ next = i + 2 => CharAt(i) \in MaybeEqual /\ CharAt(i + 1) = "="
        /\ next = i + 1 => CharAt(i) \in Punctuation \/ CharAt(i + 1) # "="
    BY <2>1, <2>2, <1>1, <1>5, <1>7
  <2>4. QED
    BY <2>3, SymbolIs
<1>8. CASE c \in MaybeEqual
  <2>1. PICK next : next = IF CharAt(i + 1) = "=" THEN i + 2 ELSE i + 1
    OBVIOUS
  <2>2. s = Lexed("symbol", i, next)
    BY <2>1, <1>2, <1>3, <1>8
  <2>3. /\ next \in {i + 1, i + 2}
        /\ CharAt(i) \in Punctuation \cup MaybeEqual
        /\ next = i + 2 => CharAt(i) \in MaybeEqual /\ CharAt(i + 1) = "="
        /\ next = i + 1 => CharAt(i) \in Punctuation \/ CharAt(i + 1) # "="
    BY <2>1, <1>1, <1>5, <1>8
  <2>4. QED
    BY <2>2, <2>3, SymbolIs
<1>9. CASE c = Quote
  <2>1. s = String(i) /\ c # End
    BY <1>2, <1>3, <1>9
  <2>2. QED
    BY <2>1, <1>1, <1>4, <1>9, StringIs
<1>10. CASE c \in Digit
  <2>1. s = Number(i) /\ c # End
    BY <1>2, <1>3, <1>10
  <2>2. QED
    BY <2>1, <1>1, <1>4, <1>10, NumberIs
<1>11. CASE c \in Alpha
  <2>1. s = Word(i) /\ c # End
    BY <1>2, <1>3, <1>11
  <2>2. QED
    BY <2>1, <1>1, <1>4, <1>11, WordIs
<1>12. CASE /\ c # End /\ c \notin Punctuation /\ c \notin MaybeEqual /\ c # Quote
            /\ c \notin Digit /\ c \notin Alpha
  <2>1. s = Lexed("error", i, i + 1)
    BY <1>2, <1>12
  <2>2. CharAt(i) # End /\ CharAt(i) \notin Beginnings
    BY <1>1, <1>12 DEF Beginnings, Quote
  <2>3. QED
    BY <2>1, <2>2, ErrorIs
<1>13. QED
  BY <1>6, <1>7, <1>8, <1>9, <1>10, <1>11, <1>12

-------------------------------------------------------------------------------
(* The steps of the scanner.                                               *)

ScannerInv ==
  /\ text \in Sources
  /\ current \in 1 .. Len(text) + 1
  /\ unclosed \in BOOLEAN /\ (unclosed => current = Len(text) + 1)
  /\ tokens \in Seq(TokenSet)
  /\ LinesCounted

LEMMA InvIs ==
  ASSUME ScannerInv
  PROVE  /\ IsText /\ Len(text) \in Nat /\ current \in Nat
         /\ line = 1 + Newlines(1, current) /\ line \in Nat
<1>1. IsText
  BY ScannerAssumption DEF IsText, ScannerInv
<1>2. Len(text) \in Nat /\ current \in Nat /\ 1 <= current
  BY <1>1, TextIs DEF ScannerInv
<1>3. line = 1 + Newlines(1, current)
  BY DEF ScannerInv, LinesCounted
<1>4. Newlines(1, current) \in Nat
  BY <1>2, NewlinesAdd
<1>5. QED
  BY <1>1, <1>2, <1>3, <1>4

(* The text stays, so its ends of lines are counted as before.             *)
LEMMA CountedNext ==
  ASSUME text' = text, line' = 1 + Newlines(1, current'),
         \A n \in DOMAIN tokens' : tokens'[n].line = 1 + Newlines(1, tokens'[n].to)
  PROVE  LinesCounted'
BY DEF LinesCounted, Newlines, CharAt

LEMMA Skipped ==
  ASSUME ScannerInv, text' = text, tokens' = tokens,
         NEW j \in current .. Len(text) + 1, current' = j, line' = 1 + Newlines(1, j),
         unclosed' \in BOOLEAN, unclosed' => j = Len(text) + 1
  PROVE  ScannerInv'
<1>1. current' \in 1 .. Len(text) + 1
  BY InvIs DEF ScannerInv
<1>2. \A n \in DOMAIN tokens' : tokens'[n].line = 1 + Newlines(1, tokens'[n].to)
  BY DEF ScannerInv, LinesCounted
<1>3. LinesCounted'
  BY <1>2, CountedNext
<1>4. QED
  BY <1>1, <1>3 DEF ScannerInv

LEMMA BlankStep ==
  ASSUME ScannerInv, SkipBlank
  PROVE  ScannerInv' /\ ScansText
<1>1. IsText /\ Len(text) \in Nat /\ current \in Nat /\ line = 1 + Newlines(1, current)
  BY InvIs
<1>2. CharAt(current) \in {" ", "\n"} /\ CharAt(current) # End
  BY DEF SkipBlank, AtBlank, End
<1>3. current \in 1 .. Len(text) /\ CharAt(current) = text[current]
  BY <1>1, <1>2, TextIs
<1>4. /\ current' = current + 1 /\ line' = line + Newlines(current, current + 1)
      /\ text' = text /\ tokens' = tokens /\ unclosed' = unclosed
  BY DEF SkipBlank, SkipTo
<1>5. line' = 1 + Newlines(1, current + 1)
  <2>0. current + 1 \in Nat /\ current >= 1 /\ current <= current + 1
    BY <1>1, <1>3
  <2>1. /\ Newlines(1, current) \in Nat /\ Newlines(current, current + 1) \in Nat
        /\ Newlines(1, current + 1) = Newlines(1, current) + Newlines(current, current + 1)
    BY <1>1, <2>0, NewlinesAdd
  <2>2. QED
    BY <2>1, <1>1, <1>4
<1>6. unclosed \in BOOLEAN /\ ~unclosed
  BY <1>1, <1>3 DEF ScannerInv
<1>7. current + 1 \in current .. Len(text) + 1
  BY <1>1, <1>3
<1>8. ScannerInv'
  BY <1>4, <1>5, <1>6, <1>7, Skipped
<1>9. ScansText
  BY <1>2, <1>3, <1>4 DEF ScansText
<1>10. QED
  BY <1>8, <1>9

LEMMA LineCommentStep ==
  ASSUME ScannerInv, SkipLineComment
  PROVE  ScannerInv' /\ ScansText
<1>1. IsText /\ Len(text) \in Nat /\ current \in Nat /\ line = 1 + Newlines(1, current)
  BY InvIs
<1>2. CharAt(current) = "/" /\ CharAt(current + 1) = "/" /\ "/" # End /\ "/" # "\n" /\ End # "\n"
  BY DEF SkipLineComment, AtLineComment, End
<1>3. /\ current \in 1 .. Len(text) /\ current + 1 \in 1 .. Len(text)
      /\ text[current] = "/" /\ text[current + 1] = "/"
  BY <1>1, <1>2, TextIs
<1>4. PICK j : j = Find(current, {"\n"})
  OBVIOUS
<1>5. /\ j \in current .. Len(text) + 1 /\ j \in Nat /\ CharAt(j) \in {"\n", End}
      /\ \A k \in current .. j - 1 : CharAt(k) # "\n"
  <2>1. current \in 1 .. Len(text) + 1
    BY DEF ScannerInv
  <2>2. /\ j \in current .. Len(text) + 1 /\ j \in Nat /\ CharAt(j) \in {"\n"} \cup {End}
        /\ \A k \in current .. j - 1 : CharAt(k) \notin {"\n"}
    BY <1>1, <1>4, <2>1, FindIs
  <2>3. QED
    BY <2>2
<1>6. j > current + 1
  <2>1. j # current /\ j # current + 1
    BY <1>2, <1>5
  <2>2. QED
    BY <2>1, <1>1, <1>5
<1>7. /\ text' = text /\ tokens' = tokens /\ unclosed' = unclosed
      /\ current' = IF CharAt(j) = "\n" THEN j + 1 ELSE j
      /\ line' = line + IF CharAt(j) = "\n" THEN 1 ELSE 0
  BY <1>4 DEF SkipLineComment, SkipTo
<1>8. unclosed \in BOOLEAN /\ ~unclosed
  BY <1>1, <1>3 DEF ScannerInv
<1>9. \A k \in current .. j - 1 : text[k] # "\n"
  <2>1. \A k \in current .. j - 1 : CharAt(k) = text[k]
    BY <1>1, <1>3, <1>5, TextIs
  <2>2. QED
    BY <2>1, <1>5
<1>10. CASE CharAt(j) = "\n"
  <2>1. current' = j + 1 /\ line' = line + 1
    BY <1>7, <1>10
  <2>2. j \in 1 .. Len(text) /\ text[j] = "\n"
    BY <1>1, <1>2, <1>5, <1>10, TextIs
  <2>3. line' = 1 + Newlines(1, j + 1)
    <3>1. Newlines(current, j + 1) = 1
      BY <1>1, <1>5, <1>10, OneNewline
    <3>2. /\ Newlines(1, current) \in Nat
          /\ Newlines(1, j + 1) = Newlines(1, current) + Newlines(current, j + 1)
      BY <1>1, <1>3, <1>5, NewlinesAdd
    <3>3. QED
      BY <3>1, <3>2, <2>1, <1>1
  <2>4. j + 1 \in current .. Len(text) + 1
    BY <2>2, <1>1, <1>5
  <2>5. ScannerInv'
    BY <2>1, <2>3, <2>4, <1>7, <1>8, Skipped
  <2>6. Comment(current, j + 1)
    <3>1. (j + 1) - 1 = j /\ (j + 1) - 2 = j - 1 /\ j + 1 > current + 1
      BY <1>1, <1>5, <1>6
    <3>2. QED
      BY <3>1, <2>2, <1>3, <1>9 DEF Comment
  <2>7. QED
    BY <2>1, <2>5, <2>6, <1>7 DEF ScansText
<1>11. CASE CharAt(j) # "\n"
  <2>1. current' = j /\ line' = line
    BY <1>7, <1>11, InvIs
  <2>2. j = Len(text) + 1
    <3>1. CharAt(j) = End
      BY <1>5, <1>11
    <3>2. j \notin 1 .. Len(text)
      BY <3>1, <1>1, TextIs
    <3>3. QED
      BY <3>2, <1>1, <1>3, <1>5
  <2>3. line' = 1 + Newlines(1, j)
    <3>1. Newlines(current, j) = 0
      BY <1>1, <1>5, NoNewlines
    <3>2. /\ Newlines(1, current) \in Nat
          /\ Newlines(1, j) = Newlines(1, current) + Newlines(current, j)
      BY <1>1, <1>3, <1>5, NewlinesAdd
    <3>3. QED
      BY <3>1, <3>2, <2>1, <1>1
  <2>4. ScannerInv'
    BY <2>1, <2>3, <1>5, <1>7, <1>8, Skipped
  <2>5. \A k \in current .. j - 2 : text[k] # "\n"
    BY <1>5, <1>9
  <2>6. Comment(current, j)
    BY <2>2, <2>5, <1>3, <1>6 DEF Comment
  <2>7. QED
    BY <2>1, <2>4, <2>6, <1>7 DEF ScansText
<1>12. QED
  BY <1>10, <1>11

LEMMA CommentStep ==
  ASSUME ScannerInv, SkipComment
  PROVE  ScannerInv' /\ ScansText
<1>1. IsText /\ Len(text) \in Nat /\ current \in Nat /\ line = 1 + Newlines(1, current)
  BY InvIs
<1>2. /\ CharAt(current) = "/" /\ CharAt(current + 1) = "*"
      /\ "/" # End /\ "*" # End /\ "/" # "\n" /\ "*" # "\n" /\ "/" # "*"
  BY DEF SkipComment, AtComment, End
<1>3. /\ current \in 1 .. Len(text) /\ current + 1 \in 1 .. Len(text)
      /\ text[current] = "/" /\ text[current + 1] = "*"
  BY <1>1, <1>2, TextIs
<1>4. unclosed \in BOOLEAN /\ ~unclosed
  BY <1>1, <1>3 DEF ScannerInv
<1>5. /\ Newlines(1, current) \in Nat
      /\ \A j \in Nat : current <= j =>
           Newlines(1, j) = Newlines(1, current) + Newlines(current, j)
  BY <1>1, <1>3, NewlinesAdd
<1>6. CASE Closing = {}
  <2>1. PICK j : j = Len(text) + 1
    OBVIOUS
  <2>2. /\ text' = text /\ tokens' = tokens /\ unclosed' = TRUE
        /\ current' = j /\ line' = line + Newlines(current, j)
    BY <2>1, <1>6 DEF SkipComment, SkipTo
  <2>3. j \in current .. Len(text) + 1 /\ j \in Nat /\ current <= j
    BY <2>1, <1>1, <1>3
  <2>4. line' = 1 + Newlines(1, j)
    <3>1. Newlines(1, j) = Newlines(1, current) + Newlines(current, j)
      BY <2>3, <1>5
    <3>2. Newlines(current, j) \in Nat
      BY <2>3, <1>1, <1>3, NewlinesAdd
    <3>3. QED
      BY <3>1, <3>2, <2>2, <1>1, <1>5
  <2>5. ScannerInv'
    BY <2>1, <2>2, <2>3, <2>4, Skipped
  <2>6. ScansText
    BY <2>1, <2>2 DEF ScansText
  <2>7. QED
    BY <2>5, <2>6
<1>7. CASE Closing # {}
  <2>1. PICK j : j = CHOOSE m \in Closing : \A k \in Closing : m <= k
    OBVIOUS
  <2>2. j \in Closing /\ \A k \in Closing : j <= k
    <3>1. Closing \subseteq Nat
      BY <1>1, <1>3 DEF Closing
    <3>2. \E m \in Closing : \A k \in Closing : m <= k
      BY <3>1, <1>7, LeastOf
    <3>3. QED
      BY <3>2, <2>1
  <2>3. j \in current .. Len(text) /\ CharAt(j) = "*" /\ CharAt(j + 1) = "/"
    BY <2>2 DEF Closing
  <2>4. j \in 1 .. Len(text) /\ j + 1 \in 1 .. Len(text) /\ text[j] = "*" /\ text[j + 1] = "/"
    BY <2>3, <1>1, <1>2, <1>3, TextIs
  <2>5. j > current
    <3>1. j # current
      BY <2>3, <1>2
    <3>2. QED
      BY <3>1, <2>3, <1>1
  <2>6. PICK next : next = j + 2
    OBVIOUS
  <2>7. /\ text' = text /\ tokens' = tokens /\ unclosed' = unclosed
        /\ current' = next /\ line' = line + Newlines(current, j)
    BY <2>1, <2>6, <1>7 DEF SkipComment, SkipTo
  <2>8. next \in current .. Len(text) + 1 /\ next \in Nat /\ j \in Nat /\ j <= next /\ j >= 1
    BY <2>4, <2>5, <2>6, <1>1
  <2>9. line' = 1 + Newlines(1, next)
    <3>1. \A k \in j .. next - 1 : CharAt(k) # "\n"
      <4> TAKE k \in j .. next - 1
      <4>1. k = j \/ k = j + 1
        BY <2>6, <2>8
      <4>2. QED
        BY <4>1, <2>3, <1>2
    <3>2. Newlines(j, next) = 0
      BY <3>1, <2>8, NoNewlines
    <3>3. Newlines(1, j) \in Nat /\ Newlines(1, next) = Newlines(1, j) + Newlines(j, next)
      BY <2>8, NewlinesAdd
    <3>4. Newlines(1, j) = Newlines(1, current) + Newlines(current, j)
      BY <2>5, <2>8, <1>1, <1>5
    <3>5. Newlines(current, j) \in Nat
      <4>1. current >= 1 /\ current <= j
        BY <2>5, <2>8, <1>1, <1>3
      <4>2. QED
        BY <4>1, <2>8, <1>1, NewlinesAdd
    <3>6. QED
      BY <3>2, <3>3, <3>4, <3>5, <2>7, <1>1, <1>5
  <2>10. ScannerInv'
    BY <2>7, <2>8, <2>9, <1>4, Skipped
  <2>11. ~(\E k \in current + 1 .. j - 1 : text[k] = "*" /\ text[k + 1] = "/")
    <3> SUFFICES ASSUME NEW k \in current + 1 .. j - 1, text[k] = "*", text[k + 1] = "/"
                 PROVE  FALSE
      OBVIOUS
    <3>1. k \in 1 .. Len(text) /\ k + 1 \in 1 .. Len(text) /\ k \in current .. Len(text)
      BY <2>4, <1>1, <1>3
    <3>2. CharAt(k) = "*" /\ CharAt(k + 1) = "/"
      BY <3>1, <1>1, TextIs
    <3>3. k \in Closing
      BY <3>1, <3>2 DEF Closing
    <3>4. QED
      BY <3>3, <2>2, <2>4, <1>1
  <2>12. Comment(current, next)
    <3>1. next - 1 = j + 1 /\ next - 2 = j /\ next - 3 = j - 1 /\ next > current + 1
      BY <2>4, <2>5, <2>6, <1>1
    <3>2. \A k \in current + 1 .. next - 3 : ~(text[k] = "*" /\ text[k + 1] = "/")
      BY <3>1, <2>11
    <3>3. QED
      BY <3>1, <3>2, <2>4, <1>3 DEF Comment
  <2>13. ScansText
    BY <2>7, <2>12 DEF ScansText
  <2>14. QED
    BY <2>10, <2>13
<1>8. QED
  BY <1>6, <1>7

(* The token is appended; it ends on the line of the scanner.              *)
LEMMA Appended ==
  ASSUME ScannerInv, NEW t, NEW next, Scanned(current, t, next),
         text' = text, line' = line, tokens' = Append(tokens, t), current' = next,
         unclosed' = FALSE
  PROVE  ScannerInv' /\ ScansText
<1>1. IsText /\ Len(text) \in Nat /\ current \in Nat /\ current >= 1 /\ line = 1 + Newlines(1, current)
  BY InvIs DEF ScannerInv
<1>2. /\ t \in TokenSet /\ t.line = line
      /\ next \in current .. Len(text) + 1 /\ t.to \in current .. next
      /\ \A k \in current .. next - 1 : CharAt(k) # "\n"
      /\ Span(t)[1] = current /\ next \in {Span(t)[2], t.to}
      /\ LongestLexeme(t)
  BY DEF Scanned
<1>3. ASSUME NEW j \in current .. next PROVE line = 1 + Newlines(1, j)
  <2>1. j \in Nat /\ current <= j /\ \A k \in current .. j - 1 : CharAt(k) # "\n"
    BY <1>1, <1>2, <1>3
  <2>2. Newlines(current, j) = 0
    BY <2>1, <1>1, NoNewlines
  <2>3. /\ Newlines(1, current) \in Nat
        /\ Newlines(1, j) = Newlines(1, current) + Newlines(current, j)
    BY <2>1, <1>1, NewlinesAdd
  <2>4. QED
    BY <2>2, <2>3, <1>1
<1>4. tokens \in Seq(TokenSet) /\ tokens' \in Seq(TokenSet)
  BY <1>2, AppendProperties DEF ScannerInv
<1>5. /\ Len(tokens) \in Nat /\ DOMAIN tokens = 1 .. Len(tokens)
      /\ Len(tokens') = Len(tokens) + 1 /\ DOMAIN tokens' = 1 .. Len(tokens) + 1
      /\ \A n \in 1 .. Len(tokens) : tokens'[n] = tokens[n]
      /\ tokens'[Len(tokens) + 1] = t
  BY <1>2, <1>4, AppendProperties, LenProperties
<1>6. LinesCounted'
  <2>1. line' = 1 + Newlines(1, current')
    <3>1. next \in current .. next
      BY <1>1, <1>2
    <3>2. QED
      BY <3>1, <1>3
  <2>2. t.line = 1 + Newlines(1, t.to)
    BY <1>2, <1>3
  <2>3. ASSUME NEW n \in DOMAIN tokens' PROVE tokens'[n].line = 1 + Newlines(1, tokens'[n].to)
    <3>1. CASE n \in 1 .. Len(tokens)
      BY <3>1, <1>5 DEF ScannerInv, LinesCounted
    <3>2. CASE n = Len(tokens) + 1
      BY <3>2, <1>5, <2>2
    <3>3. QED
      BY <3>1, <3>2, <1>5
  <2>4. QED
    BY <2>1, <2>3, CountedNext
<1>7. ScannerInv'
  <2>1. current' \in 1 .. Len(text) + 1
    BY <1>1, <1>2
  <2>2. QED
    BY <2>1, <1>4, <1>6 DEF ScannerInv
<1>8. ScansText
  <2>1. tokens' # tokens
    <3>1. Len(tokens) \in Nat /\ Len(tokens') = Len(tokens) + 1
      BY <1>5
    <3>2. \A n \in Nat : n + 1 # n
      OBVIOUS
    <3>3. Len(tokens') # Len(tokens)
      BY <3>1, <3>2
    <3>4. QED
      BY <3>3
  <2>2. tokens'[Len(tokens')] = t
    BY <1>5
  <2>3. QED
    BY <2>1, <2>2, <1>2 DEF ScansText
<1>9. QED
  BY <1>7, <1>8

LEMMA ScanStep ==
  ASSUME ScannerInv, Scan
  PROVE  ScannerInv' /\ ScansText
<1>1. IsText /\ Len(text) \in Nat /\ current \in Nat /\ line \in Nat
  BY InvIs
<1>2. current \in 1 .. Len(text) + 1 /\ unclosed \in BOOLEAN /\ (unclosed => current = Len(text) + 1)
  BY DEF ScannerInv
<1>3. CharAt(current) # "\n"
  BY DEF Scan, AtBlank
<1>4. text' = text /\ line' = line /\ unclosed' = FALSE
  BY DEF Scan
<1>5. CASE unclosed
  <2>1. PICK t : t = Token("error", current, current)
    OBVIOUS
  <2>2. tokens' = Append(tokens, t) /\ current' = current
    BY <2>1, <1>5 DEF Scan
  <2>3. /\ t \in TokenSet /\ t.type = "error" /\ t.from = current /\ t.to = current
        /\ t.line = line
    <3>1. "error" \in Kinds /\ current <= current
      BY <1>1 DEF Kinds
    <3>2. QED
      BY <3>1, <2>1, <1>1, TokenIs
  <2>4. \A type \in Types : \A k \in current .. Len(text) + 1 : ~IsLexeme(type, current, k)
    <3>1. \A k \in current .. Len(text) + 1 : ~(current < k)
      BY <1>1, <1>2, <1>5
    <3>2. QED
      BY <3>1 DEF IsLexeme
  <2>5. Span(t)[1] = current /\ LongestLexeme(t)
    BY <2>3, <2>4, <1>1, <1>2, NoLexeme
  <2>6. /\ current \in current .. Len(text) + 1 /\ current \in current .. current
        /\ \A k \in current .. current - 1 : CharAt(k) # "\n"
    BY <1>1, <1>2
  <2>7. Scanned(current, t, current)
    BY <2>3, <2>5, <2>6 DEF Scanned
  <2>8. QED
    BY <2>2, <2>7, <1>4, Appended
<1>6. CASE ~unclosed
  <2>1. PICK s : s = ScanAt(current)
    OBVIOUS
  <2>2. tokens' = Append(tokens, s.token) /\ current' = s.next
    BY <2>1, <1>6 DEF Scan
  <2>3. Scanned(current, s.token, s.next)
    BY <2>1, <1>1, <1>2, <1>3, ScanAtIs
  <2>4. QED
    BY <2>2, <2>3, <1>4, Appended
<1>7. QED
  BY <1>2, <1>5, <1>6

LEMMA ScannerStays ==
  ASSUME ScannerInv, UNCHANGED scanner
  PROVE  ScannerInv'
<1>1. /\ text' = text /\ current' = current /\ line' = line /\ unclosed' = unclosed
      /\ tokens' = tokens
  BY DEF scanner
<1>2. current \in current .. Len(text) + 1 /\ line = 1 + Newlines(1, current)
  BY InvIs DEF ScannerInv
<1>3. unclosed \in BOOLEAN /\ (unclosed => current = Len(text) + 1)
  BY DEF ScannerInv
<1>4. QED
  BY <1>1, <1>2, <1>3, Skipped

LEMMA ScannerStep ==
  ASSUME ScannerInv, [ScannerNext]_scanner
  PROVE  ScannerInv' /\ [ScansText]_scanner
<1>1. CASE SkipBlank
  BY <1>1, BlankStep
<1>2. CASE SkipLineComment
  BY <1>2, LineCommentStep
<1>3. CASE SkipComment
  BY <1>3, CommentStep
<1>4. CASE Scan
  BY <1>4, ScanStep
<1>5. CASE UNCHANGED scanner
  BY <1>5, ScannerStays
<1>6. QED
  BY <1>1, <1>2, <1>3, <1>4, <1>5 DEF ScannerNext, ScannerStop

LEMMA ScannerBegins == ScannerInit => ScannerInv
<1> SUFFICES ASSUME ScannerInit PROVE ScannerInv
  OBVIOUS
<1>1. text \in Sources /\ current = 1 /\ line = 1 /\ unclosed = FALSE /\ tokens = <<>>
  BY DEF ScannerInit
<1>2. IsText
  BY <1>1, ScannerAssumption DEF IsText
<1>3. Len(text) \in Nat
  BY <1>2, TextIs
<1>4. tokens \in Seq(TokenSet) /\ DOMAIN tokens = {}
  BY <1>1, EmptySeq, LenProperties
<1>5. Newlines(1, 1) = 0
  <2>1. \A k \in 1 .. 1 - 1 : CharAt(k) # "\n"
    OBVIOUS
  <2>2. QED
    BY <2>1, NoNewlines
<1>6. LinesCounted
  BY <1>1, <1>4, <1>5 DEF LinesCounted
<1>7. current \in 1 .. Len(text) + 1
  BY <1>1, <1>3
<1>8. QED
  BY <1>1, <1>4, <1>6, <1>7 DEF ScannerInv

-------------------------------------------------------------------------------

(* The scanner stays within its text, and has counted every end of line up *)
(* to where it is, in blanks, comments and tokens alike.                   *)
THEOREM SpecScanner == ScannerSpec => []ScannerInv
<1>1. ScannerInv /\ [ScannerNext]_scanner => ScannerInv'
  BY ScannerStep
<1>2. QED
  BY ScannerBegins, <1>1, PTL DEF ScannerSpec

(* Every token has the number of the line on which its text ends, for      *)
(* every text: what the compiler reports errors with.                      *)
THEOREM LinesAreCounted == ScannerSpec => []LinesCounted
<1>1. ScannerInv => LinesCounted
  BY DEF ScannerInv
<1>2. QED
  BY SpecScanner, <1>1, PTL

(* Every step of the scanner passes over a blank, a comment, or the longest *)
(* lexeme of the grammar where it begins, for every text.                  *)
THEOREM ScansLexemes == ScannerSpec => TokensAreLexemes
<1>1. ScannerInv /\ [ScannerNext]_scanner => [ScansText]_scanner
  BY ScannerStep
<1>2. QED
  BY SpecScanner, <1>1, PTL DEF ScannerSpec, TokensAreLexemes
===============================================================================
