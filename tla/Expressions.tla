------------------------------ MODULE Expressions ------------------------------
(***************************************************************************)
(* The expression parser (src/src/compiler.c): parse_precedence with its   *)
(* table of rules, the rules that read on and emit code, and the recovery  *)
(* from errors, for a source of expression statements.                     *)
(*                                                                         *)
(* A token is its own text; "a" and "b" are identifiers, "1" a literal.    *)
(* Each operator stands for a parse function and takes the parser to the   *)
(* parser after it.  Which variable a name means is Resolution's matter.   *)
(***************************************************************************)
EXTENDS Integers, Sequences, SequencesExt

CONSTANTS
  Texts,          \* the sources: sequences of tokens
  MAX_CALLARGS    \* value.h: one argument less is the most that a call has

VARIABLES
  text,      \* the tokens
  at,        \* parser.current, by its index; the end comes again and again
  begin,     \* where the last statement began
  outcome,   \* "accepted", "error", or "crash"
  code       \* and what was emitted for it

parsing == <<text, at, begin, outcome, code>>

Identifier == {"a", "b"}
EOF == "end"
TokenAt(t, i) == IF i \in DOMAIN t THEN t[i] ELSE EOF

-------------------------------------------------------------------------------
(* parse_rules.                                                            *)

NONE == 0  ASSIGNMENT == 1  OR == 2  AND == 3  EQUALITY == 4  COMPARISON == 5
TERM == 6  FACTOR == 7  UNARY == 8  DOT == 9  CALL == 10  PRIMARY == 11

Precedence(token) ==
  CASE token = "1" -> PRIMARY [] token \in {"(", "."} -> CALL [] token = "!" -> UNARY
    [] token = "*" -> FACTOR [] token = "-" -> TERM [] token = "<" -> COMPARISON
    [] token = "==" -> EQUALITY [] token = "and" -> AND [] token = "or" -> OR
    [] token = "=" -> ASSIGNMENT [] OTHER -> NONE

HasPrefix == Identifier \cup {"1", "(", "-", "!"}
Binary    == {"*", "-", "<", "=="}
HasInfix  == Binary \cup {"(", ".", "=", "and", "or"}

-------------------------------------------------------------------------------
(* The parser.                                                             *)

Parser(t, i) ==
  [text |-> t, at |-> i, code |-> <<>>, before |-> NONE,   \* prev_prec
   name |-> EOF,                                           \* consumed_identifier
   panic |-> FALSE,
   crash |-> FALSE]          \* a rule that is NULL has been called

Now(p)     == TokenAt(p.text, p.at)
Prev(p)    == TokenAt(p.text, p.at - 1)
Advance(p) == [p EXCEPT !.at = @ + 1]
Error(p)   == [p EXCEPT !.panic = TRUE]

Consume(p, token) == IF Now(p) = token THEN Advance(p) ELSE Error(p)

Emit(p, op, arg) == [p EXCEPT !.code = Append(@, <<op, arg>>)]
Here(p) == Len(p.code)
Patch(p, jump) == [p EXCEPT !.code[jump][2] = Here(p) - jump]

RECURSIVE ParsePrecedence(_, _)

Expression(p) == ParsePrecedence([p EXCEPT !.before = NONE], ASSIGNMENT)

(* What is assigned next is not loaded.                                    *)
Variable(p) ==
  LET q == [p EXCEPT !.name = Prev(p)]
  IN IF Now(q) = "=" THEN q ELSE Emit(q, "GET", Prev(q))

Unary(p) ==
  Emit(ParsePrecedence(p, UNARY), IF Prev(p) = "-" THEN "NEGATE" ELSE "NOT", 0)

Grouping(p) == Consume(Expression(p), ")")

Prefix(p) ==
  CASE Prev(p) \in Identifier -> Variable(p)
    [] Prev(p) = "1"          -> Emit(p, "CONST", 0)
    [] Prev(p) = "("          -> Grouping(p)
    [] OTHER                  -> Unary(p)

(* Mutant: operators of equal precedence group to the right.               *)
BinaryRight(p) ==
  LET prec == Precedence(Prev(p))
  IN [Emit(ParsePrecedence(p, prec), Prev(p), 0) EXCEPT !.before = prec]

BinaryInfix(p) ==
  LET prec == Precedence(Prev(p))
  IN [Emit(ParsePrecedence(p, prec + 1), Prev(p), 0) EXCEPT !.before = prec]

And(p) ==
  LET skip == Emit(p, "JMP_IF_FALSE", 0)
  IN Patch(ParsePrecedence(Emit(skip, "POP", 0), AND), Here(skip))

Or(p) ==
  LET false == Emit(p, "JMP_IF_FALSE", 0)
      out   == Emit(false, "JMP", 0)
      right == Emit(Patch(out, Here(false)), "POP", 0)
  IN Patch(ParsePrecedence(right, OR), Here(out))

(* Mutant: whatever is on the left.                                        *)
AssignmentUnchecked(p) ==
  LET q == ParsePrecedence(p, ASSIGNMENT) IN Emit(q, "SET", p.name)

Assignment(p) ==
  IF p.before >= ASSIGNMENT THEN Error(p)
  ELSE LET q == ParsePrecedence(p, ASSIGNMENT) IN Emit(q, "SET", p.name)

(* Arguments up to the closing parenthesis; count is how many there are.   *)
RECURSIVE Arguments(_, _)
Arguments(p, count) ==
  LET q == Expression(p)
  IN IF Now(q) = "," THEN Arguments(Advance(q), count + 1)
     ELSE [parser |-> Consume(q, ")"), count |-> count + 1]

ArgumentList(p) ==
  IF Now(p) = ")" THEN [parser |-> Advance(p), count |-> 0] ELSE Arguments(p, 0)

(* Mutant: one more is let pass.                                           *)
ParameterListOneMore(p) ==
  LET l == ArgumentList(p)
  IN IF l.count > MAX_CALLARGS THEN [l EXCEPT !.parser = Error(@)] ELSE l

(* Too many are an error behind the closing parenthesis.                   *)
ParameterList(p) ==
  LET l == ArgumentList(p)
  IN IF l.count >= MAX_CALLARGS THEN [l EXCEPT !.parser = Error(@)] ELSE l

Call(p) == LET l == ParameterList(p) IN Emit(l.parser, "CALL", l.count)

Dot(p) ==
  LET ident == IF Now(p) \in Identifier THEN Advance(p) ELSE Error(p)
      q     == [ident EXCEPT !.name = Prev(ident)]
  IN IF Now(q) = "=" THEN Emit(Expression(Advance(q)), "SET_PROPERTY", q.name)
     ELSE IF Now(q) = "("
     THEN LET l == ParameterList(Advance(q)) IN Emit(l.parser, "INVOKE", <<q.name, l.count>>)
     ELSE Emit(q, "GET_PROPERTY", q.name)

Infix(p) ==
  CASE Prev(p) \in Binary -> BinaryInfix(p)
    [] Prev(p) = "and"    -> And(p)
    [] Prev(p) = "or"     -> Or(p)
    [] Prev(p) = "="      -> Assignment(p)
    [] Prev(p) = "("      -> Call(p)
    [] OTHER              -> Dot(p)

(* The operators that follow and bind as tightly as prec.                  *)
RECURSIVE Operators(_, _)
Operators(p, prec) ==
  IF Precedence(Now(p)) < prec \/ p.panic THEN p
  ELSE IF Precedence(Now(p)) = PRIMARY THEN Error(p)
  ELSE IF Now(p) \notin HasInfix THEN [Error(p) EXCEPT !.crash = TRUE]
  ELSE Operators(Infix(Advance(p)), prec)

(* Mutant: a token that begins no expression is not consumed.              *)
ParsePrecedenceStays(p, prec) ==
  LET q == Advance(p)
  IN IF Prev(q) \notin HasPrefix THEN Error(p)
     ELSE LET r == Prefix(q)
          IN Operators([r EXCEPT !.before = Precedence(Prev(r))], prec)

ParsePrecedence(p, prec) ==
  LET q == Advance(p)
  IN IF Prev(q) \notin HasPrefix THEN Error(q)
     ELSE LET r == Prefix(q)
          IN Operators([r EXCEPT !.before = Precedence(Prev(r))], prec)

ExpressionStmt(p) == Emit(Consume(Expression(p), ";"), "POP", 0)

(* After an error: past the next semicolon.                                *)
RECURSIVE Synchronize(_)
Synchronize(p) ==
  IF Now(p) = EOF \/ Prev(p) = ";" THEN p ELSE Synchronize(Advance(p))

-------------------------------------------------------------------------------
Declaration ==
  /\ TokenAt(text, at) # EOF /\ outcome # "crash"
  /\ LET p == ExpressionStmt(Parser(text, at))
     IN /\ at' = (IF p.panic THEN Synchronize(p) ELSE p).at
        /\ outcome' = IF p.crash THEN "crash" ELSE IF p.panic THEN "error" ELSE "accepted"
        /\ code' = p.code
  /\ begin' = at /\ UNCHANGED text

Compiled == TokenAt(text, at) = EOF \/ outcome = "crash"
Stop == Compiled /\ UNCHANGED parsing

Init == text \in Texts /\ at = 1 /\ begin = 0 /\ outcome = "accepted" /\ code = <<>>
Next == Declaration \/ Stop
Spec == Init /\ [][Next]_parsing

-------------------------------------------------------------------------------
(* Properties.                                                             *)

G == INSTANCE Grammar

(* What the parser lets pass: an assignment to what is no variable (the    *)
(* check looks at the last operator and not at what was parsed), also as   *)
(* an operand, and a `!' where an operator is due.                         *)
Stray(t) ==
  \E k \in 2 .. Len(t) :
    \/ t[k] = "=" /\
         \/ t[k - 1] = ")"
         \/ TokenAt(t, k - 2) \in {"-", "!", "and", "or"}
         \/ TokenAt(t, k - 2) = "." /\ \E j \in 1 .. k : t[j] \in Binary \cup {"!", "and", "or"}
    \/ t[k] = "!" /\ t[k - 1] \in Identifier \cup {"1", ")"}

(* A statement is accepted exactly if its tokens are an expression by the  *)
(* precedence of the operators (compiler.h:7-20), its code is the code of  *)
(* that expression, and nothing is left of it.                             *)
SemicolonsFrom(i) == {k \in i .. Len(text) : text[k] = ";"}

ParsesExpressions ==
  begin # 0 /\ ~Stray(text) =>
    LET S == SemicolonsFrom(begin)
        q == IF S = {} THEN begin ELSE CHOOSE k \in S : \A j \in S : k <= j
        right == G!Codes(text, begin, q, ASSIGNMENT)
    IN IF right = {} THEN outcome = "error"
       ELSE /\ outcome = "accepted" /\ at = q + 1
            /\ right = {SubSeq(code, 1, Len(code) - 1)}

(* Every statement takes tokens away, whatever is wrong in it, and after an*)
(* error the parser goes on behind a semicolon: it comes to the end of     *)
(* every source, and no statement is read from its middle (compile,        *)
(* declaration, synchronize).                                              *)
AtStatement == TokenAt(text, at) = EOF \/ text[at - 1] = ";"
TakesTokens == at' > at /\ (outcome' = "crash" \/ AtStatement')
ParserAdvances == [][TakesTokens]_parsing
===============================================================================
