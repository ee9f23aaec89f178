------------------------------- MODULE MCCompiler -------------------------------
(***************************************************************************)
(* The parts of the compiler on small inputs: a behaviour is one of a      *)
(* single part, and the others stay as they are.                           *)
(*   characters   the scanner, on short texts                              *)
(*   expressions  the expression parser, on short sequences of tokens      *)
(*   names        names and scopes, for any source within the bounds       *)
(*   statements   the code of small programs, executed                     *)
(*   bytes        a chunk that is written and read                         *)
(***************************************************************************)
EXTENDS Resolution, Chunk, Scanner

CONSTANTS
  DeclaredMax,   \* bound: locals in all functions, slots 0 left out
  MAX_CALLARGS

VARIABLES
  part,
  statements, at, begin, outcome, produced,           \* Expressions
  type, code, pc, stack, open, todo, env              \* Execution

parserVars  == <<statements, at, begin, outcome, produced>>
machineVars == <<type, code, pc, stack, open, todo, env>>
parts       == <<part, scanner, parserVars, resolution, machineVars, chunk>>

-------------------------------------------------------------------------------
(* The inputs.                                                             *)

Upto(S, n) == UNION {[1 .. k -> S] : k \in 0 .. n}
With_(S, last) == {Append(t, last) : t \in S}

ShortTexts ==
  Upto({"o", "r", "1", ".", "/", "*", "\n", "\"", "=", "<", " ", "@"}, 3)
    \cup Upto({"/", "*", "\n", "1"}, 6) \cup Upto({"o", "r", "1", "."}, 5)
    \cup Upto({"\"", "\n", "/", "o"}, 5)

ShortStatements ==
  (Upto({"a", "1", "(", ")", ",", ".", "=", "-", "!", "*", "or", ";"}, 4) \ {<<>>})
    \cup With_(Upto({"a", "-", "*", "or", "and"}, 5), ";")
    \cup With_(Upto({"a", "(", ")", ",", "."}, 6), ";")
    \cup With_(Upto({"a", "=", "*", ".", "("}, 5), ";")
    \cup With_({call \o t : call \in {<<"a", "(">>, <<"a", ".", "a", "(">>},
                           t \in Upto({"a", ")", ","}, 6)}, ";")

Programs == INSTANCE Programs

P == INSTANCE Expressions WITH Texts <- ShortStatements, text <- statements, code <- produced
X == INSTANCE Execution WITH Program <- Programs!SourcePrograms, AcrossLocals <- FALSE

-------------------------------------------------------------------------------
(* Where a part is not the one that runs: the scanner is past the empty    *)
(* text, the others have not begun.                                        *)
NoScanner == /\ text = <<>> /\ current = 1 /\ line = 1 /\ unclosed = FALSE
             /\ tokens = <<Token("EOF", 1, 1)>>
NoParser  == statements = <<>> /\ at = 1 /\ begin = 0 /\ outcome = "accepted" /\ produced = <<>>
NoMachine == /\ type = "script" /\ code = <<>> /\ pc = 0
             /\ stack = <<>> /\ open = {} /\ todo = <<>> /\ env = <<>>
NoChunk   == /\ bytes = <<>> /\ lines = <<>> /\ pool = 0 /\ names = {}
             /\ reported = FALSE /\ written = <<>>

MCInit ==
  \/ part = "characters"  /\ ScannerInit /\ NoParser /\ Init /\ NoMachine /\ NoChunk
  \/ part = "expressions" /\ NoScanner   /\ P!Init   /\ Init /\ NoMachine /\ NoChunk
  \/ part = "names"       /\ NoScanner   /\ NoParser /\ Init /\ NoMachine /\ NoChunk
  \/ part = "statements"  /\ NoScanner   /\ NoParser /\ Init /\ X!Init    /\ NoChunk
  \/ part = "bytes"       /\ NoScanner   /\ NoParser /\ Init /\ NoMachine /\ ChunkInit

Characters ==
  part = "characters" /\ ScannerNext /\ UNCHANGED <<part, parserVars, resolution, machineVars, chunk>>
Expressions ==
  part = "expressions" /\ P!Next /\ UNCHANGED <<part, scanner, resolution, machineVars, chunk>>
Resolving ==
  part = "names" /\ Next /\ UNCHANGED <<part, scanner, parserVars, machineVars, chunk>>
Executing ==
  part = "statements" /\ X!Next /\ UNCHANGED <<part, scanner, parserVars, resolution, chunk>>
Writing ==
  part = "bytes" /\ ChunkNext /\ UNCHANGED <<part, scanner, parserVars, resolution, machineVars>>

MCNext == Characters \/ Expressions \/ Resolving \/ Executing \/ Writing
MCSpec == MCInit /\ [][MCNext]_parts /\ WF_parts(Characters)

Few ==
  /\ FoldLeft(LAMBDA n, c : n + Len(c.locals) - 1, 0, chain) <= DeclaredMax
  /\ FoldLeft(LAMBDA n, c : n + Len(c.inside), 0, chain) <= 2

(* What was emitted last has no part in what comes next.                   *)
View == <<part, scanner, parserVars, chain, failed, machineVars, chunk>>

-------------------------------------------------------------------------------
(* Properties of the parts that are instances; those of the others are     *)
(* stated where the parts are, and hold in the states of all parts.        *)

(* The expression parser: what is accepted is an expression by the grammar,*)
(* and its code is that of the expression.                                 *)
ParsesExpressions == part = "expressions" => P!ParsesExpressions

(* The parser takes tokens away with every statement, right or wrong.      *)
ParserAdvances == [][part = "expressions" => P!TakesTokens]_parts

(* The code of statements does what the statements say, in their order.    *)
FollowsSource == part = "statements" => X!FollowsSource

(* The stack has the variables in scope, and an upvalue is open for each   *)
(* that is captured.                                                       *)
StackMirrorsScopes == part = "statements" => X!StackMirrorsScopes
OpenInScope        == part = "statements" => X!OpenInScope
===============================================================================
