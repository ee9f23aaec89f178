-------------------------------- MODULE Grammar --------------------------------
(***************************************************************************)
(* What an expression is and what its code does, from the precedence of    *)
(* operators alone: all the ways to divide tokens i .. j - 1 of t into an  *)
(* expression whose precedence is not lower than p.                        *)
(***************************************************************************)
EXTENDS Integers, Sequences, FiniteSets

CONSTANT MAX_CALLARGS

Names == {"a", "b"}
Level == [assign |-> 1, or |-> 2, and |-> 3, unary |-> 8, call |-> 10]
Operator(tok) == CASE tok = "==" -> 4 [] tok = "<" -> 5 [] tok = "-" -> 6 [] tok = "*" -> 7
                   [] OTHER -> 0

(* First the operands, then the operator; `and' and `or' jump over the     *)
(* second operand.                                                         *)
AndCode(l, r) == l \o <<<<"JMP_IF_FALSE", Len(r) + 1>>, <<"POP", 0>>>> \o r
OrCode(l, r)  == l \o <<<<"JMP_IF_FALSE", 1>>, <<"JMP", Len(r) + 1>>, <<"POP", 0>>>> \o r

RECURSIVE Codes(_, _, _, _)

(* Arguments: their code, and how many there are, fewer than MAX_CALLARGS. *)
RECURSIVE ArgLists(_, _, _)
ArgLists(t, i, j) ==
  {[code |-> c, count |-> 1] : c \in Codes(t, i, j, 1)}
  \cup UNION {{[code |-> c \o l.code, count |-> l.count + 1] :
                  c \in Codes(t, i, k, 1), l \in ArgLists(t, k + 1, j)} :
              k \in {k \in i .. j - 1 : t[k] = ","}}
Args(t, i, j) == IF i = j THEN {[code |-> <<>>, count |-> 0]}
                 ELSE {l \in ArgLists(t, i, j) : l.count < MAX_CALLARGS}

Atoms(t, i, j) ==
  IF j # i + 1 THEN {}
  ELSE IF t[i] = "1" THEN {<<<<"CONST", 0>>>>}
  ELSE IF t[i] \in Names THEN {<<<<"GET", t[i]>>>>} ELSE {}

Groups(t, i, j) == IF t[i] = "(" /\ t[j - 1] = ")" THEN Codes(t, i + 1, j - 1, 1) ELSE {}

Calls(t, i, j) ==
  IF t[j - 1] # ")" THEN {}
  ELSE UNION {{f \o l.code \o <<<<"CALL", l.count>>>> :
                  f \in Codes(t, i, k, Level.call), l \in Args(t, k + 1, j - 1)} :
              k \in {k \in i + 1 .. j - 2 : t[k] = "(" /\ ~(k > i + 2 /\ t[k - 2] = ".")}}
       \cup
       UNION {{f \o l.code \o <<<<"INVOKE", <<t[k - 1], l.count>>>>>> :
                  f \in Codes(t, i, k - 2, Level.call), l \in Args(t, k + 1, j - 1)} :
              k \in {k \in i + 3 .. j - 2 : t[k] = "(" /\ t[k - 2] = "." /\ t[k - 1] \in Names}}

Properties(t, i, j) ==
  IF j > i + 2 /\ t[j - 2] = "." /\ t[j - 1] \in Names
  THEN {f \o <<<<"GET_PROPERTY", t[j - 1]>>>> : f \in Codes(t, i, j - 2, Level.call)} ELSE {}

Unaries(t, i, j) ==
  IF t[i] \in {"-", "!"}
  THEN {e \o <<<<IF t[i] = "-" THEN "NEGATE" ELSE "NOT", 0>>>> :
          e \in Codes(t, i + 1, j, Level.unary)} ELSE {}

(* Operators of equal precedence group to the left.                        *)
Binaries(t, i, j, p) ==
  UNION {{l \o r \o <<<<t[k], 0>>>> : l \in Codes(t, i, k, Operator(t[k])),
                                      r \in Codes(t, k + 1, j, Operator(t[k]) + 1)} :
         k \in {k \in i + 1 .. j - 2 : Operator(t[k]) # 0 /\ Operator(t[k]) >= p}}

Logicals(t, i, j, p) ==
  UNION {{IF t[k] = "and" THEN AndCode(l, r) ELSE OrCode(l, r) :
            l \in Codes(t, i, k, Level[t[k]] + 1), r \in Codes(t, k + 1, j, Level[t[k]])} :
         k \in {k \in i + 1 .. j - 2 : t[k] \in {"and", "or"} /\ Level[t[k]] >= p}}

Assignments(t, i, j) ==
  (IF j > i + 2 /\ t[i] \in Names /\ t[i + 1] = "="
   THEN {e \o <<<<"SET", t[i]>>>> : e \in Codes(t, i + 2, j, 1)} ELSE {})
  \cup UNION {{f \o e \o <<<<"SET_PROPERTY", t[k - 1]>>>> :
                 f \in Codes(t, i, k - 2, Level.call), e \in Codes(t, k + 1, j, 1)} :
              k \in {k \in i + 3 .. j - 2 : t[k] = "=" /\ t[k - 1] \in Names /\ t[k - 2] = "."}}

Codes(t, i, j, p) ==
  IF i >= j THEN {}
  ELSE Atoms(t, i, j) \cup Groups(t, i, j) \cup Calls(t, i, j) \cup Properties(t, i, j)
       \cup (IF p <= Level.unary THEN Unaries(t, i, j) ELSE {})
       \cup Binaries(t, i, j, p) \cup Logicals(t, i, j, p)
       \cup (IF p <= Level.assign THEN Assignments(t, i, j) ELSE {})
================================================================================
