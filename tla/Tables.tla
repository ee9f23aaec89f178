-------------------------------- MODULE Tables --------------------------------
(***************************************************************************)
(* The tables of the interpreter that map names to values: the globals,    *)
(* the fields of an instance and the methods of a class.  Nothing is ever  *)
(* deleted from them; a class that inherits starts from a copy of the      *)
(* methods of its superclass.                                              *)
(***************************************************************************)
EXTENDS Table

CONSTANTS
  Owner,    \* what has a table
  Value,    \* what a name may stand for
  Hash      \* the hashcode of each key

ASSUME OwnersAssumption == Null \notin Value /\ Hash \in [Key -> Nat]

VARIABLES
  table,    \* the Table of each owner
  answer    \* what the last call returned

vars == <<table, answer>>

Init == table = [o \in Owner |-> EmptyTable] /\ answer = Null

(* OP_DEFINE_GLOBAL, OP_SET_GLOBAL, OP_SET_PROPERTY, OP_METHOD.            *)
Set(o, k, v) ==
  LET set == TableSet(table[o], k, v, Hash)
  IN table' = [table EXCEPT ![o] = set.table] /\ answer' = set.exist

(* OP_GET_GLOBAL, OP_GET_PROPERTY, OP_INVOKE, OP_GET_SUPER, hasattr.       *)
Get(o, k) == answer' = TableGet(table[o], k, Hash) /\ UNCHANGED table

(* A new instance or class.                                                *)
New(o) == table' = [table EXCEPT ![o] = EmptyTable] /\ answer' = Null

(* OP_INHERIT comes before the first method of the subclass.               *)
AddAll(dest, src) ==
  /\ table[dest] = EmptyTable
  /\ table' = [table EXCEPT ![dest] = TableAddAll(@, table[src], Hash)]
  /\ answer' = Null

Next ==
  \/ \E o \in Owner, k \in Key : Get(o, k) \/ \E v \in Value : Set(o, k, v)
  \/ \E o \in Owner : New(o)
  \/ \E dest, src \in Owner : AddAll(dest, src)

Spec == Init /\ [][Next]_vars

-------------------------------------------------------------------------------
(* Properties.                                                             *)

(* table.c:29-30: "hash table must always reserve free space (see          *)
(* LOAD_FACTOR) so this loop should break": a search for a name that is    *)
(* not there ends at an unused slot, long before it has seen all of them.  *)
FreeSpace ==
  \A o \in Owner : table[o].capacity > 0 =>
    \E i \in 0 .. table[o].capacity - 1 : Unused(table[o].entries[i])

(* The tables are maps, see Dictionary: what a lookup returns is what was  *)
(* stored last under the name.                                             *)
Stored(o) == {table[o].entries[i] : i \in 0 .. table[o].capacity - 1}
Map == [o \in Owner |-> [k \in Key |->
          IF \E e \in Stored(o) : e.key = k
          THEN (CHOOSE e \in Stored(o) : e.key = k).value ELSE Null]]

Maps == INSTANCE Dictionary WITH map <- Map
TablesAreMaps == Maps!Spec
===============================================================================
