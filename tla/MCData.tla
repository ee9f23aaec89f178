--------------------------------- MODULE MCData ---------------------------------
(***************************************************************************)
(* The data of the interpreter on small instances: a behaviour is one of a *)
(* single part, and the others stay as they are.                           *)
(*   maps     two tables that start with two slots and grow to eight, and  *)
(*            three names that collide in every way: two at every capacity,*)
(*            the third only while the table is small, and their probes    *)
(*            wrap around the end                                          *)
(*   strings  a table of strings that starts with two slots, and contents  *)
(*            that collide                                                 *)
(*   boxes    values as boxes and with tags                                *)
(*   roots    operations that allocate, see RootingCases                   *)
(* Properties are stated where their parts are; they hold in the states of *)
(* all parts.                                                              *)
(***************************************************************************)
EXTENDS Tables, Interning, Boxing, RootingCases, TLC

CONSTANTS k1, k2, k3, k4, c1, c2, c3, c4

VARIABLE part

rootingCases == <<program, rooting>>
parts == <<part, vars, interning, pairs, rootingCases>>

KeyHashes     == k1 :> 3 @@ k2 :> 11 @@ k3 :> 5 @@ k4 :> 0
ContentHashes == c1 :> 0 @@ c2 :> 4 @@ c3 :> 1 @@ c4 :> 3

NoRoots == RootingInit /\ program = "none"

NoStrings ==
  /\ strings = EmptyTable /\ heap = {} /\ held = {} /\ content = <<>>
  /\ pc = "idle" /\ chars = Null /\ entry = NoEntry /\ str = Null

MCInit ==
  /\ Init /\ BoxingInit
  /\ \/ part \in {"maps", "boxes"} /\ NoStrings /\ NoRoots
     \/ part = "strings" /\ InterningInit /\ NoRoots
     \/ part = "roots" /\ NoStrings /\ CasesInit

(* bound: three names, all with a place in the tables; the fourth key is   *)
(* only a string.                                                          *)
Named == \A o \in Owner : k4 \notin Keys(table[o])

Mapping ==
  part = "maps" /\ Next /\ Named' /\ UNCHANGED <<part, interning, pairs, rootingCases>>
Constructing ==
  part = "strings" /\ InterningNext /\ UNCHANGED <<part, vars, pairs, rootingCases>>
Operating ==
  part = "boxes" /\ BoxingNext /\ UNCHANGED <<part, vars, interning, rootingCases>>
Allocating ==
  part = "roots" /\ CasesNext /\ UNCHANGED <<part, vars, interning, pairs>>

MCNext == Mapping \/ Constructing \/ Operating \/ Allocating
MCSpec == MCInit /\ [][MCNext]_parts

(* Owners and values are alike; the names are not, for their hashcodes.    *)
Renamings == Permutations(Owner) \cup Permutations(Value)

(* A string is known by its place in the table and its content, as those   *)
(* that exist are there, except for the new one (StringsFindable).  What   *)
(* is not read is left out: the content of a string that does not exist,   *)
(* and the argument of a call that has returned.                           *)
Strings ==
  <<strings.count,
    [i \in 0 .. strings.capacity - 1 |->
       LET e == strings.entries[i]
       IN <<IF e.key = Null THEN Null ELSE content[e.key], e.key \in held, e.tombstone>>],
    pc, IF pc = "idle" THEN Null ELSE chars, entry, str = Null, Cardinality(heap)>>
View == <<part, vars, Strings, pairs, CasesView>>
=================================================================================
