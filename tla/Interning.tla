------------------------------- MODULE Interning -------------------------------
(***************************************************************************)
(* String interning (src/src/object.c): StringObj_construct looks its      *)
(* content up in vm.strings and keeps the entry it found while it          *)
(* allocates twice; then it puts the new string into that entry itself,    *)
(* or through table_set if there was no free entry.  Each allocation,      *)
(* that of an expanding table too, may collect garbage, and a collection   *)
(* deletes from the same table the strings that nothing refers to.         *)
(***************************************************************************)
EXTENDS Table, Contents

VARIABLES
  strings,    \* vm.strings
  heap,       \* the StringObjs that exist
  content,    \* the characters of each
  held,       \* those that the rest of the program can reach
  pc,         \* what StringObj_construct is about to do, or "idle"
  chars,      \* its argument,
  entry,      \* the slot of the entry it found, or NoEntry,
  str         \* and the string it has allocated

construct == <<pc, chars, entry, str>>
interning == <<strings, heap, content, held, construct>>

-------------------------------------------------------------------------------
(* The hashcode field of each string.                                      *)
HashString == [s \in Key |-> HashOf[content[s]]]

(* Mutant: a tombstone is good enough to put the new string in.            *)
FindExistingFirstHole(t, c) ==
  LET At(n) == Probe(HashOf[c], n, t.capacity)
      ends  == {n \in 0 .. t.capacity - 1 :
                  LET e == t.entries[At(n)]
                  IN e.key = Null \/ content[e.key] = c}
  IN IF ends = {} THEN NoEntry ELSE At(Min(ends))

(* find_existing_string_entry: unlike find_entry it compares contents, and *)
(* never gives a tombstone.                                                *)
FindExisting(t, c) ==
  LET At(n) == Probe(HashOf[c], n, t.capacity)
      ends  == {n \in 0 .. t.capacity - 1 :
                  LET e == t.entries[At(n)]
                  IN IF e.key # Null THEN content[e.key] = c ELSE ~e.tombstone}
  IN IF ends = {} THEN NoEntry ELSE At(Min(ends))

-------------------------------------------------------------------------------
InterningInit ==
  /\ strings = EmptyTable /\ heap = {} /\ held = {}
  /\ \E c \in Content : content = [s \in Key |-> c] /\ chars = c
  /\ pc = "idle" /\ entry = NoEntry /\ str = Null

(* The content is there: its string is the result.                         *)
Existing(c) ==
  /\ pc = "idle"
  /\ LET i == FindExisting(strings, c)
     IN /\ i # NoEntry /\ strings.entries[i].key # Null
        /\ held' = held \cup {strings.entries[i].key}
  /\ UNCHANGED <<strings, heap, content, construct>>

(* It is not: the entry to put it in is remembered.                        *)
Construct(c) ==
  /\ pc = "idle" /\ heap # Key
  /\ LET i == FindExisting(strings, c)
     IN /\ i # NoEntry => strings.entries[i].key = Null
        /\ entry' = i
  /\ chars' = c /\ pc' = "clone"
  /\ UNCHANGED <<strings, heap, content, held, str>>

(* ALLOCATE of the copy of the characters is past.                         *)
Clone ==
  /\ pc = "clone" /\ pc' = "allocate"
  /\ UNCHANGED <<strings, heap, content, held, chars, entry, str>>

(* StringObj_allocate, and the push that keeps the new string alive.       *)
AllocateString ==
  /\ pc = "allocate"
  /\ \E s \in Key \ heap :
       /\ heap'    = heap \cup {s}
       /\ content' = [content EXCEPT ![s] = chars]
       /\ str'     = s
  /\ pc' = IF entry = NoEntry /\ MustExpand(strings) THEN "expand" ELSE "add"
  /\ UNCHANGED <<strings, held, chars, entry>>

(* table_expand, after its allocation.                                     *)
Expand ==
  /\ pc = "expand"
  /\ strings' = TableExpand(strings, HashString)
  /\ pc' = "add"
  /\ UNCHANGED <<heap, content, held, chars, entry, str>>

(* Mutant: the string is put in without being counted.                     *)
AddUncounted ==
  /\ pc = "add"
  /\ strings' = IF entry = NoEntry THEN SetInPlace(strings, str, Null, HashString).table
                ELSE Fill(strings, entry, str, Null)
  /\ held' = held \cup {str} /\ str' = Null /\ entry' = NoEntry /\ pc' = "idle"
  /\ UNCHANGED <<heap, content, chars>>

(* The new string enters the table, is popped and returned.                *)
Add ==
  /\ pc = "add"
  /\ strings' = IF entry = NoEntry THEN SetInPlace(strings, str, Null, HashString).table
                ELSE [Fill(strings, entry, str, Null) EXCEPT !.count = @ + 1]
  /\ held' = held \cup {str} /\ str' = Null /\ entry' = NoEntry /\ pc' = "idle"
  /\ UNCHANGED <<heap, content, chars>>

Release ==
  /\ pc = "idle"
  /\ \E s \in held : held' = held \ {s}
  /\ UNCHANGED <<strings, heap, content, construct>>

(* collect_garbage, in reallocate and before the memory is there.  What it *)
(* marks is what is held and what is on the stack.                         *)
Marked == held \cup ({str} \ {Null})

CollectGarbage ==
  /\ pc \in {"idle", "clone", "allocate", "expand"}
  /\ strings' = TableRemoveUnmarked(strings, Marked, HashString)
  /\ heap' = Marked
  /\ UNCHANGED <<content, held, construct>>

InterningNext ==
  \/ \E c \in Content : Existing(c) \/ Construct(c)
  \/ Clone \/ AllocateString \/ Expand \/ Add
  \/ Release \/ CollectGarbage

InterningSpec == InterningInit /\ [][InterningNext]_interning

-------------------------------------------------------------------------------
(* Properties.                                                             *)

TypeOK ==
  /\ heap \subseteq Key /\ held \subseteq heap
  /\ content \in [Key -> Content]
  /\ strings.count \in 0 .. strings.capacity
  /\ strings.entries \in [0 .. strings.capacity - 1 ->
       [key : Key \cup {Null}, tombstone : BOOLEAN, value : {Null}]]
  /\ pc \in {"idle", "clone", "allocate", "expand", "add"}
  /\ chars \in Content
  /\ entry \in 0 .. strings.capacity - 1 \cup {NoEntry}
  /\ str \in Key \cup {Null}

(* The table has the strings that exist, except the one that is being      *)
(* added, each where both kinds of search find it.                         *)
StringsFindable ==
  /\ Keys(strings) = heap \ {str}
  /\ Sound(strings, HashString)
  /\ \A s \in Keys(strings) : strings.entries[FindExisting(strings, content[s])].key = s

(* The entry that was found before the allocations is still the one that a *)
(* search would find after them, whatever the collections deleted.         *)
EntryStaysValid ==
  pc \in {"clone", "allocate", "expand"} \/ (pc = "add" /\ entry # NoEntry) =>
    entry = FindExisting(strings, chars)

(* Interning, see InternPool.                                              *)
Pool == INSTANCE InternPool WITH
          Str <- Key,
          pool <- {<<content[s], s>> : s \in Keys(strings)}
Interns == Pool!Spec
===============================================================================
