# A specification of the clox interpreter

This directory specifies the interpreter for Lox in `../src` (a compiler to
bytecode, a stack machine, a garbage collector and the tables they share) in
TLA+. TLC checks the models on small instances, and TLAPS proves what matters
most about some of them for every value of the constants.

Source paths below are relative to the repository: `vm.c` is
`src/src/vm.c`, `vm.h` is `src/include/vm.h`.

## 1. The system

The program is sequential. `main` reads a file or lines at a prompt and hands
each to `interpret`, which compiles it and runs it to its end. What is hard is
not concurrency but *reentrance* and *aliasing*: almost every allocation may
collect garbage in the middle of another operation, closures and the stack
share variables, frames share slots of one stack, the prompt keeps a machine
that an error stopped half way, and the compiler must predict the stack that
the machine will have.

| Component | State | Operations | Talks to | What is hard | What makes it correct |
|---|---|---|---|---|---|
| Machine: stack, frames, upvalues (`vm.c`) | `stack`, `stack_top`, `frames`, `open_upvalues`; the upvalues of each closure | push and pop, calls and returns, `OP_CLOSURE` with `capture_upval`, `close_upvalues`, `runtime_error` | the compiler, whose slot numbers it trusts; the prompt, which reuses the machine | order of captures, scope ends with several captures, closures filled entry by entry, what an error leaves behind | each variable is one cell for all that can name it, before and after its scope ends |
| Machine: calls, classes, properties (`vm.c`) | classes, instances, bound methods, `globals` | `call_value`, `OP_INVOKE`, `OP_GET_PROPERTY`, `OP_INHERIT`, `OP_GET_SUPER` ... | tables | arguments in place on the stack, error paths that go on | every call leaves one result where callee and arguments were |
| Garbage collector (`memory.c`) | the list `vm.objects`, mark bits, the worklist `vm.gc`, byte counts | marking from the roots, tracing, purging `vm.strings`, sweeping | every allocation may start it; the roots are in the machine and the compiler | references it may miss, cycles, unlinking, marks left over | frees exactly what cannot be reached |
| Hash table (`table.c`) | open addressing with tombstones | `table_set`, `table_get`, `table_delete`, `table_expand`, `table_add_all` | globals, fields, methods, the pool of strings | tombstones, the full and the empty table, collection during expansion | is a map |
| Strings (`object.c`) | `vm.strings`, which does not keep its keys alive | `StringObj_construct` | collector and table, both from inside it | an entry remembered across allocations | one object for each content |
| Compiler: statements (`compiler.c`) | `Compiler`: locals, scope depth, loops, upvalues; the chunk | one function for each statement, `patch_jump`, `end_scope`, `resolve_local` | the machine runs what it emits | positions patched later, scopes left early | the code does what the statements say; the locals are where it counts them |
| Compiler: expressions (`compiler.c`) | the parser's tokens and precedence, panic mode | `parse_precedence`, `synchronize` | scanner | associativity, assignment targets, errors | accepts the grammar, and comes to the end of every source |
| Scanner (`scanner.c`) | position and line in the source | `scan_token` | compiler | ends of comments, strings and numbers, which look ahead | the longest token each time, with its line |
| Values (`value.h`, `value.c`) | tagged or NaN-boxed words | `value_equal`, the type tests | everything | tags that share bits with numbers | both representations say the same |
| Chunks (`chunk.c`) | bytes, constants, run-length lines | `chunk_append`, `chunk_get_line` | compiler, machine | short and long forms, patched jumps | what is read is what was written |
| Driver, natives, disassembler (`main.c`, `native_fns.c`, `debug.c`) | none | the prompt, `clock`, `hasattr`, printing | `interpret` | lengths of instructions, which the disassembler has a second time | it steps from instruction to instruction |

`PROJECT.json` lists the components with what is modelled of each, and the
hazards line by line.

## 2. The modules

| Module | Role |
|---|---|
| `Upvalues` | the stack, the frames, closures and upvalues of `vm.c` |
| `Variables` | what lexical scoping promises: the abstract specification of `Upvalues` |
| `UpvaluesProofs` | theorems about `Upvalues` |
| `Calls` | calls, classes, properties, globals and the prompt in `vm.c` |
| `Activations` | what calls promise: the abstract specification of `Calls` |
| `CallsProofs` | theorems about `Calls` |
| `MarkSweep` | the collector of `memory.c`, with a program that mutates the heap |
| `Heap` | an atomic collector: the abstract specification of `MarkSweep` |
| `MarkSweepProofs` | theorems about `MarkSweep` |
| `Table` | the operators of `table.c` on one table |
| `Tables` | globals, fields and methods, over `Table` |
| `Dictionary` | maps: the abstract specification of `Tables` |
| `Interning` | `StringObj_construct` with collections inside it, over `Table` and `Contents` |
| `InternPool` | one string for each content: the abstract specification of `Interning` |
| `DataProofs` | what the operators of `Table` keep and return, and from that theorems about `Tables` and `Interning`; theorems about `Boxing` |
| `Rooting`, `RootingCases` | what each operation holds in C variables while it allocates (`object.c`, `compiler.c`, `vm.c`); the operations it is run on |
| `RootingProofs` | theorems about `Rooting` |
| `Boxing` | tagged and NaN-boxed values side by side (`value.h`, `value.c`) |
| `Scanner` | `scan_token` over classes of characters |
| `ScannerProofs` | theorems about `Scanner` |
| `Expressions` | `parse_precedence`, its table and rules, panic mode and `synchronize` |
| `Grammar` | what an expression is and does: the reference for `Expressions` |
| `Resolution` | names, scopes, upvalue descriptors, `this` and `super` in nested functions, blocks and classes |
| `ResolutionProofs` | theorems about `Resolution` |
| `Codegen` | the code that `compiler.c` makes for statements |
| `Source`, `Programs` | what the statements mean: the reference for `Execution`; the programs it is run on |
| `Execution` | the machine running the code of `Codegen` next to `Source` |
| `Opcodes`, `Chunk` | bytes, constant pool and lines, as the compiler writes them and the machine and the disassembler read them |
| `ChunkProofs` | theorems about `Chunk` |
| `MC...` | the small instances |

An operator with the comment *Mutant* is a form of the definition below it with
a plausible mistake; it is no part of the model, but shows that a property
would notice.

The modules meet at their assumptions. What `Upvalues` takes for granted of the code
it runs (operands name live locals, descriptors lead to variables, scopes close
what was captured) is what `Resolution` and `Execution` show of the compiler;
what `Calls` takes for granted of the stack's shape is what `Execution` shows
of it for statements and `Expressions` for operands; `Calls` has fields,
methods and globals as functions, which is what `Tables` shows of the hash
tables; `Table` compares names by identity, which is what `Interns` shows of
strings.

### Upvalues

*State.* `stack`, `stackTop`, `frames`, `open` are the fields of `VM` by the
same names; `open` is the linked list from its head. An upvalue `u` points to
slot `loc[u]`, or, where `loc[u] = Closed`, to its own copy `cloned[u]`. A
function has one `ClosureObj`, the constant its declaration emits, and
`closures[f]` is its array of upvalues. `holds`, `captured`, `owner` and
`failed` are history variables: the variable whose value a slot holds, the
slots of locals that the compiler marked captured, the variable an upvalue was
made for, and whether an error has happened.

*Actions.* One for each instruction that moves variables: constants, locals,
upvalues, globals, pop, call, return, declarations and scope ends.
`OP_CLOSURE` takes one step for each descriptor (`Closure`, `CaptureNext`), so
that a half-filled closure is a state. `OperandError` and the failing branches
of the others perform `runtime_error`, which resets the stack and the frames
and leaves the open list. `Interpret` is the next line at the prompt.

*Properties.* `OpenSorted` and `OpenIffListed` (the list is in stack order and
holds exactly the open upvalues), `ClosuresComplete`, `ClosedForGood`;
`OpenLive`, `OneCell` and the refinement `LexicalScoping` up to the first
runtime error: with the cell of a variable read through its slot while it has
one and through its upvalue afterwards, every step is one of `Variables`.

### Calls

*State.* The stack and the frames again, here with classes, instances, fields, methods and
globals. `shapes` is what the compiler knows: for each frame, which of its slots are the
callee, locals (parameters among them), captured locals, operands, or a copy of `this`.
`closed` has every value that is or was the value of a closed upvalue. The guards of the
actions look only there, so that an action may run whenever the compiler can have emitted
its instruction, whatever the stack really holds. `lineage` and the field `made` of a frame
are history: the superclasses of a class, and the instance an initializer was called for.

*Actions.* `OP_CALL`, `OP_INVOKE`, `OP_SUPER_INVOKE`, `OP_GET_SUPER`,
`OP_GET_PROPERTY`, `OP_SET_PROPERTY`, the returns, loads and stores, the
declaration of a class with `OP_INHERIT` and `OP_METHOD` in their own steps
(a class is visible to other code before its methods are there, and an error
may come between), and `Interpret`. `Declare` and `EndScope` begin and end a
local, `Closure` declares a function that may capture any locals of the
running one, itself among them, and `GetUpvalue` and `SetUpvalue` read and
write a captured local of *any* activation that has not ended, or a closed
upvalue: which of these a function's upvalue is, is what `Upvalues` is about, so
that here every function may have any of them. Where the compiler emits two instructions
that nothing can separate they are one action.

*What is left out on purpose.* Three things a program may do break the machine
at once: a class without `init` called with arguments, an assignment to `this`,
a `super` method that does not exist. `Strays` names those a run allows
(section 5). Three more never occur here. Closures whose upvalues an error left open
read and write stale slots, and `break` or `continue` across locals
leaves slots the compiler does not count: `upvalues_after_error` and `execution_across`
are about these. And classes are declared at top level only, where no function nested in a
method uses the method's `this` or `super`; `Resolution` has those names in full.

*Properties.* `StackMatchesCode`: the stack is as high as the compiler counts
it, in every frame, through any sequence of calls, returns and errors.
`ReceiverFits`: a method runs on an instance whose class declares or inherits
it. `MethodsNearest`, `ConstructorsYield`, and the refinement of `Activations`,
`PrivateActivations`: an activation's values are its own, but for the locals that a
closure captured. Of those, an assignment through an upvalue changes one at a time, in the
running activation or in one that waits; nothing else of a waiting one ever changes.

### MarkSweep

*State.* `objects` is the list of all objects, `kind` their types, `refs` the
references by field, `roots` those of the machine and the compiler by place,
`strings` the keys of `vm.strings`. `marked`, `gray` (the worklist, as a set: the
code takes it last in first out, and nothing checked depends on the order),
`phase`, `cursor` and `prev` (the object kept last, or none) belong to a collection.

*Actions.* The program allocates an object with the fields its constructor sets, writes a
field that is not fixed for good (the value of an upvalue is written by assignments, through
its slot or through the upvalue), adds and drops roots, with what it can reach or look up
among the strings. `MarkRoots`, `Trace`, `PurgeStrings`, `SweepKeep`, `SweepFree` and
`SweepEnd` are `collect_garbage`; a sweep step is one iteration of the loop, and an object
is unlinked as the code does it: the list begins behind it while nothing was kept, and is
joined behind `prev` otherwise (`Unlinked`). When to collect is left open: in the code a
byte count decides (`memory.c:25`), and a stress build collects at every allocation, so that
any moment is possible.

*Properties.* `NoDangling`, `MarksCleared`, `CollectionEnds`, and the
refinement `CollectsGarbage`: seen from outside, the purge of the strings is
the step at which exactly the unreachable objects go, and all else is a
stutter. `References` leaves the name of a class out, for the collector does
(section 5).

### Table, Tables, Interning, Boxing

`Table` has `find_entry` (the first tombstone passed is returned if the key is
not there), `table_set` with its expansion *before* the search,
`table_delete`, the purge and `table_add_all`. The growth factor and the load
limit are those of the code; the first capacity, `Least`, is a constant
(2 in the runs, 32 in the code), so that three keys meet two expansions.

`Tables` uses them as the machine does: `table_delete` and the purge are applied to
`vm.strings` only, so nothing is deleted from globals, fields and methods, which is why
`FreeSpace` holds. Deletions are the subject of `Interning`. `TablesAreMaps` is the
refinement of `Dictionary`, with the result of every lookup and the flag that `table_set`
returns.

`Interning` has a step for each place where `StringObj_construct` allocates;
`CollectGarbage` may come between any two and inside the expansion, and deletes
from the table what is neither held nor on the stack. `EntryStaysValid` says
why the entry that the constructor remembers may be used after two
collections; `Interns` is the refinement of `InternPool`. Comments in
`table.c:29` promise a free slot in every table so that searches end; the pool
of strings may fill to the last slot, because `object.c:96` adds without
`table_set`'s check. Its own search ends after one round, and `StringsFindable`
and `Interns` hold with full tables too: the run reaches them.

`Boxing` keeps every value twice, tagged and as the set of the bits that
matter of its 64, and performs the operations of the machine on both.
`BoxedAsTagged` says that type, content, equality and truth agree.

### Rooting

`MarkSweep` takes an object as rooted as soon as its program knows it. What stands behind
that is a discipline of the C code: a C variable is no root, so that whatever an operation
allocates must be on the stack, or in the function of a `Compiler`, before it allocates again.
`Rooting` has each operation as the sequence of its steps on C variables, `todo`; `grow` and
`new` are the steps that allocate, and before each of them `Collect` may take all that
the machine and the compilers do not reach. `InUseLive`: what the steps that are left will read
still exists, and so does everything reachable. Operations begin as long as the stack has
room for what they push (`StackMax`), which the code does not check. The comments at `chunk.c:95`,
`compiler.c:446`, `vm.c:840` and `object.c:118` each defend one place; the run has a mutant for
some of them and shows that all of them together are enough. `OP_CLOSURE` captures none, one
or two variables (a bound of the model): slots of the frame, the one the closure itself is in among
them, or upvalues of the function around.

One place has no comment. `compiler_init` holds the new function in nothing but a C variable
while it makes the function's name (`compiler.c:282`). It is safe because the name has just
become a constant of the enclosing function, so that `StringObj_construct` finds the string
and allocates nothing (`BeginFunction`, and its mutant `BeginFunctionUnnamed`).

### Scanner, Expressions, Grammar

`Scanner` has an action for a round of `skip_insig_chars` and one for each kind
of token; characters are classes (three letters, of which two spell the keyword `or`, a
digit, each punctuation mark, the end of a line). `TokensAreLexemes` compares each
token with the longest lexeme that a declarative definition allows at that
place, `LinesCounted` the line of each with the ends of line before it.

`Expressions` has one operator for each parse function, which takes the parser
(tokens read, code emitted, panic) to the parser after it. `Grammar` defines from the
levels of precedence alone all the ways to divide tokens into an expression, and the code of
each. `ParsesExpressions`: what is accepted is an expression and its code is
that of the grammar, and what is not an expression is refused, nor is a call with
`MAX_CALLARGS` arguments or more. `ParserAdvances`: every statement,
right or wrong, takes tokens away, so that error recovery cannot loop. The first sets aside
the texts of `Stray`, where the code differs from any grammar (section 5).

### Resolution

*State.* `chain` is the list of `Compiler`s through `enclosing`, each with
`locals`, `upvals`, `scope_depth`; `inside` is the nest of class bodies and blocks
it is in (the code keeps it on the C stack and in `ClassCompiler`s).
`emitted` holds the instructions of the last step, `failed` an error. The fields
`of` of an upvalue and `used` of a local are history: the variable that the
name meant when the descriptor was made, and whether an inner function uses it.

*Actions.* Begin and end of functions, methods, blocks and classes with and
without superclass, declarations, uses of names, `this` and `super`, with
`resolve_local`, `resolve_upval` and `add_upvalue` through any number of
functions.

*Properties.* `DescriptorsDenote`: following an upvalue's descriptors outwards
leads to the variable that the name meant. `CapturedOnce`, `CapturedIffUsed`
and `NamesMeanInnermost`, where `Meaning` is defined from the scopes alone.

### Codegen, Source, Execution

A program is a tree of statements. `Codegen` folds the compile functions over
it: each takes the `Compiler` record to the record after it, and emits jumps
with placeholders that are patched later, as the code does. Instructions have
length one; an expression is one instruction, named by its place in the tree.
`Source` gives the same trees a meaning without code: a list of things to do and
the variables in scope, where leaving a block removes its variables however it
is left. `Execution` picks a program, compiles it, and runs code and source in
lockstep, with the same choice of each condition's truth.

`FollowsSource`: control is where the statements say, a name read is the
innermost variable of that name, and the code returns when the statements are
done. `StackMirrorsScopes`: between expressions the stack holds the
variables in scope, each in the slot that the compiler gave it. `OpenInScope`:
upvalues are open for exactly the captured variables in scope.

`AcrossLocals = FALSE` restricts the programs to those where `break` and
`continue` leave no block that has locals; section 5 says why.

### Opcodes, Chunk

`Opcodes` has the opcodes by their numbers (a long form is the number after its
short form) and the operands of each. `Chunk` appends what `emit_const`,
`emit_byte`, `emit_jump`, `patch_jump`, `emit_loop` and the closure's
descriptors write, byte by byte, with the constant pool's size and the
run-length table of lines. `CodeReadsBack`: what `run()` decodes at each
position is the instruction that was meant. `LinesKept` looks each byte's line
up as the code does. `DisassemblerFollows` says the same of `disassemble_inst`,
for code without the long forms that it gets wrong (section 5).

## 3. The runs

| Run | Instance | States | Shows |
|---|---|---|---|
| `upvalues_cells` | three programs. *nested*: a function that captures a block's local, and one in it that captures its parameter and, through it, that local; *sibling*: two functions that capture overlapping locals of a block, one out of stack order; *prompt*: two lines, errors between them, closures kept in a global. 7 slots, 3 frames, 5 upvalues and variables | 176,000 | types, the list of open upvalues, complete closures, one cell for each variable, lexical scoping |
| `calls_prompt` | a class, a subclass with `init(x)` and an overriding method, a function, a native, one instance, one global; one declared and one captured local at a time; 6 slots, 3 frames, two lines | 320,000 | the stack matches the code, receivers fit, methods are the nearest, activations are private but for captured locals |
| `marksweep_heap` | four objects of all kinds but bound methods and natives; 2 roots, 4 references | 649,000 | safety and the atomic collector |
| `marksweep_instances` | three objects: instances, bound methods, closures, upvalues; no symmetry | 534,000 | bound methods, and that collections end |
| `data_parts` | two tables, three keys that collide at every capacity or only while small, capacities 2 to 8; four strings with contents that collide; every pair of values, boxed and tagged; operations that allocate, on strings, on closures, on a function within a function, and on two classes with an instance, memory for up to four strings, three functions, closures and upvalues, and two of the other kinds | 521,000 | tables are maps, one string for each content, boxes are values, no collection takes what is in use |
| `compiler_parts` | texts of up to 3 characters of all classes and 6 of some; statements of up to 4 tokens of all kinds and 7 of some, calls with arguments up to the limit and beyond; names a, b with 3 functions, 3 locals and scopes each and 2 upvalues; 6,778 programs; 3 instructions behind 254, 256 or 65,999 constants | 626,000 | the way from characters to bytes |
| `upvalues_after_error`, `upvalues_maker`, `calls_this`, `execution_across`, `chunk_invoke`, `marksweep_names` | as above | | the findings of section 5 |

In `compiler_parts` and `data_parts` a behaviour belongs to one of the parts and leaves the
variables of the others alone; the parts are independent questions, each stated
of its own module.

*Why the bounds are enough.* The errors these properties are after need few
parties: two captures to be out of order, three for an insertion between two;
a chain of two functions for a captured upvalue; a second frame for a return
and a third for a method called from an initializer; a list of three objects for the
head, the middle and the end of a sweep, four for a closure that holds its
function and an upvalue with a value; two expansions for a table whose entries
moved twice; a text of six characters for a comment with a line end in it; an operator on
each side of another for associativity; one constant on each side of 256. Every
property has a mutant that the same run catches. `JumpMax` is 12 in place of
65,535, so that both checks of a jump's distance are met, and `MAX_CALLARGS` 3 in place of 255.

*Constraints and views.* `Within` bounds slots, variables and operands on the stack, and
lets closures escape to a global only in the program about the prompt; `FewOperands`,
`FewStored` and `NotFull` bound operands, the values kept in fields, globals and closed
upvalues (one, a captured local counted in), the locals declared and captured (one each),
and stop at a full stack; `Small` bounds the references of a heap; `Few` the locals and
nesting of names; `CasesBounded` the garbage, values, constants, closures and upvalues
between the operations of `Rooting`. Views identify states that differ only in names of
upvalues and variables or in what no instruction reads (garbage; in a file, slots above the
top; the instructions of the last step). Symmetry is used for objects, owners, values and
strings, never in a run with a liveness property that concerns them.

*Deadlock* is checked everywhere: where a program ends, the model has a step
that changes nothing.

*Fairness.* `FairSpec` of `MarkSweep` has weak fairness of the collector's
steps: `collect_garbage` is one call that nothing suspends, so once begun its
steps are taken. `MCSpec` of `MCCompiler` has it of the scanner's steps, which are the
rounds of loops that nothing suspends either. No fairness is assumed of
the program: that it ever collects, returns or terminates is not promised.
The parser's progress is an action property and needs none.

## 4. What is proved

The assumptions are the named `ASSUME`s of the modules: bounds of at least one
frame and two slots, markers distinct from values, and of the code only what
the compiler emits by construction (an enclosing upvalue exists in the
enclosing function). Numbers of slots, frames, functions, upvalues, lines,
scopes, names, classes, methods, objects, kinds and instructions are arbitrary. Of a table the proofs
assume that `Null` is neither a key nor a value, that the first capacity is at least 2, and
that hashes are natural numbers: keys, contents, values, owners and the hash function
are arbitrary, and so is how many keys collide. Of a chunk they assume that the limit of the
pool and the numbers of locals fit in four bytes, the limit of jumps in two, and counts of
arguments in one (`ChunkAssumption`); of a text, that it is a sequence of characters without
the one that ends it (`ScannerAssumption`). Of `Rooting` they assume that the number of
objects of each kind and the height of the stack are natural numbers (`RootingAssumption`). The theorems about
`Calls` assume `Steady` as well: of the three things in `Strays` a program may at most
name a `super` method that does not exist. Without `Steady` they are false: `calls_this` and
section 5 say how.

| Theorem | Says |
|---|---|
| `UpvaluesProofs!Typing` | `TypeOK` of `Upvalues` always holds |
| `UpvaluesProofs!Completeness` | `ClosuresComplete` always holds |
| `UpvaluesProofs!Sorting` | `OpenSorted` always holds |
| `UpvaluesProofs!Listing` | `OpenIffListed` always holds |
| `UpvaluesProofs!LiveSlots` | `OpenLive` always holds |
| `UpvaluesProofs!Sharing` | `OneCell` always holds |
| `UpvaluesProofs!Finality` | every step satisfies `ClosedForGood` |
| `UpvaluesProofs!Scopes` | `Upvalues` implements `Variables`, up to the first error |
| `MarkSweepProofs!Typing` | `TypeOK` of `MarkSweep` always holds |
| `MarkSweepProofs!Safety` | `NoDangling` always holds |
| `MarkSweepProofs!Clearing` | `MarksCleared` always holds |
| `MarkSweepProofs!Collecting` | `MarkSweep` implements `Heap` |
| `ResolutionProofs!Typing` | `TypeOK` of `Resolution` always holds |
| `ResolutionProofs!Denoted` | `DescriptorsDenote` always holds |
| `ResolutionProofs!CapturedAtMostOnce` | `CapturedOnce` always holds |
| `ResolutionProofs!CapturedExactly` | `CapturedIffUsed` always holds |
| `ResolutionProofs!Innermost` | every step satisfies `NamesMeanInnermost` |
| `CallsProofs!Typing` | `TypeOK` of `Calls` always holds |
| `CallsProofs!Heights` | `StackMatchesCode` always holds |
| `CallsProofs!MethodsFit` | `ReceiverFits` always holds |
| `CallsProofs!SuperOnInstance` | `SuperReceiver` always holds |
| `CallsProofs!MethodsAreNearest` | `MethodsNearest` always holds |
| `CallsProofs!MakersYield` | every step satisfies `ConstructorsYield` |
| `CallsProofs!ActivationsImplemented` | `Calls` implements `Activations`: a waiting activation changes in captured locals only, one at a time |
| `DataProofs!SpaceIsFree` | `FreeSpace` of globals, fields and methods always holds |
| `DataProofs!MapsImplemented` | `Tables` implements `Dictionary` |
| `DataProofs!Findable` | `StringsFindable` always holds |
| `DataProofs!EntryIsValid` | `EntryStaysValid` always holds |
| `DataProofs!InternsStrings` | `Interning` implements `InternPool` |
| `RootingProofs!RootingInvariant` | the invariant behind the next |
| `RootingProofs!InUseStaysLive` | `InUseLive` always holds |
| `ScannerProofs!LinesAreCounted` | `LinesCounted` always holds |
| `ScannerProofs!ScansLexemes` | every step satisfies `ScansText` (`TokensAreLexemes`) |
| `ChunkProofs!SpecMeant` | the invariant behind the next three |
| `ChunkProofs!CodeIsRead` | `CodeReadsBack` always holds |
| `ChunkProofs!LinesAreKept` | `LinesKept` always holds |
| `ChunkProofs!DisassemblerKeepsStep` | `DisassemblerFollows` always holds |
| `DataProofs!SpecBoxing` | what the stack has are values, the same in both representations |
| `DataProofs!BoxesAgree` | `BoxedAsTagged` always holds |

*Upvalues, types.* `TypeOK` is not inductive: `OP_GET_UPVAL` follows
`closures[f][i]`, which must be an upvalue and not an empty entry. The invariant
`Typed` therefore joins the types with completeness: a function whose closure
is on the stack, in the global, in a frame or in a closed upvalue, and that is
not being filled, has every entry; and an `OP_CLOSURE` under way has filled
the entries before its descriptor. `NextTyped` has one step per action;
`CaptureTyped` and `CloseTyped` carry the two helpers.

*Upvalues, the list.* `Linked` is `OpenSorted` and `OpenIffListed`, and needs
`Typed`. Neither half is inductive without the other: the walk of `close_upvalues`
stops at the first lower slot, which finds all upvalues above only if the list
is sorted (`CloseEffect`), and an insertion keeps it sorted only because the
upvalue that is reused or made points into the stack (`CaptureEffect`).

*Upvalues, the cells.* `OpenLive` and `OneCell` speak of executions without an error so
far, and so does the invariant `Cells`. A captured slot is in use and has a variable
(`CapturedLive`), no variable has two slots (`OneSlot`), the callee's slot separates the
frames (`FramesApart`), an open upvalue points to the captured slot of its own
variable (`OpenInUse`), no two upvalues have the same variable (`OneUpvalue`), and that of a
closed one has left the stack (`ClosedAlone`). What keeps the last two is that a slot
leaves the stack uncaptured or through `close_upvalues`: `CutCells` has the shape
that returns and scope ends share, `CaptureCells` the search of the list. For the
refinement the cell of a variable is its slot as long as it has one, then the
copy in its upvalue; that there is exactly one of them in every state is what makes an
assignment through a slot or through any closure the same abstract assignment.
`ClosedForGood` holds after errors too and needs only `Typed` and `Linked`.

*Tables.* `Fine` says that no key is in two slots, that a search for each key comes to its slot
before any slot that was never used, and that `count` is the number of keys;
`Loaded` that the load factor is kept. Where nothing is deleted the
two leave a slot free. The loops of `table.c` (`table_expand`, `table_add_all`,
`table_remove_unmarked_object`) are recursive functions of the slot, and `UpTo` proves
what each round keeps, as a least round that does not would have to follow one
that does. `Binds` is what a table maps, and `HasMoved`, `HasAdded` and
`HasVisited` say what the rounds so far have done to it. A setting then is a
step of `Dictionary`, and `OP_INHERIT` copies the whole map.

*Interning.* Here entries are deleted while another is remembered, and a table may be full of
keys and tombstones: there need not be a free slot, and a search may end nowhere. What
makes the remembered entry right is stronger than `EntryStaysValid`: as no string equals
the one under construction (`Awaited`), its search passes every key and every
tombstone, so it remembered the first slot that was never used or nothing at all
(`Remembered`). A collection makes tombstones and no unused slots, so that entry stays; and
the entry is filled only by the string that waits for it. With `Present` (the
table has the strings that exist, but for the new one) and `Unique` each step maps
to one of `InternPool`, where the steps of `StringObj_construct` before the last are stutters.

*Scanner.* The invariant `ScannerInv` is little more than `LinesCounted`: the place is within the
text, and after a comment without an end it is the end of the text. The work is in the tokens.
`Begins` and `Kind` say which types of lexemes may begin with a character, and for each kind a lemma says
that what `String`, `Number`, `Word` and the others stop at is the end of the longest one: a
string ends at the first quote or end of line (`StringLexeme`), a longer number would need a dot
and a digit where the scanner saw none (`NumberIs`), and a longer word a letter where there is none
(`WordIs`). `NewlinesAdd` lets the line be added up piece by piece. `LeastOf` is why `Find`
finds something.

*Chunk.* `CodeReadsBack` is not inductive: that an instruction is read back says nothing of
its bytes once `patch_jump` writes into them. `Meant` therefore says for each instruction
that its bytes are the coded form of what was meant (`Coded`), that it has room before the
next, and that the constants of closures differ, since it is from the constant that the
machine learns how many descriptors follow. `SumOfDigits` is the arithmetic of `read_bytes`,
`Reading` and `Disassembling` follow the readers through each form, `Writing` shows that an
instruction appended keeps all this and disturbs nothing before it, and there is a lemma for
each way to write one. `PatchJumpKeeps` is about the two bytes that `patch_jump` changes.
`Ordered` and `Lined` (positions ascend, and each entry of the line table lies in the
instruction whose line it has) give `LinesKept`. An instruction behind an error is not read,
so `Meant` holds only until one is reported, as the two properties do; `LinesKept` holds
always.

*Boxing.* `ValueAgrees` is about each value a program can have, and the invariant is that the stack has
no others. It holds because a comparison or a negation gives the same truth in both representations
(`SameEqual`, `SameFalsey`), whatever the height of the stack.

*Rooting.* `InUseLive` speaks of reads that are still to come, so an inductive invariant has
to know why they are safe. `WellFormed` says that nothing the state refers to has been
freed. Beside it, `IInv` says that the list of steps that are left is `Safe` from some
annotation that holds in the state. An annotation is what the operation knows between two of
its steps: how high the stack is, which C variables have a value, which of them hold an
object, and by what each is kept: it can be reached from elsewhere (`reach`), it is in a
slot (`on`), it is the function of a `Compiler` (`comp`) or a constant of one (`const`).
`After` says how each kind of step turns one annotation into another, and that where a step
allocates all that is needed later is kept (`Rooted`); a list is `Safe` if it can be
annotated to its end. The proof has three parts. First, each kind of step does to the state
what `After` says (`MoveSafe`, `StoreSafe`, `CompileSafe`, `QuietSafe`, `AllocateSafe`), and
a collection frees nothing that an annotation with `Rooted` knows (`CollectSafe`); for that,
`Followed`, the loop of the collector, is shown to compute the least set with the roots that
is closed under references (`FollowedIs`: it ends, since there are finitely many objects).
Second, each list of steps is safe: `SafeAllocation`, `SafeConstruct`, `SafeAddConst` and
`SafeEndCompiler` are about the functions that operations share, with the two ways a search
for a string may end (`SafeChoice`), and there is a lemma for every operation; `SafeRun` is
about `OP_INHERIT`, whose list is as long as the superclass has methods, and `SafeCapturing`
about one descriptor of `OP_CLOSURE`, whose upvalue, whether found, made or taken from the
function around (`UpvaluesExist`), is kept by the closure on the stack before the next one
is made. Third, each operation begins where the annotation of its list holds: what it takes
from the stack, the constants or a class can be reached (`PeekIs`, `FrameIs`,
`MethodsReach`), and the function it compiles is that of the current `Compiler`
(`CompilingIs`). `SafeBeginFunction` is where the name that `compiler_init` makes a second
time is safe only because it is a constant of the `Compiler` around it.

*MarkSweep.* `IInv` has one part for each phase. Before a collection all marks are clear and
every reference from an object, root or string leads to an object (`RunOK`). While tracing,
marked objects are reachable, roots are marked, and a marked object that is no longer in the
worklist refers only to marked ones (`TraceOK`): when the worklist is empty, marked is the
same as reachable. While sweeping, what the cursor has passed is unmarked, and what was kept
or will be refers only to such objects (`SweepOK`). That an object is cut out of the list
and nothing with it is `UnlinkedIsRemoveAt`, for which the invariant has `prev` as the place
before the cursor. `Safety` and `Clearing` follow. For `Collecting`, the objects that count
as live during a sweep are `Kept`, so that `PurgeStrings`, which ends the tracing, maps to
the atomic collection, the other steps of the collector leave the abstract state as it is,
and each step of the program maps to an allocation or a mutation.

*Resolution.* The invariant is a statement about any chain of compilers, and so is the
recursion of `resolve_upval`, which walks a part of it. `Sound` has, beside the three
properties, the shape that makes `this` and `super` work (`Shaped`): a class is the
innermost construct of its function, slot 0 is called `this` exactly in a function directly
inside a class, `super` is the last local of the function that has the
subclass's body, and every construct has its scope. Without the shape `Denoting` is not
inductive, because a scope that ends might take a variable away that an upvalue means. The
heart is that walking outwards by name finds the same variable as the scopes do,
and that a descriptor added on the way back is either new or the one that is there.

*Calls.* `StackMatchesCode` speaks of the running frame only, and says nothing of the frame
a return comes back to; `Placed` therefore has the place and the height of every frame, the
slot in which each waiting frame expects its result, and that frames lie one above the
other. `ReceiverFits` is not inductive either, because a method may be called long after its
receiver was bound: `Filled` has the receiver of every frame, and that each copy of `this`
that the code pushes is still slot 0; `Layout` lets only *good* values be on the stack, in
fields and in globals, which are those whose bound methods go together with their receivers,
and never a method's bare closure. `Classes` keeps what the tables of methods mean while
superclasses are still being declared: a class under declaration has no subclass yet, so
that a method added to it changes no other class's. `NextSteps` then sorts all steps into
those inside an activation, calls, returns, errors and lines of the prompt; `MakersYield`
and the refinement follow from the sort and the layout: `Parts` cuts the stack at the
frames, `CallSplits` and `ReturnJoins` show that a call and a return move exactly the slots
that `Activations` moves, and `KeptParts` that all other steps leave the lower parts as they
are, but one: `SetUpvalue` writes a slot of any frame. That slot lies in exactly one part,
above the callee's, whatever frames are on top of it (`PartLength`, `AssignedParts`), and it
is one the abstract specification has as shared: `SharedInside`, `SharedEntered` and
`SharedReturned` follow the captured locals through declarations, scope ends, calls and
returns.

*Only model-checked.* `ParsesExpressions`
and `ParserAdvances` of `Expressions`, and `FollowsSource`, `StackMirrorsScopes` and `OpenInScope` of
`Execution`, whose tokens, grammars and statements are recursive data types (`RECURSIVE` operators
are outside the reach of the prover, as is induction over trees, while what a loop over numbers keeps
can be proved by a least counterexample); `CollectionEnds` and `ScannerFinishes`, since liveness
under fairness is outside it as well.

## 5. Findings

Runs that expect a violation document these, and `PROJECT.json` quotes what the
code says of itself.

* *A loop's `break` or `continue` out of a block with locals*
  (`execution_across`): the jump skips the pops, and the compiler's slot
  numbers are off from there on.
* *A closure declaration run twice* (`upvalues_maker`): both results are the
  one `ClosureObj` constant, and the second run rewrites what the first captured.
* *A closure kept across a runtime error at the prompt*
  (`upvalues_after_error`): its open upvalue refers to a slot that later lines
  reuse.
* *An assignment to `this`* (`calls_this`) compiles, and `OP_GET_SUPER` then meets a
  receiver that is not an instance, against its own assertion.
* *A method call behind the 256th constant* (`chunk_invoke`): the operand of
  `OP_INVOKE` is cut to a byte, and another constant is taken for the name.
* *The name of a class* (`marksweep_names`) is not marked.

Met while reading, without a run of their own, because no line of the repository
promises otherwise or because nothing checked depends on them:

* *Machine.* A class without `init` called with arguments leaves class and arguments on the stack
  (`vm.c:267`); a missing `super` method is reported through a variable without a value
  (`vm.c:855`, `896`); an assignment to an undefined global defines it and then
  reports the error (`vm.c:525`); a failed `OP_INHERIT` leaves the class defined without
  methods; `class A < A` is accepted; `runtime_error` reports the line of the
  next instruction; the comment at `vm.c:690` leaves the pushed value out; `0/0 == 0/0`
  is false with doubles, although `value.c:10` says true; `vm.h:50` calls the open list
  ascending and it is descending (`OpenSorted`); `vm.h:94` says breadth-first and `gc_pop`
  takes the last object pushed.
* *Compiler.* `(x) = 1`, `-x = 1`, `!x = 1`, `f() = 1`, `a or b = c` and some more are
  accepted, because the check of the target looks at the last operator and not at what was
  parsed; a `!` in the place of an operator (`1 !2`) has no rule to call: these are `Stray`
  in `Expressions`. `patch_jump` refuses a distance that `emit_loop` accepts; `class_declaration`
  uses short forms for fewer constants than the others; `add_local` has no limit,
  and `add_upvalue` checks its own before it looks whether the upvalue is
  there; `OP_INVOKE_LONG` is never emitted.
  When the pool of constants is full (`chunk.c:92`), a function's name is not kept by it, and what
  `compiler_init` relies on (`Rooting` above) fails; the program has been refused by then.
* *Scanner.* `/*/` is a closed comment; `Token.length` has eight bits.
* *Disassembler.* It steps over `OP_CONST_LONG` and the long invocations by the wrong
  number of bytes and takes the descriptors of `OP_CLOSURE_LONG` for instructions.

## 6. What could come next

* The parser as recursive functions over a measure of what is left of the text, so that `ParserAdvances`
  could be proved by a least counterexample as well.
* That the scopes of `Codegen` keep the numbers of locals that `StackMirrorsScopes` reads, for one statement
  after another in place of whole programs.

## 7. Not modelled

Printing and the text of the disassembler, reading of files and lines, number formatting and
the arithmetic of numbers (which reads and writes operands and touches nothing else), hashing (any
function of the content), the C stack, addresses and pointer arithmetic (slots
and indices stand for them), memory exhaustion (`exit`), the byte count that decides when
to collect. Growing arrays (`value_arr`, the bytecodes) are sequences. The stack's
limit is a bound of the models and not a check of the code: `vm_stack_push` has none.
