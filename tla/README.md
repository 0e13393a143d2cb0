# A verification of the LLFPL interpreter

LLFPL is a small functional language; this repository is its interpreter in C.
A module is a sequence of directives. `Identity` binds a value, `Slab` reserves
an arena, `Map` declares a template, `Require` loads another module, `Commit`
evaluates an expression and prints its value. Expressions are evaluated straight
from the source text by recursive descent, on a bank of 1..16 virtual registers
that deep expressions reach by wrapping modulo the bank, with a spill stack for
what they displace. Everything is one thread, with fixed tables and no heap
allocation during evaluation.

This directory holds TLA+ specifications of that program, the TLC configurations
that check them on small instances, and TLAPS proofs. Paths below are relative to
`src/`, the root of the repository.

## 1. Inventory

| Component | Where | State | Operations | What makes it correct |
|---|---|---|---|---|
| Lexical scanner | `src/frontend/lexical_scanner.c` | a cursor on a bounded text | next, peek, peek_second, snapshot | never reads past the end; a copy is independent |
| Template segment | `src/frontend/template_definition.c` | 256 definitions, name index, body snapshots | define, lookup | a definition is visible only when complete; body skipping ends where evaluation will end |
| Symbol table | `src/runtime/symbol_table.c` | 1024 slots, chains, cellar cursor | bind_span, resolve_span | immutable bindings; every bound name resolves, whatever collided |
| Primitive reductions | `src/runtime/primitive_reduction.c` | none | apply, latency | total on all doubles |
| Expression evaluator | `src/runtime/expression_evaluator.c` | C call stack, depth counter | expect_atom, evaluate | the value is the one the text means; no live operand is lost; every exit restores |
| Special forms | `src/runtime/builtin_operation.c` | none of their own | Branch, Loop, write_offset, read_offset | bounded iteration, checked offsets, exact selection |
| Register file | `src/hardware/vector_register_file.c`, `.h` | bank, dirty mask, spill stack, cycles | write, read, push/pop spill, charge, synchronise | spills nest; what is published is current |
| Hardware topology | `src/hardware/hardware_topology.c` | probed sizes | probe | 1..16 registers |
| Arena registry | `src/memory/memory_arena.c` | 64 named byte arrays | reserve, lookup, store, load | no access outside the capacity; names unique |
| Directive processor | `src/interpreter/directive_processor.c` | none of its own | the five directives, execute_module | declarations are all-or-nothing; the first failure stops the module |
| Module loader | `src/interpreter/module_loader.c` | search directories, loaded paths | resolve, is_loaded, mark_loaded | each module executes once, cycles end |
| Source mappings | `src/memory/source_file_mapping.c` | mapped files | open, release | a mapping outlives every snapshot into it |
| Session | `src/interpreter/interpreter_session.c` | owns all of the above | create, execute_source_file, destroy | partial construction is undone |
| Diagnostics, status codes, clocks, paths, numeric conversion, CLI | `src/core`, `src/cli` | error count | report | one diagnostic per defect |

Components interact by direct calls only: the session runs the directive
processor, which runs the evaluator, whose handlers call it back recursively.
They share the `LlfplExecutionContext`: register file, arenas, symbol table,
templates, reporter. The error count of the reporter is the one failure flag that
every layer reads.

There are no threads, signals or persistence. What is hard is (a) re-entrancy: a
handler stands in the middle of its argument list while arbitrary code runs below
it on the same registers, arenas and error count; (b) unwinding a failure through
an arbitrary nest of such handlers; (c) limits and boundary values.

## 2. Modules

`Binary64.tla` is IEEE 754 arithmetic in miniature: a sign and a magnitude
counted in quanta, with fractions, signed zeros, overflow, infinities and NaN;
two bytes store a value, so that overlapping arena accesses tear one. NaNs are
one value (sign and payload merged) and inexact products are truncated.

`ExpressionEvaluator.tla` is the evaluator together with the special forms, the
register file and the part of module execution that `Commit` needs. The C call
stack is explicit:

| C | TLA+ |
|---|---|
| an unfinished call of `evaluate_one_expression` and the handler it dispatched to | a record of `activations`; `stage` is the place in the handler's argument list (`Steps`), `operands` its local values |
| the program counter | `control` |
| the module's scanner | `text`, the atoms read so far; the next one is chosen nondeterministically, so a run covers *every* text of the vocabulary up to a length, ill-formed ones included |
| body scanners copied from a template's snapshot | `body_scanners` |
| a call of `llfpl_expression_evaluator_evaluate` | `callee`, then `RefuseEvaluation` or `EnterActivation`; its return is `LeaveActivation` |
| `LlfplVectorRegisterFile` | `register_values`, `spill_stack_values`, `dirty_register_mask`, `retired_cycle_count`; `silicon` is what the last publication put in the architectural registers |
| the reporter's error count | `reported_error_count` (`HasFailed`) |
| arenas, result stream | `arena_bytes`, `committed_values` |

In every call of the source the first scratch register is the destination plus
one, so only the destination is kept. Logical indices are 16 bits wide in C; a
form raises them by at most three per level and the depth limit is 512, so they
stay below 1540 and no width is modelled. Templates, identities and arenas are
constants: within one Commit nothing declares.

`EvaluatorMeaning.tla` is the reference semantics: what a text does to an immutable
machine, with no registers, spills, shared scanners or call stack, and the
invariant `OutcomeIsMeaning` that compares the two after every directive. Its four
recursive functions (`Repeating`, `Finishing`, `Evaluating`, `Executing`) are functions
of the iterations, arguments, depth or directives still allowed, so that they can be
proved about.

`SymbolTable.tla` is `symbol_table.c`, one action per record a call touches. A
call is a `request`; `control` is the place in `bind_span` or `resolve_span`,
`chain_slot` the record the walk has come to, `outcome` what was returned.
`records`, `next_in_chain` and `next_cellar_slot` are the fields of the slab. The
hash is a constant function from names to homes, so nothing depends on FNV-1a; a
name too long to be stored is one outside `StorableNames`.

`IdentityBindings.tla` is its abstract specification: immutable bindings of names
to values, each call one step. `SymbolTable` implements it (`Implements`), with
the number of names that always fit as a parameter.

`ModuleExecution.tla` is everything that happens between modules.

| C | TLA+ |
|---|---|
| an unfinished call of `execute_module` | a record of `modules`: its path and the directive it has come to |
| a call about to be made, a call that returned | `control` = `"enter"` with `callee`, `control` = `"return"` with `status` |
| `LlfplModuleLoader`, `LlfplSourceFileMappingRegistry` | `loaded_module_paths`, `mappings` |
| the mapped text | `contents`: the directives read so far; the next one is chosen when it is first read and stays, so a run covers every assignment of texts to files |
| `Require` | `RefuseRequire`, `SkipRequire` or `FollowRequire`; the rest of the handler is `execute_module` |
| `Identity`, `Commit` | `Declare`, `Commit`, `RefuseDeclaration`: a name is declared once and used afterwards |
| a directive after an error (`expect_atom` refuses silently) | `AbandonDirective` |
| `llfpl_interpreter_session_execute_source_file` | `ExecuteSourceFile`, at any time and up to `MaximumExecutions` times, and `FinishExecution` |

The file system is constant: `Entry` says which file a specification names from a
directory, `MappableFiles` and `EmptyFiles` which ones open. A failure of `open`,
`fstat` or `mmap` is a file that is not mappable, a text that is no directive or
is ill-formed is `RefuseText`.

`ModuleInclusion.tla` is the reference semantics of `Require`: a program is a text
that is rewritten from its front, where a `Require` becomes the text of the module,
or nothing if that occurred before; there is no stack, and nothing returns.
`OutputIsInclusion` compares what is left of it after as many steps as there are
places in the texts with what a session did.

`AtomText.tla` is the scanner as declarations see it: atoms that are settled when
they are first looked at, one or two ahead of the cursor; a literal carries its value.

`TemplateSegment.tla` is `Map`, atom by atom: the look-ahead that tells parameters
from a body, the snapshot, the search for the end of the body, the definition that
is cleared and written before it counts, the probed index of names.
`TemplateDeclarations.tla` is its abstract specification: a grammar says which
texts declare which template, and a declaration is complete or absent.

`Declarations.tla` is the directive loop over the atoms of a module with `Identity`
and `Slab`, every `expect_atom` a step, in a session that executes module after
module. An expression is one atom, a literal with its value or the name of an identity.
The symbol table and the arena registry are
there as what `IdentityBindings` and `ReservedArenas` promise.

`MemoryArena.tla` is the arena registry with the aligned allocation below it, on a
memory of addressed bytes with foreign blocks in it, where sizes wrap at
`WordSize` and any allocation may fail. `ReservedArenas.tla` is the abstract
specification: named extents that do not change.

`InterpreterSession.tla` is who owns what: every handle the system hands out, the
pointer that holds it, every request that may be refused and what a refusal
undoes, and the teardown in its order. A handle that was given back may be handed
out again at once, so a double release or a forgotten pointer shows.

`LexicalScanner.tla` is the scanner character by character, one character of each
kind it tells apart, with the line and column it keeps; and the path of a
`Require`, which the directive takes from the characters while it advances by
atoms. `ModulePaths.tla` is the search for a module on the characters of bounded
paths, which `ModuleExecution` has with atomic paths. `realpath` is external: it
follows names in a tree of places, without links.

`CommandLine.tla` is one run of the program: its arguments one by one, the search
directories of the session, registered one by one in two loops, the exit status. `CommandLineMeaning.tla` says what a
command line means by all of its arguments at once.

The modules compose by what they promise to each other: `Declarations` and
`ModuleExecution` use the table, the registry and the segment through their
abstract specifications; `ExpressionEvaluator` takes identities, templates and
arenas as constants, because nothing declares within a `Commit`.

`MC*.tla` name the vocabularies, collisions, file systems and paths of the runs.
The modules `*_proofs.tla` hold the theorems; two are about two components each, which
is why the state and actions of `ModulePaths` and `CommandLine` have names of their own
(`PathsNext`, `CommandLineSpec`). Definitions named `X_Something` next
to an `X` are plausible bugs of the code `X` models; with one in the place of `X`
a property of a run fails, which is how the properties were tested.

## 3. Runs

| Run | Instance | Shows |
|---|---|---|
| `evaluator` | bank of 2, depth 4, 3 synchronised registers; texts of 13 atoms over `plus`, `Branch`, `Loop` and a template, of 11 over five templates (recursive, with a doubled parameter, spoilt body) and a malformed literal, of 13 over two arenas (one too small for any value) with fractional, negative and overlapping offsets | `SpillNeverExhausted`, `LiveOperandsPreserved`, `BalancedAtRest`, `OutcomeIsMeaning`, `AtMostOneDiagnostic`, `CommittedValuePublished`, `NothingAfterFailure`, `Termination`, types |
| `symbol_table` | 2 homes, 2 cellar slots, 6 names, 4 of which collide, one name too long | `ChainsComplete`, `Implements`, `EveryCallReturns` |
| `template_segment` | any text of 8 atoms over one name, a verb and an overlong name; of 5 atoms over two names that collide around the end of an index of 3 slots; 2 definitions, 1 parameter | `Implements`, `LegalNeverRefused`, `EveryCallReturns` |
| `declarations` | two modules in a session, 18 atoms (three declarations) each; room for one arena, arenas of at most 2 bytes; values 0, 1, 3/2, 3, NaN, infinity | `EffectsAreWritten`, `ReportedOnce`, `LegalNeverRefused` |
| `memory_arena` | memory of 24 bytes, lines of 1, 4 or 6, pointers of 2 bytes, 2 arenas, one foreign block anywhere, sizes 0, 1, 5, 6 around the limit of 5 | `ArenasOwnTheirLines`, `NothingLeaked`, `Implements` |
| `module_execution` | 4 files in 2 directories, 6 specifications (absolute, alias, shadowed, wrong extension), texts of 3 and 2 directives, room for 3 modules, two executions | `EachModuleOnce`, `FailuresReported`, `OutputIsInclusion`, `FailureStopsSession` (of the first execution), `FailedSessionIsInert`, `ExecutionReturns`, types |
| `session_resources` | 2 arenas and 1 source file, 8 handles, probe reports 0, 1, 4, 6, 8, 32 | `NothingLeft`, `OwnedOnce`, `OnlyMemoryRefused`, types |
| `module_paths` | paths of up to 4 of the characters `/`, `.`, `a`, in trees of up to three levels, from any place; buffers of 6 characters; lists of up to two directories | `FirstThatFits` |
| `lexical_scanner` | any text of 5 characters of nine kinds, and of 6 of the six kinds in a number; paths of at most 2 characters and a terminator | `NothingSkipped`, `PlacedExactly`, `PathIsVerbatim`, `LongestToken`, `ReadingEnds` |
| `command_line` | up to 5 arguments of nine spellings, room for 2 directories, 2 discoverable ones | `ParsedAsMeant`, `SearchedInOrder` |
| `branch_exact` | `evaluator` with `Branch` and `divide`, bank of 4 | violated, see below |
| `template_names` | `template_segment` with the name of a directive | violated, see below |

Where a type invariant is not in a run, it is proved: `TypeCorrect` of `MemoryArena`,
`SymbolTable`, `Declarations`, `TemplateSegment` and `LexicalScanner`, `CommandLineTyped`,
`PathsTyped`. What a wrong value would do is the matter of the properties: of a
declaration, `EffectsAreWritten` says that it has the value of its expression, a literal
or an identity, and of an arena that its capacity is a whole number of bytes between 1 and
the limit, and that the registry had room for it.

Bounds. A bank of two wraps at the second level, and further levels put two
occupants of one register on the spill stack, which is the case the restoring
order is about; thirteen atoms are a commit of such a nest and what follows it. The
arithmetic has 16 magnitudes and two quanta per unit: enough for a fraction, an
overflow to infinity and NaN from both. Six by six bytes encode exactly the 36
doubles. The text bounds let every form complete and fail at every argument, and
with templates allow a second commit after a failure. The symbol table is small
enough to fill in every order, and has both ways of being out of room: no cellar
slot left with a home free, and no slot left. Three tracked modules of four files
allow a diamond, a cycle of three, a module that requires itself, and the
capacity error; longer cycles close by the same test. Eight atoms are the shortest
`Map` with a parameter and a body that is an application, with every way to
break off inside it; a definition that failed is overwritten by the next text. Two
declaring modules and three declarations are what it takes to declare after a
failure and to declare a name twice in the same and in another module. A path of
four characters names its parent, itself, a file and a directory with a doubled
separator, and a join of two of them overflows the buffer by one and by more.
Five characters hold a comment, its line break and an atom behind it; six a number
with fraction, sign and exponent. Five arguments hold both directories, one too
many, and the marker that ends the options with an option behind it.

The bounds of the models are `MaximumTextLength` and `MaximumLength` (vocabulary to
bound), `MaximumEvaluationDepth`, `LoopCountCeiling` (iterations above it are cut
as the code cuts at its own ceiling), `MaximumByteOffset`, `MaximumExecutions`,
`MaximumModules`, `MaximumArguments` and the capacities named as in the code
(`LLFPL_...`), which are constants of the code as well.

Deadlock is checked except in the runs of `ModuleExecution`, `Declarations`,
`ModulePaths` and `LexicalScanner`: a session that is not called again, a search
that is over and a source that was read to its end really stop. The evaluator's
halted state and an exited command line loop.

Two runs end in a violation, a disagreement between the code and what is written
about it:

| Run | Written | The code |
|---|---|---|
| `branch_exact` | Branch is exact for selectors one and zero (`docs/language-reference.md:191`) | an infinity in the arm that is not selected makes NaN (`builtin_operation.c:175`) |
| `template_names` | none of the five directives may name a template (`docs/language-reference.md:285`) | `Map` refuses reserved verbs only (`directive_processor.c:283`) |

The modules state further claims the code does not keep. Each is violated under
its module's configuration, with `CHECK_DEADLOCK FALSE`: add it to the `.cfg` as an
INVARIANT or a PROPERTY to see the trace.

| Definition | Written | The code |
|---|---|---|
| `OperandsInspectable` (`ExpressionEvaluator`) | both operands are live in the bank when a reduction is charged (`expression_evaluator.c:112`) | an operand that wrapped has been restored away (`:361`) |
| `RebindIsSemanticError` (`SymbolTable`) | binding a bound name is a semantic error (`symbol_table.h:98`) | in a full table it is a capacity error (`symbol_table.c:130`) |
| `EverySlotUsable` (`SymbolTable`) | 1024 identities per session (`docs/language-reference.md:296`) | colliding names exhaust the 144 cellar slots before (`symbol_table.c:158`) |
| `BodyIsExpression` (`TemplateSegment`) | a template body is an expression (`docs/language-reference.md:317`) | whatever has balanced parentheses is taken (`template_definition.c:99`) |
| `ReservedIsSemanticError` (`MemoryArena`) | re-declaring an existing name is a semantic error (`memory_arena.h:49`) | in a full registry it is a capacity error (`memory_arena.c:88`) |
| `ArenasHoldOneValue` (`MCMemoryArena`) | an arena holds at least one value (`memory_arena.h:64`) | any capacity from one byte is accepted (`memory_arena.c:84`) |
| `LoadedOncePerSession` (`ModuleExecution`) | a module is loaded at most once per session (`docs/language-reference.md:155`) | the entry point does not ask; a second execution loads again (`interpreter_session.c:249`) |
| `EmptyModuleAccepted` (`ModuleExecution`) | a module is any number of directives (`docs/language-reference.md:313`) | a file of zero bytes is an I/O failure (`source_file_mapping.c:60`) |
| `FirstInOrder` (`ModulePaths`) | the first candidate in the documented order is loaded (`docs/language-reference.md:146`) | a candidate that does not fit a buffer is passed over (`module_loader.c:34`) |
| `PathAlwaysVerbatim` (`LexicalScanner`) | a path is taken verbatim up to the closing parenthesis (`docs/language-reference.md:143`) | it is scanned as atoms first, so `--` in it begins a comment (`directive_processor.c:312`) |
| `NoDirectoryDropped` (`CommandLine`) | no limit is enforced by silent truncation (`docs/language-reference.md:306`) | discovered directories past the sixteenth are dropped (`module_loader.c:125`) |
| `ErrorsAreOfLoaded` (`CommandLine`) | status 1: the program was loaded and reported errors (`llfpl_main.c:12`) | also when it could not be loaded (`llfpl_main.c:105`) |

## 4. Fairness

The interpreter is one thread, and each call runs to its end. A step that can be
taken is taken: weak fairness of the whole next-state relation for the evaluator
(`WF_vars(Next)`), of a call's steps for the symbol table and the template segment
(`WF_vars(Step)`), of an execution's steps for modules (`WF_vars(Proceed)`) and of
the reading of a path that has begun (`WF_vars(ReadSpecification)`). Callers are
not assumed to call: a module may hold no further declaration.

## 5. Proofs

All theorems hold for every value of the constants that satisfies the
assumptions the modules name: `FormatAssumption` and `EncodingAssumption` (sizes
of the arithmetic; every bit pattern is a double), `EvaluatorAssumption` (1 to 16
registers, as a static assertion of the topology demands), `DeclarationAssumption`
(no template or arena has the name of a form), `SymbolTableAssumption`,
`ModuleAssumption`, `InclusionAssumption` (finitely many files) and
`SessionAssumption` (types, at least one name, file and
specification; a fallback line size that the constructors accept),
`ArenaAssumption` and `RoundingAssumption` (types; a size and an alignment together
do not wrap: sizes stay below 2^31 by the assertion at `configuration_limits.h:106`,
alignments are 16 bits wide and a `size_t` is wider), `TextAssumption` and
`DeclarationsAssumption` (types, at least one name and literal; an infinity and a NaN
are no sizes), `SegmentAssumption` (more slots than definitions, as the assertion of
half occupancy demands), `PathsAssumption` and `CommandLineAssumption` (below) and `ScannerAssumption` (the classes of characters are
disjoint, as the range tests at `lexical_scanner.c:25` make them).

*Evaluator.* `InvariantHolds` proves `IInv`: the types; `Stacked`, that the depth
counter is the number of activations; `Spills`, that the spill stack has one entry
per activation that wrapped and that destinations do not decrease towards the top;
`Formed`, that a form has exactly the operands of the steps it has passed. None is
inductive alone: popping an activation is type correct only because the stacks
move together, and applying a primitive only because both operands were obtained.
`SpillStackSuffices` follows: as many entries as activations, fewer than the
depth limit, hence room. `PrimitiveTotal` and `EncodingRoundTrip` are about the
arithmetic.

*Symbol table.* `IInv` says of an idle table that chains are complete, names
distinct, records counted, and the cursor above every record (`Fresh`); and of a
call in progress what it knows (`Walking`, `Claiming`, `Probing`): the name looked
for is not among the records it has passed. `ChainsAreComplete` and
`ImplementsBindings` follow: finding the end of a chain is finding that the name
is unbound only because every chain is complete, and a refusal for want of room
happens only with more names bound than there are cellar slots.

*Modules.* `TypeCorrect` includes that unfinished modules are never more than
mappings, nor mappings more than tracked modules, so the registry of mappings is
never the first to be full and the recursion is bounded. `ModulesExecuteOnce`
needs `Once`: what is executing or mapped is recorded, and what is about to be
executed is not. `FailuresAreReported` and `FailureIsFinal` need `Truthful`: while
anything runs no error was reported, and afterwards the status tells of it. The
three speak of the first execution of a session (`FirstExecution`), which is all
the command line does, and hold however many follow; that a second one breaks the
first of them is `LoadedOncePerSession`. `FailedSessionsAreInert` is about all.

*Inclusion* (`ModuleExecution_proofs`, its second half). `RequireIsInclusion` is a
simulation: `Following` says that the rewriting of the program, after some number of
steps, is what the stack of modules has left to do: the rest of the innermost text,
followed by what is behind the `Require` each of the others waits at (`Rests`,
`Corresponds`). Texts are read as they are needed, so this is said of all texts that
complete what was read (`Completes`). Entering a module, passing a directive and
ending a text are one step of rewriting each, following a `Require`, returning and
reading are none, and a failure is the end of the text (`Over`), because what the
loader refuses is what inclusion refuses (`LocatedIs`, `Effects`). The number of
steps is bounded by the places that were passed, none of them twice (`Spent`, `Room`):
that is where each module is executed once, and why the rewriting ends although
modules require each other in cycles. The rewriting is a recursive function on the
naturals; that it is one (`RewritingIs`) follows from the least number as below.

*Session.* `IInv` says that pointers own distinct live handles (`OwnedOnce`), that
every live handle is owned by a pointer the present stage allows (`Owned`,
`Allowed`), and that an opened file has room in the registry (`RoomForOpened`).
`NothingLeaks` follows: when no session exists no pointer may hold anything.
`OnlyMemoryIsRefused` needs that a probe's report is accepted only if every
constructor it is handed to accepts it.

*Unwinding* (`ExpressionEvaluator_proofs`, as the next three). What a failure
leaves to do needs a second invariant, `UInv`, on top of `IInv`: a suspended
activation is at one of its arguments or in its body (`Awaiting`), what is
dispatched is a form or a template (`Dispatched`), there is one body scanner per
activation in its body (`Bodies`), and after a failure one error is counted and
only the punctuation that follows an argument is still expected (`Silent`). The
last part is where the order of steps matters: an argument is always followed by
a separator or by the end of the list (`StepAfterArgument`, proved for templates
of any number of parameters), and an expectation that finds a failure says
nothing. `FailuresReportedOnce`, `FailureHasNoEffect` and `RestoredAtRest` follow
for every nesting depth.

*Results.* `PInv` adds to `IInv` that every expression is
evaluated into the register the one around it asked for (`Chained`), from register 0
of the outermost upwards, and that a value being returned is in its register if that
is one of the bank (`Published`): a destination within the bank did not wrap, so the
restoration on exit writes over nothing. `ResultsArePublished` follows.

*Live operands.* `LInv` says where each live operand is
(`OperandsKept`): in its register while nothing above borrowed it, else in the spill
slot of the outermost borrower. A slot follows from the height of its activation,
because the spilled activations are the topmost ones (`SlotOfSaver`). What keeps it is
that everything nested within a form works above its operands (`Separated`, from
`Chained`), unless it wraps, and then it has saved what it writes over; entering and
leaving are each other's inverse. `OperandsPreserved` follows: no nesting loses an
operand, for every size of the bank.

*Meaning* (its last part). `TextHasItsMeaning` says that what is committed, stored
and charged, and whether a module fails, is what its text means, for every text, set of
declarations, bank and depth limit. `MInv` adds to `UInv` that, of every text that
completes the atoms read so far (`Completes`), the meaning is what is left to do makes of
what has been done (`Understood`). A state stands for a machine (`Now`): the rest of the
text in use, the arenas, the cost and the value. Each suspended activation is a function
of the machine it waits for (`Resumed`: the remaining arguments of its form, or the text
around a body, or the remaining iterations of a loop), and there are machines for the
activations (`Chain`) of which the outermost is the one the Commit waits for and the
innermost what the code at work comes to (`Outcome`). So a step leaves `Outcome` as it is
(`GoesOn`), extends the chain by an activation (`GoesIn`), takes one off (`GoesOut`) or
fails (`GoesWrong`): a failed machine falls through every `Resumed` (`StoppedFalls`) to the
end of the module. Reading an atom moves the scanner of the innermost body and no other
(`AtomTaken`), which is why the suspended ones find their texts where they left them.
Every directive takes an atom of the module, so the directives allowed are enough. That
the recursive functions are functions (`RecursionExists`) is proved once for the four.

*Arenas* (`MemoryArena_proofs`). `IInv` says that live blocks do not overlap
(`Disjoint`), that a visible arena has a storable name and a block that was cut for
its capacity (`Holding`), no two the same (`Distinct`), that a block cut for an arena
is held by one (`Held`), and that the registry counts its names (`Counted`).
`NothingIsLeaked` is `Held` and `Distinct`. `LinesAreOwned` needs the arithmetic of
rounding: a block begins and ends on a line, so blocks that do not overlap touch no
line in common. `ImplementsReservedArenas` maps each check, in the order the code
makes it, to a refusal the promise allows.

*Declarations* (`Declarations_proofs`). What control is about to read tells what the
atoms behind the cursor were (`Placed`), what the value is (`Valued`: that of the
expression, as `Written` says it) and how many errors may have been counted (`Tallied`: after a report only the closing
parenthesis is still expected). `DeclaredAsWritten`, that a declaration takes effect
as a whole or not at all, with the value or the capacity that is written, and
`LegalIsNeverRefused` follow for texts of any length.

*Templates* (`TemplateSegment_proofs`). Every definition is reached from its home slot
by probes that meet no empty slot (`Indexed`), for which there must be an empty slot
beyond the definitions, and names are distinct (`Named`). Of a definition in progress,
`Introduced`, `Collected` and `Skimmed` say what the atoms behind the cursor were, up
to the depth of the parentheses of its body. `ImplementsDeclarations` shows that the
failing definition, although it writes into the slot it would take, changes nothing
that can be looked up, and that the last step of the successful one is the whole
declaration. `LegalIsNeverRefused` rests on `RefusedIsIllegal`: what a failing call
has read is the beginning of no declaration, whatever follows it; the run tries the
completions of `Completions`, the lemma speaks of any.

*Scanner* (`LexicalScanner_proofs`). `IInv` says that lines are counted up to the
cursor (`Counted`), that the last atom is one of the five that `AtomFrom` takes and is
where it says (`Placed`), and that a reader of a path has passed no closing
parenthesis but in a comment (`Reading`). `AtomsArePlacedExactly` needs that no atom
extends over a line break, for the scanner counts lines in what it skips only;
`PathsAreVerbatim` that no atom but the closing parenthesis contains one. For
`LongestTokenIsTaken` the grammar of a text is translated to positions
(`MantissaOfSlice`, `ExponentOfSlice`, `LiteralOfSlice`); what is measured is a
literal (`LiteralIsOne`), and a longer one would need a character the measure did not
stop at (`LiteralsEnd`).

`Skipped` is a recursive function on positions. That it satisfies its equation, and
what follows for every position, is proved without an induction theorem, from the
least or greatest position that would be an exception (`LeastNatural`,
`GreatestNatural`, `SkippedIs`, `SkippedIsInsignificant`).

*Command line* (`InterpreterSession_proofs`, its second half, from
`CommandLineAssumption`: types; what spells an option begins like one, and the empty
argument does not). `CommandLineParsedAsMeant` compares a loop with what all arguments say
together. Its invariant is `Understood`: what was parsed is what the arguments before
`argument_index` mean, and the one at `argument_index` is no value of an option.
That one step keeps it rests on `ValueAfterOption`: whether an argument is a value, which
the meaning decides by the length of a row of bare options before it, is decided by the
argument before it alone; and on `InOrderGrows`, that the directories in order are
one more when the last of their options is added. An argument that decides, decides for
good (`DecidesWhen`). `CommandLineSearchedInOrder` rests on lemmas about `Without`
(`WithoutNext`: one more of a list is kept or left out; `WithoutPart`: what is left is no
longer than the list), for the invariant of the first loop (`Registering`) is that what it
has passed is in the list or reported. That nothing given is refused for want of room
needs the parser's limit, which is the list's.

*Paths* (`ModuleExecution_proofs`, its last part, from `PathsAssumption`: types; a tree
has the root, the working directory and, with each place, the places on the way to it).
`FirstIsFound` compares texts with places: the search cuts and joins texts, and the
promise speaks of the file a path leads to from a directory. Following a path is a fold
over its characters (`FollowWalks`), so a path is followed up to a separator and what is
behind it from where that led (`FollowsOn`, `FollowSlash`). From this come the three
facts about texts: the text of a place leads to it (`TextLeads`), what is cut off behind
its last separator leaves the text of the directory (`DirectoryOfText`), and a joined
path leads where its second part leads from where the first does (`JoinedLeads`). The
invariant, `PathsInv`, says of a search on its way that none of the candidates before
the next could have been found in the buffers (`Refused`). A buffer holds a text and its
terminator, and how long a joined path is differs from place to place: nothing is joined
for an absolute path or within the working directory, nothing is put before a path in `.`
or an empty directory, and no second separator behind one that ends in it (`LengthBefore`,
`JoinedIn`), so the promise is exact to the character. `Refused` is also why a buffer
that is too small skips a candidate and does nothing else. That the recursive functions
of the model are folds (`FoldIsThere`, `FoldIsOne`, `TreeIs`, `StemIsFold`) is proved,
again with no induction theorem.

Only model-checked: liveness (`Termination`, `EveryCallReturns`, `ExecutionReturns`,
`ReadingEnds`), which is beyond the prover. Every other property of a passing run is
stated by a theorem.

## 6. Not modelled

Numeric conversion (`strtod` and the search for the shortest decimal that reads
back) and the monotonic clock have no effect on control; the library of LLFPL
programs, the examples, tests and build files are not the interpreter. Of the
diagnostics only the count is modelled, of the status codes what callers tell
apart, of identifier hashing the length rule and equality: a hash is an arbitrary
function of the name. What the operating system and the processor report about
caches, the place of the executable and the files that exist is chosen
nondeterministically. Help, version, hardware and language texts, the trace and
the summary are wording.

NaN payloads, rounding of inexact results and the 64-bit wrap of the cycle counter
are merged. The embedder's misuse of the interface (null arguments) is left out.
`Map` does not test the error count (`template_definition.c:211`), so
`FailedSessionIsInert` speaks of identities and commits only. Links in the file
system are left out of `ModulePaths`; in `ModuleExecution` two specifications may
name one file.

## 7. Plan

1. `Declarations` with `Map` among its directives, composed with `TemplateSegment`
   in place of what it promises.
2. A file system with links below `ModulePaths`.
