---------------------------- MODULE Declarations ----------------------------
(***************************************************************************)
(* The directive loop on the atoms of a module, with the two directives    *)
(* that declare data: Identity and Slab.  An expression is one atom here,  *)
(* a literal, which stands for whatever has its value, or an identity.     *)
(* The symbol table and the registry of arenas appear as what they promise *)
(* (IdentityBindings and ReservedArenas).  A session executes module after *)
(* module, also after one has failed.                                      *)
(***************************************************************************)
EXTENDS AtomText, FiniteSets

CONSTANTS
    NaN, Infinity,              \* values that are no number of halves
    LLFPL_MEMORY_ARENA_MAXIMUM_SIZE_IN_BYTES,
    LLFPL_MEMORY_ARENA_REGISTRY_CAPACITY,
    GuaranteedBindings,         \* identities that always fit
    MaximumModules              \* bound: modules of a session

ASSUME DeclarationsAssumption ==
    /\ DirectiveNames = {"Identity", "Slab"}
    /\ LLFPL_MEMORY_ARENA_MAXIMUM_SIZE_IN_BYTES \in Nat \ {0}
    /\ LLFPL_MEMORY_ARENA_REGISTRY_CAPACITY \in Nat
    /\ GuaranteedBindings \in Nat /\ MaximumModules \in Nat
    /\ Literals # {} /\ Literals \subseteq Int \cup {NaN, Infinity} /\ {NaN, Infinity} \cap Int = {}

VARIABLES
    control,                    \* what the loop or the directive reads next
    value,                      \* of the last expression
    bindings,                   \* identities -> values
    arenas,                     \* arenas -> capacities
    error_count,
    module_count,
    status                      \* of the module

vars == <<text_vars, control, value, bindings, arenas, error_count, module_count, status>>

Failures == {"SYNTAX_ERROR", "SEMANTIC_ERROR", "CAPACITY_EXCEEDED", "OUT_OF_MEMORY"}
Controls == {"idle", "keyword", "open", "name", "separator", "expression", "close",
             "declare"}

TypeOK ==
    /\ TextTypeOK
    /\ control \in Controls
    /\ value \in Literals
    /\ DOMAIN bindings \subseteq StorableNames \ (VerbNames \cup DirectiveNames)
    /\ \A name \in DOMAIN bindings : bindings[name] \in Literals
    /\ DOMAIN arenas \subseteq StorableNames \ (VerbNames \cup DirectiveNames)
    /\ \A name \in DOMAIN arenas : arenas[name] \in 1..LLFPL_MEMORY_ARENA_MAXIMUM_SIZE_IN_BYTES
    /\ Cardinality(DOMAIN arenas) <= LLFPL_MEMORY_ARENA_REGISTRY_CAPACITY
    /\ error_count \in Nat
    /\ module_count \in 0..MaximumModules
    /\ status \in Failures \cup {"OK", "PENDING"}
    /\ status = "PENDING" <=> control # "idle"

Init ==
    /\ text = <<>> /\ cursor = 1
    /\ control = "idle"
    /\ value = CHOOSE literal \in Literals : TRUE
    /\ bindings = [name \in {} |-> NaN]
    /\ arenas = [name \in {} |-> 0]
    /\ error_count = 0 /\ module_count = 0
    /\ status = "OK"

-----------------------------------------------------------------------------
(* Ends of a step.  A failure ends the directive and the module. *)

HasFailed == error_count > 0

Proceed(next_control) ==
    /\ control' = next_control
    /\ UNCHANGED <<error_count, module_count, status>>

Return(result) ==
    /\ control' = "idle"
    /\ status' = result
    /\ UNCHANGED module_count

Report(result) == Return(result) /\ error_count' = error_count + 1

Declared == UNCHANGED <<bindings, arenas>>
At(place) == control = place /\ Settled(1)

ReadText ==
    /\ control \notin {"idle", "declare"}
    /\ Settle(1)
    /\ Declared
    /\ UNCHANGED <<control, value, error_count, module_count, status>>

-----------------------------------------------------------------------------
(* llfpl_directive_processor_execute_module. *)

ExecuteModule ==
    /\ control = "idle"
    /\ module_count < MaximumModules
    /\ text' = <<>> /\ cursor' = 1
    /\ control' = "keyword" /\ status' = "PENDING"
    /\ module_count' = module_count + 1
    /\ Declared
    /\ UNCHANGED <<value, error_count>>

IsDirective(atom) == atom.kind = "IDENTIFIER" /\ atom.name \in DirectiveNames

ReadKeyword ==
    /\ At("keyword")
    /\ Advance(1)
    /\ \/ Reads("END_OF_SOURCE") /\ Return("OK") /\ UNCHANGED error_count
       \/ IsDirective(NextAtom) /\ Proceed("open")
       \/ ~Reads("END_OF_SOURCE") /\ ~IsDirective(NextAtom) /\ Report("SYNTAX_ERROR")
    /\ Declared
    /\ UNCHANGED value

-----------------------------------------------------------------------------
(* directive_identity and directive_slab, up to what they declare. *)

Expects == [open |-> "OPEN_PARENTHESIS", separator |-> "ARGUMENT_SEPARATOR",
            close |-> "CLOSE_PARENTHESIS"]
Follows == [open |-> "name", separator |-> "expression", close |-> "declare"]

\* Mutant: what follows from an error is reported too.
Unwinding_Never == FALSE
Unwinding == HasFailed

\* llfpl_expression_evaluator_expect_atom: silent, and blind, after an error.
ExpectAtom ==
    /\ control \in DOMAIN Expects
    /\ Settled(1)
    /\ IF Unwinding
       THEN Return("SYNTAX_ERROR") /\ UNCHANGED <<text_vars, error_count>>
       ELSE /\ Advance(1)
            /\ IF Reads(Expects[control]) THEN Proceed(Follows[control])
               ELSE Report("SYNTAX_ERROR")
    /\ Declared
    /\ UNCHANGED value

IsReserved(name) == name \in VerbNames \cup DirectiveNames

\* consume_declared_name.
ReadName ==
    /\ At("name")
    /\ Advance(1)
    /\ \/ ~Reads("IDENTIFIER") /\ Report("SYNTAX_ERROR")
       \/ Reads("IDENTIFIER") /\ IsReserved(NextAtom.name) /\ Report("SEMANTIC_ERROR")
       \/ /\ Reads("IDENTIFIER") /\ ~IsReserved(NextAtom.name)
          /\ IF NextAtom.name \in StorableNames
             THEN Proceed("separator") ELSE Report("CAPACITY_EXCEEDED")
    /\ Declared
    /\ UNCHANGED value

\* evaluate_top_level_expression yields zero when it reports; the directive
\* goes on to expect its closing parenthesis.
Evaluate ==
    /\ At("expression")
    /\ Advance(1)
    /\ \/ /\ Reads("NUMERIC_LITERAL")
          /\ value' = NextAtom.value
          /\ UNCHANGED error_count
       \/ /\ Reads("IDENTIFIER") /\ NextAtom.name \in DOMAIN bindings
          /\ value' = bindings[NextAtom.name]
          /\ UNCHANGED error_count
       \/ /\ ~Reads("NUMERIC_LITERAL")
          /\ ~(Reads("IDENTIFIER") /\ NextAtom.name \in DOMAIN bindings)
          /\ error_count' = error_count + 1
          /\ value' = value
    /\ control' = "close"
    /\ Declared
    /\ UNCHANGED <<module_count, status>>

-----------------------------------------------------------------------------
(* What a complete declaration does. *)

\* The atoms of the directive that was just read: keyword ( name , expression )
Keyword == text[cursor - 6].name
Name == text[cursor - 4].name

Extended(declared, name, entry) ==
    [each \in DOMAIN declared \cup {name} |->
        IF each = name THEN entry ELSE declared[each]]

BindIdentity ==
    /\ control = "declare" /\ Keyword = "Identity"
    /\ \/ /\ Name \notin DOMAIN bindings
          /\ bindings' = Extended(bindings, Name, value)
          /\ Proceed("keyword")
       \/ /\ Name \in DOMAIN bindings
          /\ Report("SEMANTIC_ERROR")
          /\ UNCHANGED bindings
       \/ /\ Cardinality(DOMAIN bindings) > GuaranteedBindings
          /\ Report("CAPACITY_EXCEEDED")
          /\ UNCHANGED bindings
    /\ UNCHANGED <<text_vars, value, arenas>>

\* Mutant: a fraction of a byte is cut off by the conversion to uint32_t.
IsCapacity_Fraction(number) ==
    number \notin {NaN, Infinity} /\ number \in 2..(2 * LLFPL_MEMORY_ARENA_MAXIMUM_SIZE_IN_BYTES)
\* Mutant: the limit is not tested.
IsCapacity_Unlimited(number) == number \notin {NaN, Infinity} /\ number >= 2 /\ number % 2 = 0
IsCapacity(number) ==
    /\ number \notin {NaN, Infinity}
    /\ number \in 2..(2 * LLFPL_MEMORY_ARENA_MAXIMUM_SIZE_IN_BYTES)
    /\ number % 2 = 0

\* Mutant: one arena fewer than there is room for.
RegistryIsFull_OffByOne == Cardinality(DOMAIN arenas) + 1 >= LLFPL_MEMORY_ARENA_REGISTRY_CAPACITY
RegistryIsFull == Cardinality(DOMAIN arenas) >= LLFPL_MEMORY_ARENA_REGISTRY_CAPACITY

RefuseSlab ==
    /\ control = "declare" /\ Keyword = "Slab"
    /\ \/ ~IsCapacity(value) /\ Report("SEMANTIC_ERROR")
       \/ IsCapacity(value) /\ RegistryIsFull /\ Report("CAPACITY_EXCEEDED")
       \/ /\ IsCapacity(value) /\ ~RegistryIsFull
          /\ IF Name \in DOMAIN arenas
             THEN Report("SEMANTIC_ERROR") ELSE Report("OUT_OF_MEMORY")
    /\ UNCHANGED <<text_vars, value, bindings, arenas>>

ReserveArena ==
    /\ control = "declare" /\ Keyword = "Slab"
    /\ IsCapacity(value) /\ ~RegistryIsFull
    /\ Name \notin DOMAIN arenas
    /\ arenas' = Extended(arenas, Name, value \div 2)
    /\ Proceed("keyword")
    /\ UNCHANGED <<text_vars, value, bindings>>

-----------------------------------------------------------------------------

Next ==
    \/ ReadText \/ ExecuteModule \/ ReadKeyword
    \/ ExpectAtom \/ ReadName \/ Evaluate
    \/ BindIdentity \/ RefuseSlab \/ ReserveArena

Spec == Init /\ [][Next]_vars

-----------------------------------------------------------------------------
(* What a module means: its atoms, six by six, are declarations of the form *)
(*     keyword '(' name ',' expression ')'                                  *)

AtomOf(k, i) == text[6 * k + i]

\* The i-th atom of the k-th directive has its place in a declaration.
Fits(k, i) ==
    CASE i = 1 -> IsDirective(AtomOf(k, i))
      [] i = 2 -> AtomOf(k, i).kind = "OPEN_PARENTHESIS"
      [] i = 3 -> /\ AtomOf(k, i).kind = "IDENTIFIER"
                  /\ AtomOf(k, i).name \in StorableNames \ (VerbNames \cup DirectiveNames)
      [] i = 4 -> AtomOf(k, i).kind = "ARGUMENT_SEPARATOR"
      [] i = 5 -> \/ AtomOf(k, i).kind = "NUMERIC_LITERAL"
                  \/ AtomOf(k, i).kind = "IDENTIFIER" /\ AtomOf(k, i).name \in DOMAIN bindings
      [] i = 6 -> AtomOf(k, i).kind = "CLOSE_PARENTHESIS"

\* So far the k-th directive is a declaration.
MayDeclare(k) == \A i \in 1..6 : 6 * k + i <= Len(text) => Fits(k, i)

\* The directive the cursor is behind an atom of.
Current == (cursor - 2) \div 6

\* What the expression of a declaration is worth, in halves.
Written(k) ==
    IF AtomOf(k, 5).kind = "IDENTIFIER" THEN bindings[AtomOf(k, 5).name] ELSE AtomOf(k, 5).value

Grows(before, after, name) ==
    /\ name \notin DOMAIN before
    /\ DOMAIN after = DOMAIN before \cup {name}
    /\ \A each \in DOMAIN before : after[each] = before[each]

-----------------------------------------------------------------------------
(* Properties. *)

\* Data is declared by a complete and legal declaration only, one name at a
\* time, with the value that is written, and never after any error of the
\* session, in whatever module.  An arena has at least one byte, a whole number
\* of them within the limit, and a slot of the registry.
EffectsAreWritten ==
    [][LET name == AtomOf(Current, 3).name
           isIdentity == AtomOf(Current, 1).name = "Identity"
       IN  <<bindings', arenas'>> # <<bindings, arenas>> =>
              /\ ~HasFailed
              /\ 6 * Current + 6 = cursor - 1 /\ MayDeclare(Current)
              /\ IF isIdentity
                 THEN /\ Grows(bindings, bindings', name) /\ arenas' = arenas
                      /\ bindings'[name] = Written(Current)
                 ELSE /\ Grows(arenas, arenas', name) /\ bindings' = bindings
                      /\ arenas'[name] \in 1..LLFPL_MEMORY_ARENA_MAXIMUM_SIZE_IN_BYTES
                      /\ 2 * arenas'[name] = Written(Current)
                      /\ Cardinality(DOMAIN arenas') <= LLFPL_MEMORY_ARENA_REGISTRY_CAPACITY]_vars

\* A module that fails has reported, and no module reports twice: what follows
\* from a reported error is silent.
ReportedOnce ==
    /\ error_count <= module_count
    /\ status \in Failures => HasFailed

\* The declaration may be refused for a name that is taken or for want of room.
IsTaken(k) ==
    AtomOf(k, 3).name \in DOMAIN (IF AtomOf(k, 1).name = "Identity" THEN bindings ELSE arenas)
MayLackRoom(k) ==
    IF AtomOf(k, 1).name = "Identity"
    THEN Cardinality(DOMAIN bindings) > GuaranteedBindings
    ELSE Cardinality(DOMAIN arenas) = LLFPL_MEMORY_ARENA_REGISTRY_CAPACITY

\* Only what is no declaration, a name that is taken, a size that is no whole
\* number of bytes, or want of room is reported.
LegalNeverRefused ==
    [][error_count' > error_count =>
          LET k == (cursor' - 2) \div 6
          IN  \/ ~MayDeclare(k)
              \/ control = "declare" /\ IsTaken(k) /\ status' = "SEMANTIC_ERROR"
              \/ /\ control = "declare" /\ AtomOf(k, 1).name = "Slab"
                 /\ \A size \in 1..LLFPL_MEMORY_ARENA_MAXIMUM_SIZE_IN_BYTES :
                       Written(k) # 2 * size
              \/ control = "declare" /\ MayLackRoom(k) /\ status' = "CAPACITY_EXCEEDED"
              \/ status' = "OUT_OF_MEMORY"]_vars

=============================================================================
