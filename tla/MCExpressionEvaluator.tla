----------------------- MODULE MCExpressionEvaluator -----------------------
(***************************************************************************)
(* Small vocabularies for the evaluator: each run reads every text of its  *)
(* atoms up to a bound, after the declarations below.                      *)
(***************************************************************************)
EXTENDS EvaluatorMeaning

Id(name) == [kind |-> "IDENTIFIER", name |-> name, value |-> Zero]
Num(quanta) == [kind |-> "NUMERIC_LITERAL", name |-> "", value |-> Rounded(FALSE, quanta)]
MinusNum(quanta) == [kind |-> "NUMERIC_LITERAL", name |-> "", value |-> Finite(TRUE, quanta)]
MalformedNum == [kind |-> "NUMERIC_LITERAL", name |-> "", value |-> NotANumber]
Ids(names) == {Id(name) : name \in names}

Open == Punctuation(OPEN)
Close == Punctuation(CLOSE)
Comma == Punctuation(SEPARATOR)
Grammar == {Open, Close, Comma, Id("Commit")}

MCNames == Forms \cup
    {"Commit", "echo", "pair", "again", "poke", "spoilt", "x", "y", "pi", "cell", "sliver",
     "stranger"}

Invoke(name, arguments) ==
    <<Id(name), Open>> \o arguments \o <<Close>>

\* Map(echo, x, plus(x, pi)), and so on; the closing parenthesis of the Map
\* and the end of the source follow each body.
Declaration(parameters, body) == [parameters |-> parameters, body |-> Append(body, Close)]

MCTemplates ==
    [echo   |-> Declaration(<<"x">>, Invoke("plus", <<Id("x"), Comma, Id("pi")>>)),
     pair   |-> Declaration(<<"x", "y">>, Invoke("minus", <<Id("y"), Comma, Id("x")>>)),
     again  |-> Declaration(<<>>, Invoke("again", <<>>)),
     poke   |-> Declaration(<<"x">>, Invoke("write_offset", <<Id("cell"), Comma, Id("x"), Comma,
                                                              Id("x")>>)),
     spoilt |-> Declaration(<<"x", "x">>, <<Id("echo")>>)]

MCIdentities == [pi |-> Finite(FALSE, 3), echo |-> One]

\* One arena holds two overlapping values, the other not even one.
MCArenaCapacities == [cell |-> VALUE_WIDTH + 1, sliver |-> VALUE_WIDTH - 1]

RegisterAtoms == Grammar \cup Ids({"plus", "Branch", "echo", "Loop"}) \cup {Num(2), Num(4)}
TemplateAtoms == Grammar \cup Ids({"echo", "pair", "again", "spoilt", "Loop", "x", "pi"})
                 \cup {Num(0), Num(4), MalformedNum}
ArenaAtoms == Grammar \cup Ids({"write_offset", "read_offset", "cell", "sliver", "poke"})
              \cup {Num(1), Num(2), MinusNum(0), MinusNum(2)}
MCMaximumTextLength ==
    [vocabulary \in {RegisterAtoms, TemplateAtoms, ArenaAtoms} |->
        IF vocabulary = TemplateAtoms THEN 11 ELSE 13]

BranchAtoms == Grammar \cup Ids({"Branch", "divide"}) \cup {Num(0), Num(2)}
BranchTextLength == [vocabulary \in {BranchAtoms} |-> 15]

=============================================================================
