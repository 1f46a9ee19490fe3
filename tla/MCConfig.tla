------------------------------- MODULE MCConfig -------------------------------
(* Instances of Config for TLC. *)
EXTENDS Config

CONSTANTS s, q, fine, coarse

\* Six digits cannot tell fine from coarse.
MCPrinted == (fine :> coarse) @@ (coarse :> coarse)

\* q is s, a quote and more.
MCFragment == q :> s

MCGiven ==
    { Value("Integer", -12),
      Value("String", q),
      Value("List", <<Value("Float", fine), Value("Boolean", 2), Value("String", s)>>),
      Value("List", <<>>) }

MCNumbers == {Value("Integer", -12)}

\* name = token token ...
Line(name, tokens) == <<Token("PARAMETER", name), Mark("ASSIGNMENT")>> \o tokens

\* Files written by hand, for two names either way round: nothing; every type, twice
\* under one name, with a number in hexadecimal; an empty list; a comment that ends
\* with the file.
MCTexts ==
    UNION {
        LET most ==
              Line(a, <<Token("STRING_LITERAL", s)>>) \o
              Line(b, <<Token("FLOAT", fine)>>) \o
              Line(a, <<Mark("LIST_OPEN"), Token("DECIMAL", -1), Mark("COMMA"),
                        Token("BOOLEAN", 0), Mark("LIST_CLOSE")>>)
        IN  { <<>>,
              most,
              Line(a, <<Token("BOOLEAN", 1)>>) \o <<Mark("OPEN_COMMENT")>>,
              Line(a, <<Token("DECIMAL", 12)>>) \o
              Line(b, <<Mark("LIST_OPEN"), Mark("LIST_CLOSE")>>) }
        : a \in Names, b \in Names }

Symmetry == Permutations(Names)

=============================================================================
