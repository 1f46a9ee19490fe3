------------------------------ MODULE ConfigText ------------------------------
(***************************************************************************)
(* The text of a configuration file: what cfg_loader.c writes for a list   *)
(* of parameters, and what cfg_scanner.l and cfg_parser.y make of it.      *)
(*                                                                         *)
(* A text is the sequence of the tokens the scanner returns for it; white  *)
(* space and complete comments are none.  OPEN_COMMENT is no token of the  *)
(* scanner: it stands for a comment that ends with the file.               *)
(***************************************************************************)
EXTENDS Integers, SequencesExt

CONSTANTS
    Names,       \* parameter names: identifiers other than true and false
    Strings,     \* string values
    Fragment,    \* Fragment[s], of an s with a quote before a letter: the part before the quote
    Floats,      \* floating point values, all finite
    Printed,     \* Printed[f]: the value of what %f prints for f, the sign aside
    NoVal        \* NULL: the value that could not be allocated

ASSUME TextAssumption ==
    /\ DOMAIN Fragment \subseteq Strings
    /\ \A s \in DOMAIN Fragment : Fragment[s] \in Strings \ DOMAIN Fragment
    /\ Printed \in [Floats -> Floats]
    /\ \A f \in Floats : Printed[Printed[f]] = Printed[f]

Value(type, word) == [type |-> type, word |-> word]

Param(name, val) == [name |-> name, val |-> val]

Token(type, word) == [type |-> type, word |-> word]

Mark(type) == Token(type, type)

\* What the scanner returns: a hexadecimal number may be negative as an int.
Tokens ==
    [type : {"PARAMETER"}, word : Names]
    \cup [type : {"STRING_LITERAL"}, word : Strings \ DOMAIN Fragment]
    \cup [type : {"DECIMAL"}, word : Int]
    \cup [type : {"FLOAT"}, word : Floats]
    \cup [type : {"BOOLEAN"}, word : {0, 1}]
    \cup {Mark(type) : type \in {"ASSIGNMENT", "COMMA", "LIST_OPEN", "LIST_CLOSE", "OPEN_COMMENT"}}

\* The values of parameters.
Primitives ==
    [type : {"String"}, word : Strings]
    \cup [type : {"Float"}, word : Floats]
    \cup [type : {"Integer", "Boolean"}, word : Int]

ParamValues == Primitives \cup [type : {"List"}, word : Seq(Primitives)]

-----------------------------------------------------------------------------
(* Writing.                                                                *)

Abs(n) == IF n < 0 THEN -n ELSE n

\* Mutant: a boolean is printed with %d.
BoolAsNumber(v) ==
    CASE v.type = "Boolean" -> <<Token("DECIMAL", v.word)>>
      [] v.type = "String"  -> <<Token("STRING_LITERAL", v.word)>>
      [] v.type = "Integer" -> <<Token("DECIMAL", Abs(v.word))>>
      [] v.type = "Float"   -> <<Token("FLOAT", Printed[v.word])>>

\* The tokens of one printed value.  The scanner ignores a minus sign, and makes
\* a string and a name of a string with a quote in it.
writeValue(v) ==
    CASE v.type = "Boolean" -> <<Token("BOOLEAN", IF v.word = 0 THEN 0 ELSE 1)>>
      [] v.type = "Integer" -> <<Token("DECIMAL", Abs(v.word))>>
      [] v.type = "Float"   -> <<Token("FLOAT", Printed[v.word])>>
      [] v.type = "String"  ->
           IF v.word \in DOMAIN Fragment
           THEN <<Token("STRING_LITERAL", Fragment[v.word]), Token("PARAMETER", v.word)>>
           ELSE <<Token("STRING_LITERAL", v.word)>>

\* Mutant: no comma before the last element.
FewerCommas(vs) ==
    FlattenSeq([i \in DOMAIN vs |->
        writeValue(vs[i]) \o (IF i < Len(vs) - 1 THEN <<Mark("COMMA")>> ELSE <<>>)])

writeList(vs) ==
    FlattenSeq([i \in DOMAIN vs |->
        writeValue(vs[i]) \o (IF i < Len(vs) THEN <<Mark("COMMA")>> ELSE <<>>)])

writeParameter(p) ==
    <<Token("PARAMETER", p.name), Mark("ASSIGNMENT")>> \o
    (IF p.val.type = "List"
     THEN <<Mark("LIST_OPEN")>> \o writeList(p.val.word) \o <<Mark("LIST_CLOSE")>>
     ELSE writeValue(p.val))

\* The text of a list of parameters, all of which have a value.
Written(ps) == FlattenSeq([i \in DOMAIN ps |-> writeParameter(ps[i])])

\* What is left of a text when writing stops before its end: the first tokens,
\* the last of which may be a number cut by a digit; or a part of the comments
\* the file begins with.  A name, a boolean or a string that is cut reads as an
\* error, like the text before it; the strings that do not are left out.
Torn(text) ==
    LET heads == {SubSeq(text, 1, n) : n \in 0 .. Len(text)}
        cuttable == {h \in heads : h # <<>> /\ Last(h).type = "DECIMAL" /\ Last(h).word > 9}
    IN  heads
        \cup {Front(h) \o <<Token("DECIMAL", Last(h).word \div 10)>> : h \in cuttable}
        \cup {<<Mark("OPEN_COMMENT")>>}

-----------------------------------------------------------------------------
(* Reading.                                                                *)

\* The types of the tokens that are values.
Literals ==
    [STRING_LITERAL |-> "String", DECIMAL |-> "Integer", FLOAT |-> "Float", BOOLEAN |-> "Boolean"]

Literal(t) == Value(Literals[t.type], t.word)

\* The parser: what it expects, the parameters added so far, and the name and
\* the list elements of the one it is reading.
Start == [expects |-> "name", params |-> <<>>, name |-> NoVal, elements |-> <<>>]

Complete(p, val) ==
    [expects |-> "name", params |-> Append(p.params, Param(p.name, val)), name |-> p.name,
     elements |-> <<>>]

Shift(p, t) ==
    CASE p.expects = "name" /\ t.type = "PARAMETER" ->
           [p EXCEPT !.expects = "assignment", !.name = t.word]
      [] p.expects = "assignment" /\ t.type = "ASSIGNMENT" -> [p EXCEPT !.expects = "value"]
      [] p.expects = "value" /\ t.type = "LIST_OPEN" -> [p EXCEPT !.expects = "element"]
      [] p.expects = "value" /\ t.type \in DOMAIN Literals -> Complete(p, Literal(t))
      [] p.expects = "element" /\ t.type \in DOMAIN Literals ->
           [p EXCEPT !.expects = "more", !.elements = Append(@, Literal(t))]
      [] p.expects = "more" /\ t.type = "COMMA" -> [p EXCEPT !.expects = "element"]
      [] p.expects = "more" /\ t.type = "LIST_CLOSE" -> Complete(p, Value("List", p.elements))
      [] OTHER -> [p EXCEPT !.expects = "nothing"]

Parsing(text) == FoldLeft(Shift, Start, text)

Accepts(text) == Parsing(text).expects = "name"

\* The parameters of a text, up to its first error.
Parsed(text) == Parsing(text).params

\* comment() is entered for a comment that has no end, unless an error comes first.
Hangs(text) ==
    /\ text # <<>>
    /\ Last(text).type = "OPEN_COMMENT"
    /\ Parsing(Front(text)).expects # "nothing"

-----------------------------------------------------------------------------
(* What a value becomes by being written and read.                         *)

NormalValue(v) ==
    CASE v.type = "Boolean" -> Value("Boolean", IF v.word = 0 THEN 0 ELSE 1)
      [] v.type = "Integer" -> Value("Integer", Abs(v.word))
      [] v.type = "Float"   -> Value("Float", Printed[v.word])
      [] v.type = "String"  -> v

Normal(v) ==
    IF v.type = "List" THEN Value("List", [i \in DOMAIN v.word |-> NormalValue(v.word[i])])
    ELSE NormalValue(v)

Normals(ps) == [i \in DOMAIN ps |-> Param(ps[i].name, Normal(ps[i].val))]

Quotable(v) == v.type = "String" => v.word \notin DOMAIN Fragment

\* An empty list cannot be read, and a string with a quote cannot either.
Storable(v) ==
    IF v.type = "List" THEN v.word # <<>> /\ \A i \in DOMAIN v.word : Quotable(v.word[i])
    ELSE Quotable(v)

=============================================================================
