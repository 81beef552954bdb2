------------------------------- MODULE MCJson -------------------------------
(***************************************************************************)
(* JsonRoundTrip on all documents of two levels below the root, of few     *)
(* members and elements, and on all texts of at most four symbols, alone   *)
(* and where an object's first value stands.                               *)
(***************************************************************************)
EXTENDS JsonRoundTrip

a == Char("a")
b == Char("b")

Strings == {<<>>, <<a, Blank, True>>, <<a, Comma>>, <<RBrace, a>>}
Values ==
  {StringNode(t) : t \in Strings} \cup {NumberNode(n) : n \in {-25, 10}}
    \cup {BoolNode(TRUE), BoolNode(FALSE), NullNode}

Arrays(S) == {ArrayNode(s) : s \in BoundedSeq(S, 2)}
Objects(S) ==
  {ObjectNode(f) : f \in UNION {[K -> S] : K \in SUBSET {<<a>>, <<b, Colon>>}}}

Flat == Values \cup Arrays({StringNode(<<a>>), NumberNode(10)})
Small == {StringNode(<<>>), BoolNode(TRUE), ArrayNode(<<NullNode>>), ArrayNode(<<>>)}

MCDocs ==
  Arrays(Flat) \cup Objects(Flat)
    \cup Arrays(Objects(Small)) \cup Objects(Objects(Small))

Alphabet ==
  Opening \cup Closing \cup {Quote, Colon, Comma, Blank, Sign, a}
Member == <<LBrace, Quote, a, Quote, Colon>>

MCSymbols ==
  Alphabet \cup {b, True, False, Null} \cup {Numeral(n) : n \in {-25, -20, 10}}

MCTexts ==
  LET short == BoundedSeq(Alphabet, 4)
  IN short \cup {Member \o t : t \in short}
=============================================================================
