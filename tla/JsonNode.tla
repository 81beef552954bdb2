------------------------------ MODULE JsonNode ------------------------------
(***************************************************************************)
(* The nodes of a JSON document (class JSONNode, http/jsonparser.h) and    *)
(* what makes one of a piece of text, as operators.                        *)
(*                                                                         *)
(* A text is a sequence of symbols: the structural characters, a blank     *)
(* (any run of ' ' and '\n'), a character <<"char", c>> that means         *)
(* nothing to the parser, the words true, false and null, a numeral        *)
(* <<"number", n>>, which stands for its value in units of 10^-7, and      *)
(* Sign, for the texts that isDouble takes and stod does not ("+", ".").   *)
(***************************************************************************)
EXTENDS Integers, SequencesExt

LBrace == <<"{">>      RBrace == <<"}">>
LBracket == <<"[">>    RBracket == <<"]">>
Quote == <<"quote">>   Colon == <<":">>     Comma == <<",">>
Blank == <<"blank">>   Sign == <<"sign">>
True == <<"true">>     False == <<"false">>  Null == <<"null">>
Char(c) == <<"char", c>>
Numeral(n) == <<"number", n>>

Opening == {LBrace, LBracket}
Closing == {RBrace, RBracket}

-----------------------------------------------------------------------------
\* The constructors: one field beside the type, as in the union.
StringNode(t) == [type |-> "STRING", d_string |-> t]
NumberNode(n) == [type |-> "NUMBER", d_number |-> n]
BoolNode(b) == [type |-> "BOOL", d_bool |-> b]
NullNode == [type |-> "NULLT"]
ObjectNode(data) == [type |-> "OBJECT", d_data |-> data]
ArrayNode(array) == [type |-> "ARRAY", d_array |-> array]

IsArray(node) == node.type = "ARRAY"
IsObject(node) == node.type = "OBJECT"

\* f[key] = v, which inserts a key that is not there.
Put(f, key, v) ==
  [k \in DOMAIN f \union {key} |-> IF k = key THEN v ELSE f[k]]

\* ans[key] = node and appendArray, on nodes of the type they are limited to.
SetMember(node, key, v) == [node EXCEPT !.d_data = Put(@, key, v)]
AppendArray(node, v) == [node EXCEPT !.d_array = Append(@, v)]

\* An exception in the place of a node, by the name of its class.
Thrown(what) == [type |-> "THROWN", what |-> what]

-----------------------------------------------------------------------------
\* The text without the blanks around it.
Trim(t) ==
  LET filled == {k \in DOMAIN t : t[k] # Blank}
  IN IF filled = {} THEN <<>> ELSE SubSeq(t, Min(filled), Max(filled))

\* The empty text is a double for isDouble, which leaves nothing to isInteger.
IsDouble(t) == t = <<>> \/ (Len(t) = 1 /\ (t[1] = Sign \/ t[1][1] = "number"))

\* std::stod, on what isDouble lets through.
Stod(t) ==
  IF t = <<>> \/ t = <<Sign>> THEN Thrown("invalid_argument")
  ELSE NumberNode(t[1][2])

\* A value is a string by its first character alone, and loses its first and
\* its last.  For an empty text s[j] reads before the string's first byte,
\* where libstdc++ keeps the high byte of its length, which is no blank.
GetValue(s) ==
  LET temp == Trim(s)
  IN CASE temp # <<>> /\ temp[1] = Quote ->
            StringNode(SubSeq(temp, 2, Len(temp) - 1))
       [] temp = <<True>> \/ temp = <<False>> -> BoolNode(temp = <<True>>)
       [] temp = <<Null>> -> NullNode
       [] IsDouble(temp) -> Stod(temp)
       [] OTHER -> StringNode(temp)

=============================================================================
