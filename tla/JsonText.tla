------------------------------ MODULE JsonText ------------------------------
(***************************************************************************)
(* The texts of a node: those stringify and operator<< make of it          *)
(* (http/jsonparser.cpp, jsonparser.h), and those a client writes.         *)
(***************************************************************************)
EXTENDS JsonNode

\* std::to_string keeps six decimals.
ToText(n) == Numeral(((n + 5) \div 10) * 10)

\* One text from each set, in turn, with a comma after each, behind `open';
\* the last character, whatever it is, becomes `close'.
Enclosed(open, items, close) ==
  LET followed == FoldLeft(LAMBDA done, item :
                             {d \o i \o <<Comma>> : d \in done, i \in item},
                           {<<open>>}, items)
  IN {[t EXCEPT ![Len(t)] = close] : t \in followed}

\* The texts stringify may return: the order of an unordered_map's members is
\* not specified.
RECURSIVE Stringify(_)
Stringify(node) ==
  CASE node.type = "STRING" -> {<<Quote>> \o node.d_string \o <<Quote>>}
    [] node.type = "NUMBER" -> {<<ToText(node.d_number)>>}
    [] node.type = "BOOL" -> {IF node.d_bool THEN <<True>> ELSE <<False>>}
    [] node.type = "NULLT" -> {<<Null>>}
    [] node.type = "ARRAY" ->
         Enclosed(LBracket,
                  [k \in DOMAIN node.d_array |-> Stringify(node.d_array[k])],
                  RBracket)
    [] node.type = "OBJECT" ->
         LET member(key) == {<<Quote>> \o key \o <<Quote, Colon>> \o t :
                               t \in Stringify(node.d_data[key])}
         IN UNION {Enclosed(LBrace, [k \in DOMAIN order |-> member(order[k])],
                            RBrace) : order \in SetToSeqs(DOMAIN node.d_data)}

\* operator<<: blanks after an opening, before a closing and after a comma,
\* inside strings too.
Pretty(t) ==
  FlattenSeq([k \in DOMAIN t |->
    CASE t[k] \in Opening \union {Comma} -> <<t[k], Blank>>
      [] t[k] \in Closing -> <<Blank, t[k]>>
      [] OTHER -> <<t[k]>>])

\* Its count of spaces goes below zero, and std::string(spaces, ' ') throws.
PrettyThrows(t) ==
  LET count(k, S) == Cardinality({j \in 1..k : t[j] \in S})
  IN \E k \in DOMAIN t : count(k, Closing) > count(k, Opening)

-----------------------------------------------------------------------------
\* A document as a client writes it, by the grammar of JSON: with ws, blanks
\* or nothing, around every structural character.
RECURSIVE Spelled(_, _)
Spelled(node, ws) ==
  LET around(c) == ws \o <<c>> \o ws
      joined(parts) ==
        FoldLeft(LAMBDA t, p : IF t = <<>> THEN p ELSE t \o around(Comma) \o p,
                 <<>>, parts)
      member(key) == <<Quote>> \o key \o <<Quote>> \o around(Colon)
                       \o Spelled(node.d_data[key], ws)
      order == SetToSeq(DOMAIN node.d_data)
  IN CASE IsObject(node) ->
            around(LBrace) \o joined([k \in DOMAIN order |-> member(order[k])])
              \o around(RBrace)
       [] IsArray(node) ->
            around(LBracket)
              \o joined([k \in DOMAIN node.d_array |-> Spelled(node.d_array[k], ws)])
              \o around(RBracket)
       [] node.type = "STRING" -> <<Quote>> \o node.d_string \o <<Quote>>
       [] node.type = "NUMBER" -> <<Numeral(node.d_number)>>
       [] node.type = "BOOL" -> <<IF node.d_bool THEN True ELSE False>>
       [] node.type = "NULLT" -> <<Null>>

\* Documents whose text says what they are to this parser: arrays hold values
\* only, and at least one (parseArray cuts at every comma, and an empty array
\* is written "]" and read, with a blank in it, as stod("")), no object is
\* empty (it is written "}"), no string holds a structural character, which
\* would count as one, and no number has more than the six decimals of
\* to_string.
RECURSIVE Plain(_)
Plain(node) ==
  LET harmless(t, S) == \A k \in DOMAIN t : t[k] \notin S
      structural == Opening \union Closing \union {Comma, Quote}
      value(v) ==
        /\ v.type \notin {"OBJECT", "ARRAY"}
        /\ v.type = "STRING" => harmless(v.d_string, structural)
        /\ v.type = "NUMBER" => ToText(v.d_number) = Numeral(v.d_number)
  IN CASE IsArray(node) ->
            node.d_array # <<>> /\ \A k \in DOMAIN node.d_array : value(node.d_array[k])
       [] IsObject(node) ->
            /\ DOMAIN node.d_data # {}
            /\ \A key \in DOMAIN node.d_data :
                 harmless(key, structural) /\ Plain(node.d_data[key])
       [] OTHER -> value(node)
=============================================================================
