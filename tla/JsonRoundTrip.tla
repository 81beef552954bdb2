--------------------------- MODULE JsonRoundTrip ---------------------------
(***************************************************************************)
(* JsonParser on the text of a document or any other, and once more on     *)
(* what stringify or operator<< make of its result.                        *)
(***************************************************************************)
EXTENDS JsonParser, JsonText

CONSTANTS
  Docs,        \* documents a client may send
  AnyTexts     \* texts of any kind

NoDoc == [type |-> "NODOC"]

VARIABLES
  doc,      \* the document the text was made from, or NoDoc
  round     \* 1: the client's text, 2: the result written out again

allVars == <<vars, doc, round>>

RoundTripInit ==
  /\ \/ doc \in Docs /\ text \in {Spelled(doc, <<>>), Spelled(doc, <<Blank>>)}
     \/ doc = NoDoc /\ text \in AnyTexts
  /\ round = 1
  /\ Init

\* The result is written out, by stringify or by operator<<, and read again.
WriteOut ==
  /\ round = 1 /\ result.type \in {"OBJECT", "ARRAY"}
  /\ round' = 2
  /\ \E t \in Stringify(result) :
       text' \in {t} \union IF PrettyThrows(t) THEN {} ELSE {Pretty(t)}
  /\ ParseAnother
  /\ UNCHANGED doc

Over ==
  /\ result # Pending /\ (round = 2 \/ result.type \notin {"OBJECT", "ARRAY"})
  /\ UNCHANGED allVars

RoundTripNext ==
  \/ ParseStep /\ UNCHANGED <<doc, round>>
  \/ WriteOut
  \/ Over

\* A call of parse goes on until it returns.
LiveSpec ==
  /\ RoundTripInit /\ [][RoundTripNext]_allVars
  /\ WF_allVars(ParseStep /\ UNCHANGED <<doc, round>>)

\* A plain document is read as what it is, from the client's text with and
\* without blanks, and again from the text stringify or operator<< makes of
\* the result, in whatever order the map yields its members; and operator<<
\* makes one of it.
ParsesBack ==
  doc # NoDoc /\ Plain(doc) =>
    /\ result \in {Pending, doc}
    /\ result = doc => \A t \in Stringify(result) : ~PrettyThrows(t)
=============================================================================
