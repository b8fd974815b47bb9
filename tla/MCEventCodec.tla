--------------------------- MODULE MCEventCodec ---------------------------
(* Small sets of texts for EventCodec, chosen to hold every reserved         *)
(* character and texts that look like escape codes, and numbers of several   *)
(* digits.                                                                   *)
EXTENDS EventCodec

MCChar == Reserved \cup HexDigits \cup {"-", "x"}

MCIds == {<<>>, <<"x">>, <<"|">>, <<"7", "|">>, <<";", "=">>, <<"%", "7", "C">>}

MCVersions == {<<"x">>, <<"%">>, <<"|", "%", "2">>, <<"%", "7", "C">>}

MCTexts == {<<>>, <<"x">>, <<"%", "3", "D">>, <<"=", ";", "|">>}

\* Every payload of at most two keys.
MCPayloads ==
  UNION {[K -> MCTexts] : K \in {S \in SUBSET MCTexts : Cardinality(S) <= 2}}

MCEvents ==
  [header : {<<10, 2, 35, 4, 907>>}, committed : BOOLEAN,
   device : MCIds, session : MCIds, battery : {100}, rssi : {-67},
   version : MCVersions, correlation : {1}, payload : MCPayloads]
=============================================================================
