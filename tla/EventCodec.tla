---------------------------- MODULE EventCodec ----------------------------
(***************************************************************************)
(* The text form in which the event queue keeps an event in the flash log  *)
(* (event_queue.cpp:219-348): thirteen fields joined by '|', the payload   *)
(* as key=value items joined by ';'.  The firmware version and the payload *)
(* are escaped; the device and session ids are not.                        *)
(*                                                                         *)
(* A text is a sequence of characters.  Hex digits are upper case, which   *)
(* is how the code writes them.  Where a field to be read as a number      *)
(* holds a piece of an id instead, the code also skips blanks and a '+'    *)
(* before it and refuses what is out of range.                             *)
(***************************************************************************)
EXTENDS Integers, Sequences, SequencesExt, FiniteSets

CONSTANTS Char,      \* one-character strings
          Events     \* the events that may be stored

VARIABLES event,     \* the event being stored
          record,    \* its bytes in the log
          decoded,   \* what reading the record gives
          stage      \* "idle", "made", "written" or "read"

vars == <<event, record, decoded, stage>>
-----------------------------------------------------------------------------
Text == Seq(Char)

Reserved == {"%", "|", ";", "="}

HexCode == [c \in Reserved |-> CASE c = "%" -> <<"2", "5">>
                                 [] c = "|" -> <<"7", "C">>
                                 [] c = ";" -> <<"3", "B">>
                                 [] c = "=" -> <<"3", "D">>]

Numeral == <<"0", "1", "2", "3", "4", "5", "6", "7", "8", "9">>

Digits == {Numeral[d + 1] : d \in 0..9}

HexDigits == Digits \cup {"A", "B", "C", "D", "E", "F"}

Int16 == (-32768)..32767

\* A payload maps keys to values; both are texts.
IsPayload(p) ==
  /\ IsFiniteSet(DOMAIN p)
  /\ DOMAIN p \subseteq Text
  /\ p \in [DOMAIN p -> Text]

\* The header is id, sequence number, type and the two times.
IsEvent(e) ==
  /\ e \in [header : [1..5 -> Nat], committed : BOOLEAN,
            device : Text, session : Text, battery : 0..255, rssi : Int16,
            version : Text, correlation : Nat, payload : {e.payload}]
  /\ IsPayload(e.payload)

ASSUME CodecAssumption ==
  /\ Reserved \cup HexDigits \cup {"-"} \subseteq Char
  /\ \A e \in Events : IsEvent(e)
-----------------------------------------------------------------------------
\* Bug: the escape character is left as it is.
MutantEscapeChar(c) ==
  IF c \in Reserved \ {"%"} THEN <<"%">> \o HexCode[c] ELSE <<c>>

EscapeChar(c) == IF c \in Reserved THEN <<"%">> \o HexCode[c] ELSE <<c>>

Escape[text \in Text] ==
  IF text = <<>> THEN <<>> ELSE EscapeChar(Head(text)) \o Escape[Tail(text)]

\* The character of two hex digits; one that is not reserved goes by its code.
Decode(high, low) ==
  IF \E c \in Reserved : HexCode[c] = <<high, low>>
    THEN CHOOSE c \in Reserved : HexCode[c] = <<high, low>>
    ELSE "code " \o high \o low

BeginsWithCode(text) ==
  Len(text) >= 3 /\ text[1] = "%" /\ {text[2], text[3]} \subseteq HexDigits

\* A '%' that two hex digits do not follow stands for itself.
Unescape[text \in Text] ==
  IF text = <<>> THEN <<>>
  ELSE IF BeginsWithCode(text)
    THEN <<Decode(text[2], text[3])>> \o Unescape[SubSeq(text, 4, Len(text))]
    ELSE <<Head(text)>> \o Unescape[Tail(text)]

Split(text, separator) ==
  LET parts[rest \in Text] ==
        IF rest = <<>> THEN << <<>> >>
        ELSE IF Head(rest) = separator
          THEN << <<>> >> \o parts[Tail(rest)]
          ELSE [parts[Tail(rest)] EXCEPT ![1] = <<Head(rest)>> \o @]
  IN  parts[text]

JoinWith(texts, separator) ==
  LET joined[rest \in Seq(Text)] ==
        IF rest = <<>> THEN <<>>
        ELSE IF Len(rest) = 1 THEN rest[1]
        ELSE rest[1] \o <<separator>> \o joined[Tail(rest)]
  IN  joined[texts]

Numerals[n \in Nat] ==
  IF n < 10 THEN <<Numeral[n + 1]>>
  ELSE Append(Numerals[n \div 10], Numeral[(n % 10) + 1])

Decimal(n) == IF n < 0 THEN <<"-">> \o Numerals[-n] ELSE Numerals[n]

Unsigned(text) == IF text # <<>> /\ Head(text) = "-" THEN Tail(text) ELSE text

\* std::stoul and its kin throw unless the text begins with a number.
IsNumber(text) == Unsigned(text) # <<>> /\ Head(Unsigned(text)) \in Digits

DigitOf(c) == CHOOSE d \in 0..9 : Numeral[d + 1] = c

Number[digits \in Seq(Digits)] ==
  IF digits = <<>> THEN 0
  ELSE 10 * Number[Front(digits)] + DigitOf(Last(digits))

\* What follows the number is ignored; a negative value stands for the wrapped
\* one where the field is unsigned.
Value(text) ==
  LET body == Unsigned(text)
      Ends == {k \in 0..Len(body) : \A i \in 1..k : body[i] \in Digits}
      End  == CHOOSE k \in Ends : \A j \in Ends : j <= k
      size == Number[SubSeq(body, 1, End)]
  IN  IF body = text THEN size ELSE -size
-----------------------------------------------------------------------------
\* The order of a map's items makes no difference to the reader.
PayloadText(payload) ==
  LET keys == SetToSeq(DOMAIN payload)
  IN  JoinWith([i \in DOMAIN keys |->
                  Escape[keys[i]] \o <<"=">> \o Escape[payload[keys[i]]]], ";")

Fields(e) ==
  [i \in 1..5 |-> Decimal(e.header[i])]
    \o << IF e.committed THEN <<"1">> ELSE <<"0">>,
          e.device, e.session, Decimal(e.battery), Decimal(e.rssi),
          Escape[e.version], Decimal(e.correlation), PayloadText(e.payload) >>

PayloadOf(text) ==
  LET items    == Split(text, ";")
      Pairs    == {i \in DOMAIN items : Contains(items[i], "=")}
      Cut(i)   == CHOOSE k \in DOMAIN items[i] :
                     items[i][k] = "=" /\ \A j \in 1..(k - 1) : items[i][j] # "="
      Key(i)   == Unescape[SubSeq(items[i], 1, Cut(i) - 1)]
      Item(i)  == Unescape[SubSeq(items[i], Cut(i) + 1, Len(items[i]))]
      Latest(k) == CHOOSE i \in Pairs :
                     Key(i) = k /\ \A j \in Pairs : Key(j) = k => j <= i
  IN  [k \in {Key(i) : i \in Pairs} |-> Item(Latest(k))]

\* deserialize() returns false: too few fields, or no number where one belongs.
IsRefused(parts) ==
  \/ Len(parts) < 11
  \/ \E i \in {1, 2, 3, 4, 5, 9, 10, 12} \cap DOMAIN parts : ~IsNumber(parts[i])

Parsed(parts) ==
  [header      |-> [i \in 1..5 |-> Value(parts[i])],
   committed   |-> parts[6] = <<"1">>,
   device      |-> parts[7],
   session     |-> parts[8],
   battery     |-> Value(parts[9]) % 256,
   rssi        |-> Value(parts[10]),
   version     |-> Unescape[parts[11]],
   correlation |-> IF Len(parts) >= 12 THEN Value(parts[12]) ELSE 0,
   payload     |-> IF Len(parts) >= 13 THEN PayloadOf(parts[13]) ELSE <<>>]

Nothing == [refused |-> TRUE]
-----------------------------------------------------------------------------
CodecInit ==
  /\ event = Nothing
  /\ record = <<>>
  /\ decoded = Nothing
  /\ stage = "idle"

Make ==
  /\ stage = "idle"
  /\ event' \in Events
  /\ stage' = "made"
  /\ UNCHANGED <<record, decoded>>

Serialize ==
  /\ stage = "made"
  /\ record' = JoinWith(Fields(event), "|")
  /\ stage' = "written"
  /\ UNCHANGED <<event, decoded>>

\* A record left by the earlier format has eleven fields, with no correlation
\* id and no payload.
SerializeEarlier ==
  /\ stage = "made"
  /\ event' = [event EXCEPT !.correlation = 0, !.payload = <<>>]
  /\ record' = JoinWith(SubSeq(Fields(event), 1, 11), "|")
  /\ stage' = "written"
  /\ UNCHANGED decoded

Deserialize ==
  /\ stage = "written"
  /\ decoded' = LET parts == Split(record, "|")
                IN  IF IsRefused(parts) THEN Nothing ELSE Parsed(parts)
  /\ stage' = "read"
  /\ UNCHANGED <<event, record>>

Forget ==
  /\ stage = "read"
  /\ event' = Nothing
  /\ record' = <<>>
  /\ decoded' = Nothing
  /\ stage' = "idle"

CodecNext == Make \/ Serialize \/ SerializeEarlier \/ Deserialize \/ Forget

CodecSpec == CodecInit /\ [][CodecNext]_vars
-----------------------------------------------------------------------------
HasBar(text) == Contains(text, "|")

\* Whatever reserved characters its version and payload hold, an event comes
\* back from the log as it went in, in either format, unless an id holds the
\* field separator, which serialize() does not escape.  Even then what is read
\* is refused or agrees on the fields the queue orders and commits by
\* (serialize and deserialize, event_queue.cpp:265-348).
RoundTrip ==
  stage = "read" =>
    IF HasBar(event.device) \/ HasBar(event.session)
      THEN decoded = Nothing \/ /\ decoded.header = event.header
                                /\ decoded.committed = event.committed
      ELSE decoded = event
=============================================================================
