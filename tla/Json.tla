-------------------------------- MODULE Json --------------------------------
(* The JSON of clangd_server (json.cpp): what a value is written as, and   *)
(* the reader.  A text is a sequence of tokens without the spaces between  *)
(* them; the characters of a string are its bytes.                         *)
EXTENDS Integers, Sequences, FiniteSetsExt, SequencesExt, Functions

(* Values: an object is its keys and, at the same places, its items.       *)
Null == [kind |-> "null"]
Bool(b) == [kind |-> "bool", bool |-> b]
Numeral(n) == [kind |-> "number", number |-> n]
Str(bytes) == [kind |-> "string", bytes |-> bytes]
Array(items) == [kind |-> "array", items |-> items]
Object(keys, items) == [kind |-> "object", keys |-> keys, items |-> items]

Set(object, key, item) ==
    IF \E i \in DOMAIN object.keys : object.keys[i] = key
    THEN [object EXCEPT !.items[Min({i \in DOMAIN object.keys : object.keys[i] = key})] = item]
    ELSE Object(Append(object.keys, key), Append(object.items, item))
Get(object, key) ==
    LET places == {i \in DOMAIN object.keys : object.keys[i] = key}
    IN  IF places = {} THEN Null ELSE object.items[Min(places)]

----------------------------------------------------------------------------
(* Strings.                                                                *)
Quote == 34
Backslash == 92
HexDigit(n) == IF n < 10 THEN 48 + n ELSE 87 + n
Hex4(v) == [i \in 1 .. 4 |-> HexDigit((v \div 16 ^ (4 - i)) % 16)]
UEscape(v) == <<Backslash, 117>> \o Hex4(v)

(* \n, \r, \t and the others: the letter and the byte it stands for.       *)
Written == {<<110, 10>>, <<114, 13>>, <<116, 9>>, <<Quote, Quote>>, <<Backslash, Backslash>>}
Escapes == Written \cup {<<47, 47>>, <<98, 8>>, <<102, 12>>}

EscapeByte(c) ==
    IF \E e \in Written : e[2] = c THEN <<Backslash, (CHOOSE e \in Written : e[2] = c)[1]>>
    ELSE IF c < 32 THEN UEscape(c) ELSE <<c>>
JEscape(bytes) ==
    <<Quote>> \o FlattenSeq([i \in DOMAIN bytes |-> EscapeByte(bytes[i])]) \o <<Quote>>

AppendUtf8(cp) ==
    IF cp < 128 THEN <<cp>>
    ELSE IF cp < 2048 THEN <<192 + (cp \div 64), 128 + (cp % 64)>>
    ELSE IF cp < 65536
         THEN <<224 + (cp \div 4096), 128 + ((cp \div 64) % 64), 128 + (cp % 64)>>
    ELSE <<240 + (cp \div 262144), 128 + ((cp \div 4096) % 64),
           128 + ((cp \div 64) % 64), 128 + (cp % 64)>>

HighSurrogates == 55296 .. 56319
LowSurrogates == 56320 .. 57343

HexValue(h) ==
    CASE h \in 48 .. 57 -> h - 48 [] h \in 97 .. 102 -> h - 87 [] h \in 65 .. 70 -> h - 55
      [] OTHER -> -1
(* Four digits at place i: a code point, or -1.                            *)
ParseUnicode(raw, i) ==
    IF i + 3 > Len(raw) \/ \E k \in i .. i + 3 : HexValue(raw[k]) < 0 THEN -1
    ELSE LET v == FoldLeft(LAMBDA sum, k : 16 * sum + HexValue(raw[k]), 0, <<i, i + 1, i + 2, i + 3>>)
         IN  IF v \in LowSurrogates THEN -1 ELSE v

Refused == [ok |-> FALSE]
Read(value, next) == [ok |-> TRUE, value |-> value, next |-> next]

RECURSIVE StringFrom(_, _, _)
UnicodeFrom(raw, i, out) ==
    LET high == ParseUnicode(raw, i + 2)
        paired == high \in HighSurrogates /\ i + 11 <= Len(raw)
                  /\ raw[i + 6] = Backslash /\ raw[i + 7] = 117
        low  == ParseUnicode(raw, i + 8)
    IN  IF high < 0 \/ (paired /\ low \notin LowSurrogates) THEN Refused
        ELSE IF paired
             THEN StringFrom(raw, i + 12,
                    out \o AppendUtf8(65536 + 1024 * (high - 55296) + (low - 56320)))
        ELSE StringFrom(raw, i + 6, out \o AppendUtf8(high))
EscapeFrom(raw, i, out) ==
    IF i = Len(raw) THEN Refused
    ELSE IF raw[i + 1] = 117 THEN UnicodeFrom(raw, i, out)
    ELSE IF \E e \in Escapes : e[1] = raw[i + 1]
         THEN StringFrom(raw, i + 2, Append(out, (CHOOSE e \in Escapes : e[1] = raw[i + 1])[2]))
    ELSE Refused
StringFrom(raw, i, out) ==
    IF i > Len(raw) THEN Refused
    ELSE IF raw[i] = Quote THEN Read(out, i + 1)
    ELSE IF raw[i] = Backslash THEN EscapeFrom(raw, i, out)
    ELSE IF raw[i] < 32 THEN Refused
    ELSE StringFrom(raw, i + 1, Append(out, raw[i]))
ParseString(raw) == StringFrom(raw, 2, <<>>)

----------------------------------------------------------------------------
(* Writing: an array without items is still the Null it was made as.       *)
Token(t) == [t |-> t]
RECURSIVE ToJson(_)
Separated(parts) ==
    FlattenSeq([i \in DOMAIN parts |->
                  IF i = 1 THEN parts[i] ELSE <<Token(",")>> \o parts[i]])
ToJson(v) ==
    CASE v.kind = "null"   -> <<Token("null")>>
      [] v.kind = "bool"   -> <<Token(IF v.bool THEN "true" ELSE "false")>>
      [] v.kind = "number" -> <<[t |-> "number", number |-> v.number]>>
      [] v.kind = "string" -> <<[t |-> "string", raw |-> JEscape(v.bytes)]>>
      [] v.kind = "array" /\ v.items = <<>> -> <<Token("null")>>
      [] v.kind = "array"  ->
           <<Token("[")>> \o Separated([i \in DOMAIN v.items |-> ToJson(v.items[i])])
           \o <<Token("]")>>
      [] v.kind = "object" ->
           <<Token("{")>> \o Separated([i \in DOMAIN v.items |->
              <<[t |-> "string", raw |-> JEscape(v.keys[i])], Token(":")>> \o ToJson(v.items[i])])
           \o <<Token("}")>>

----------------------------------------------------------------------------
(* Reading, from token i on.                                               *)
MaxDepth == 64
At(text, i, t) == i <= Len(text) /\ text[i].t = t

RECURSIVE ParseValue(_, _, _), Members(_, _, _, _), Items(_, _, _, _)
KeyAt(text, i) ==
    IF At(text, i, "string") THEN ParseString(text[i].raw) ELSE Refused
Members(text, i, out, depth) ==
    LET key  == KeyAt(text, i)
        item == ParseValue(text, i + 2, depth + 1)
    IN  IF ~key.ok \/ ~At(text, i + 1, ":") \/ ~item.ok THEN Refused
        ELSE IF At(text, item.next, ",")
             THEN Members(text, item.next + 1, Set(out, key.value, item.value), depth)
        ELSE IF At(text, item.next, "}")
             THEN Read(Set(out, key.value, item.value), item.next + 1)
        ELSE Refused
ParseObject(text, i, depth) ==
    IF At(text, i, "}") THEN Read(Object(<<>>, <<>>), i + 1)
    ELSE Members(text, i, Object(<<>>, <<>>), depth)
Items(text, i, out, depth) ==
    LET item == ParseValue(text, i, depth + 1)
    IN  IF ~item.ok THEN Refused
        ELSE IF At(text, item.next, ",")
             THEN Items(text, item.next + 1, Append(out, item.value), depth)
        ELSE IF At(text, item.next, "]")
             THEN Read(Array(Append(out, item.value)), item.next + 1)
        ELSE Refused
ParseArray(text, i, depth) ==
    IF At(text, i, "]") THEN Read(Null, i + 1) ELSE Items(text, i, <<>>, depth)
ParseValue(text, i, depth) ==
    CASE depth > MaxDepth \/ i > Len(text) -> Refused
      [] At(text, i, "{") -> ParseObject(text, i + 1, depth)
      [] At(text, i, "[") -> ParseArray(text, i + 1, depth)
      [] At(text, i, "string") ->
           LET s == ParseString(text[i].raw)
           IN  IF s.ok THEN Read(Str(s.value), i + 1) ELSE Refused
      [] At(text, i, "true")   -> Read(Bool(TRUE), i + 1)
      [] At(text, i, "false")  -> Read(Bool(FALSE), i + 1)
      [] At(text, i, "null")   -> Read(Null, i + 1)
      [] At(text, i, "number") -> Read(Numeral(text[i].number), i + 1)
      [] OTHER -> Refused
JParse(text) ==
    LET all == ParseValue(text, 1, 0)
    IN  IF all.ok /\ all.next = Len(text) + 1 THEN all ELSE Refused

----------------------------------------------------------------------------
SomeBytes == {1, 9, 10, 13, 31, 34, 47, 65, 92, 127, 195, 255}
Keys == {<<65>>, <<34>>}
Scalars == {Null, Bool(TRUE), Bool(FALSE), Numeral(-1), Str(<<>>), Str(<<92, 10>>)}
Around(values) ==
    {Array(items) : items \in BoundedSeq(values, 2)}
    \cup {Object(keys, <<v>>) : keys \in [1 .. 1 -> Keys], v \in values}
    \cup {Object(<<<<65>>, <<34>>>>, <<v, w>>) : v, w \in values}
    \cup {Object(<<>>, <<>>)}
Shallow == Around(Scalars)
Deep == Around({Array(<<>>), Object(<<>>, <<>>), Array(<<Null, Str(<<65>>)>>),
                Object(<<<<65>>>>, <<Numeral(3)>>)})
RECURSIVE AsWritten(_)
AsWritten(v) ==
    CASE v.kind = "array" /\ v.items = <<>> -> Null
      [] v.kind \in {"array", "object"} ->
           [v EXCEPT !.items = [i \in DOMAIN v.items |-> AsWritten(v.items[i])]]
      [] OTHER -> v

(* Every byte string is read as it was written.                            *)
ASSUME StringsRoundTrip ==
    \A s \in BoundedSeq(SomeBytes, 3) :
      LET raw == JEscape(s) IN ParseString(raw) = Read(s, Len(raw) + 1)

(* Every value is read as it was written, but for arrays without items,    *)
(* which are null; and nothing less and nothing more than it is a text.    *)
ASSUME ValuesRoundTrip ==
    \A v \in Scalars \cup Shallow \cup Deep :
      LET text == ToJson(v) IN
      /\ JParse(text) = Read(AsWritten(v), Len(text) + 1)
      /\ \A n \in 0 .. Len(text) - 1 : JParse(SubSeq(text, 1, n)) = Refused
      /\ \A extra \in Range(text) : ~JParse(Append(text, extra)).ok

(* "nesting deeper than 64" is refused, and nothing less deep.             *)
Nested(n) == [i \in 1 .. 2 * n |-> IF i <= n THEN Token("[") ELSE Token("]")]
ASSUME NestingIsBounded ==
    \A n \in {1, 2, 64, 65, 66, 80} : JParse(Nested(n)).ok <=> n <= MaxDepth + 1

(* Of two values under one key the last one is had.                        *)
ASSUME LastKeyWins ==
    \A v, w \in Scalars :
      LET twice == JParse(ToJson(Object(<<<<65>>, <<65>>>>, <<v, w>>)))
      IN  twice.ok /\ Get(twice.value, <<65>>) = w /\ Get(twice.value, <<34>>) = Null

(* A \u is the character it names; half a pair that is the first is taken  *)
(* for a character, and a whole pair is refused.                           *)
Quoted(raw) == <<Quote>> \o raw \o <<Quote>>
Utf8Point(bytes) ==
    FoldLeft(LAMBDA sum, b : 64 * sum + (b - 128),
             bytes[1] - (CASE Len(bytes) = 1 -> 0 [] Len(bytes) = 2 -> 192 [] Len(bytes) = 3 -> 224),
             Tail(bytes))
ASSUME EscapesAreCharacters ==
    /\ \A cp \in (0 .. 300) \cup {2047, 2048, 8364, 55295, 57344, 65535} \cup HighSurrogates :
         Utf8Point(ParseString(Quoted(UEscape(cp))).value) = cp
    /\ \A cp \in LowSurrogates : ~ParseString(Quoted(UEscape(cp))).ok
ASSUME PairsAreRefused ==
    \A high \in {55296, 55357, 56319}, low \in {56320, 56832, 57343} :
      ~ParseString(Quoted(UEscape(high) \o UEscape(low))).ok
=============================================================================
