------------------------- MODULE DeterministicCbor -------------------------
(***************************************************************************)
(* The deterministic CBOR of cose/src/cbor.ts, which every signed document *)
(* is written in and whose octets every document's hash is taken of:       *)
(* encodeCbor, decodeCbor and what may happen to the octets in between.    *)
(*                                                                         *)
(* The dialect's numbers are constants, so that TLC can run a small one:   *)
(* in the code Ais = 32, Direct = 24, Widths = <<1, 2, 4, 8>>,             *)
(* SimpleAi = 20, MaxSafe = 2^53 - 1, and the four bounds it documents.    *)
(* Whether a text is well formed is abstracted to the octets it has.       *)
(***************************************************************************)
EXTENDS Integers, FiniteSets, Sequences, SequencesExt

CONSTANTS Ais,          \* values of the additional information of a head
          Direct,       \* numbers below it stand in the head itself
          Widths,       \* octets of the longer forms of a number
          SimpleAi,     \* false, true and null start here in major type 7
          MaxSafe,      \* Number.MAX_SAFE_INTEGER
          MaxBytes, MaxDepth, MaxElements, MaxString,
          IllFormed,    \* octets that no well-formed text has
          Values,       \* what is encoded
          Octets,       \* what an edit may write
          MaxEdits      \* bound on the edits of one behaviour

VARIABLES value,        \* what was encoded
          bytes,        \* the octets, as they are now
          edits         \* how often they were changed

vars == <<value, bytes, edits>>

(* A value is a kind and a content: <<"int", n>>, <<"text", octets>>,      *)
(* <<"bytes", octets>>, <<"array", values>>, <<"map", pairs of values>>,   *)
(* <<"simple", 0, 1 or 2>>.                                                *)
Kind(v) == v[1]
Content(v) == v[2]

Radix == 8 * Ais
Major == [uint |-> 0, nint |-> 1, bytes |-> 2, text |-> 3, array |-> 4, map |-> 5]
FirstSimple == 7 * Ais + SimpleAi

-----------------------------------------------------------------------------
(* encodeCbor                                                              *)

BigEndian(n, width) == [i \in 1 .. width |-> (n \div Radix ^ (width - i)) % Radix]

Fits(n, width) == n < Radix ^ width

(* The shortest form that holds the number.                                *)
LengthHead(major, n) ==
  IF n < Direct THEN <<major * Ais + n>>
  ELSE LET form == CHOOSE k \in DOMAIN Widths :
                     /\ k = Len(Widths) \/ Fits(n, Widths[k])
                     /\ \A j \in 1 .. k - 1 : ~Fits(n, Widths[j])
       IN  <<major * Ais + Direct + form - 1>> \o BigEndian(n, Widths[form])

CompareEncodedKeys(a, b) ==
  LET common == DOMAIN a \cap DOMAIN b
      differ == {i \in common : a[i] # b[i]}
  IN  IF differ = {} THEN Len(a) < Len(b)
      ELSE LET i == CHOOSE i \in differ : \A j \in differ : i <= j IN a[i] < b[i]

RECURSIVE Encode(_)
Encode(v) ==
  LET items == Content(v)
      pairs == [i \in DOMAIN items |-> <<Encode(items[i][1]), Encode(items[i][2])>>]
      sorted == SortSeq(pairs, LAMBDA p, q : CompareEncodedKeys(p[1], q[1]))
  IN  CASE Kind(v) = "simple" -> <<FirstSimple + items>>
        [] Kind(v) = "int" -> IF items >= 0 THEN LengthHead(Major.uint, items)
                              ELSE LengthHead(Major.nint, -1 - items)
        [] Kind(v) \in {"bytes", "text"} -> LengthHead(Major[Kind(v)], Len(items)) \o items
        [] Kind(v) = "array" -> LengthHead(Major.array, Len(items))
                                  \o FlattenSeq([i \in DOMAIN items |-> Encode(items[i])])
        [] Kind(v) = "map" -> LengthHead(Major.map, Len(items))
                                \o FlattenSeq([i \in DOMAIN items |-> FlattenSeq(sorted[i])])

(* The encoder throws on anything else: a number that is not exact, text   *)
(* with no octets, one key written twice.                                  *)
RECURSIVE Encodable(_)
Encodable(v) ==
  LET items == Content(v)
  IN  CASE Kind(v) = "simple" -> TRUE
        [] Kind(v) = "int" -> items \in -MaxSafe .. MaxSafe
        [] Kind(v) = "bytes" -> TRUE
        [] Kind(v) = "text" -> ToSet(items) \cap IllFormed = {}
        [] Kind(v) = "array" -> \A i \in DOMAIN items : Encodable(items[i])
        [] Kind(v) = "map" ->
             /\ \A i \in DOMAIN items : Encodable(items[i][1]) /\ Encodable(items[i][2])
             /\ \A i, j \in DOMAIN items :
                  Encode(items[i][1]) = Encode(items[j][1]) => i = j

-----------------------------------------------------------------------------
(* decodeCbor                                                              *)

Refuse(name) == [why |-> name]
Refused(result) == "why" \in DOMAIN result
Yield(v, at) == [val |-> v, at |-> at]

(* The first refusal ends the reading.                                     *)
Then(result, Continue(_)) == IF Refused(result) THEN result ELSE Continue(result)

Remaining(b, at) == Len(b) - at + 1

ReadNumber(b, at, width) ==
  FoldLeft(LAMBDA n, octet : n * Radix + octet, 0, SubSeq(b, at, at + width - 1))

ReadExact(n, form, at) ==
  IF form = Len(Widths) /\ n > MaxSafe THEN Refuse("cbor-too-large")
  ELSE Yield(n, at + Widths[form])

ReadLength(b, at, ai) ==
  LET form == ai - Direct + 1
  IN  IF ai < Direct THEN Yield(ai, at)
      ELSE IF form > Len(Widths) THEN Refuse("cbor-indefinite")
      ELSE IF Remaining(b, at) < Widths[form] THEN Refuse("cbor-eof")
      ELSE ReadExact(ReadNumber(b, at, Widths[form]), form, at)

(* Mutant of ReadNegative: the last exact number is refused.               *)
ReadNegativeLess(n, at) ==
  IF n >= MaxSafe - 1 THEN Refuse("cbor-too-large") ELSE Yield(<<"int", -1 - n>>, at)

(* -1 - n must be exact.                                                   *)
ReadNegative(n, at) ==
  IF n >= MaxSafe THEN Refuse("cbor-too-large") ELSE Yield(<<"int", -1 - n>>, at)

ReadString(b, kind, n, at) ==
  LET slice == SubSeq(b, at, at + n - 1)
  IN  IF n > MaxString THEN Refuse("cbor-too-large")
      ELSE IF n > Remaining(b, at) THEN Refuse("cbor-eof")
      ELSE IF kind = "text" /\ ToSet(slice) \cap IllFormed # {}
           THEN Refuse("cbor-invalid-text")
      ELSE Yield(<<kind, slice>>, at + n)

Unseen(key, seen) ==
  IF key \in seen THEN Refuse("cbor-duplicate-key") ELSE Yield(seen \cup {key}, 0)

(* Mutant of TooDeep: one level more.                                      *)
TooDeepLate(depth) == depth > MaxDepth + 1
TooDeep(depth) == depth > MaxDepth

RECURSIVE ReadVal(_, _, _), ReadItems(_, _, _, _), ReadEntries(_, _, _, _, _)

ReadItems(b, at, depth, n) ==
  IF n = 0 THEN Yield(<<>>, at)
  ELSE Then(ReadVal(b, at, depth), LAMBDA first :
         Then(ReadItems(b, first.at, depth, n - 1), LAMBDA rest :
           Yield(<<first.val>> \o rest.val, rest.at)))

(* A key that was seen is refused before the next entry is read.           *)
ReadEntries(b, at, depth, n, seen) ==
  IF n = 0 THEN Yield(<<>>, at)
  ELSE Then(ReadItems(b, at, depth, 2), LAMBDA entry :
         Then(Unseen(Encode(entry.val[1]), seen), LAMBDA keys :
           Then(ReadEntries(b, entry.at, depth, n - 1, keys.val), LAMBDA rest :
             Yield(<<entry.val>> \o rest.val, rest.at))))

ReadContainer(b, kind, n, at, depth) ==
  IF n > MaxElements THEN Refuse("cbor-too-large")
  ELSE IF (IF kind = "array" THEN n ELSE 2 * n) > Remaining(b, at) THEN Refuse("cbor-eof")
  ELSE Then(IF kind = "array" THEN ReadItems(b, at, depth + 1, n)
                              ELSE ReadEntries(b, at, depth + 1, n, {}),
            LAMBDA content : Yield(<<kind, content.val>>, content.at))

ReadAs(b, kind, n, at, depth) ==
  CASE kind = "uint" -> Yield(<<"int", n>>, at)
    [] kind = "nint" -> ReadNegative(n, at)
    [] kind \in {"bytes", "text"} -> ReadString(b, kind, n, at)
    [] kind \in {"array", "map"} -> ReadContainer(b, kind, n, at, depth)

ReadVal(b, at, depth) ==
  IF TooDeep(depth) THEN Refuse("cbor-too-deep")
  ELSE IF at > Len(b) THEN Refuse("cbor-eof")
  ELSE IF b[at] \in FirstSimple .. FirstSimple + 2
       THEN Yield(<<"simple", b[at] - FirstSimple>>, at + 1)
  ELSE IF b[at] \div Ais \notin Range(Major) THEN Refuse("cbor-unsupported")
  ELSE Then(ReadLength(b, at + 1, b[at] % Ais), LAMBDA n :
         ReadAs(b, CHOOSE k \in DOMAIN Major : Major[k] = b[at] \div Ais, n.val, n.at, depth))

(* Mutant of Respelled: only the lengths are compared.                     *)
RespelledShorter(b, v) == Len(Encode(v)) # Len(b)

(* One value has one encoding: what was read is written again.             *)
Respelled(b, v) == Encode(v) # b

Decode(b) ==
  IF Len(b) > MaxBytes THEN Refuse("cbor-too-large")
  ELSE Then(ReadVal(b, 1, 0), LAMBDA read :
         IF read.at <= Len(b) THEN Refuse("cbor-trailing")
         ELSE IF Respelled(b, read.val) THEN Refuse("cbor-non-deterministic")
         ELSE read)

-----------------------------------------------------------------------------
(* A value is encoded and its octets are changed: overwritten, put in,     *)
(* left out, or two neighbouring runs of them exchanged.                   *)

Init ==
  /\ value \in {v \in Values : Encodable(v)}
  /\ bytes = Encode(value)
  /\ edits = 0

Edit(changed) ==
  /\ edits < MaxEdits
  /\ bytes' = changed
  /\ edits' = edits + 1
  /\ UNCHANGED value

Overwrite == \E i \in DOMAIN bytes, octet \in Octets : Edit(ReplaceAt(bytes, i, octet))
PutIn == \E i \in 1 .. Len(bytes) + 1, octet \in Octets : Edit(InsertAt(bytes, i, octet))
LeaveOut == \E i \in DOMAIN bytes : Edit(RemoveAt(bytes, i))
Exchange ==
  \E i, j, k \in DOMAIN bytes :
    /\ i < j /\ j <= k
    /\ Edit(SubSeq(bytes, 1, i - 1) \o SubSeq(bytes, j, k)
              \o SubSeq(bytes, i, j - 1) \o SubSeq(bytes, k + 1, Len(bytes)))

Next == Overwrite \/ PutIn \/ LeaveOut \/ Exchange

Spec == Init /\ [][Next]_vars

-----------------------------------------------------------------------------
(* Equal as values: the entries of a map have no order.                    *)
RECURSIVE Same(_, _)
Same(v, w) ==
  LET a == Content(v)
      b == Content(w)
      found(x, y) == \A i \in DOMAIN x : \E j \in DOMAIN y :
                       Same(x[i][1], y[j][1]) /\ Same(x[i][2], y[j][2])
  IN  /\ Kind(v) = Kind(w)
      /\ CASE Kind(v) = "array" -> Len(a) = Len(b) /\ \A i \in DOMAIN a : Same(a[i], b[i])
           [] Kind(v) = "map" -> Len(a) = Len(b) /\ found(a, b) /\ found(b, a)
           [] OTHER -> a = b

(* The parts of a container, and how deep and how large a value is.        *)
Parts(v) ==
  CASE Kind(v) = "array" -> ToSet(Content(v))
    [] Kind(v) = "map" -> UNION {ToSet(entry) : entry \in ToSet(Content(v))}
    [] OTHER -> {}

RECURSIVE WithinBounds(_, _)
WithinBounds(v, depth) ==
  /\ depth <= MaxDepth
  /\ Kind(v) \in {"bytes", "text"} => Len(Content(v)) <= MaxString
  /\ Kind(v) \in {"array", "map"} => Len(Content(v)) <= MaxElements
  /\ \A part \in Parts(v) : WithinBounds(part, depth + 1)

(* decodeCbor: "the second spelling is a second identity".  Octets that    *)
(* were changed and are still accepted say something else; what says the   *)
(* same has the same octets, so the same hash.                             *)
OneSpelling ==
  ~Refused(Decode(bytes)) /\ Same(Decode(bytes).val, value) => bytes = Encode(value)

(* What the encoder signs the decoder reads back as the same value, unless *)
(* it is over a documented bound, and then by a refusal that names one.    *)
RoundTrip ==
  edits = 0 =>
    LET read == Decode(bytes)
    IN  IF Len(bytes) <= MaxBytes /\ WithinBounds(value, 0)
        THEN ~Refused(read) /\ Same(read.val, value)
        ELSE Refused(read) /\ read.why \in {"cbor-too-large", "cbor-too-deep"}

(* MUST-T4-18 and MUST-T4-19: whatever is accepted, however it was put     *)
(* together, is within the bounds and is a value the encoder writes: no    *)
(* key twice, no number that is not exact.                                 *)
AcceptedInBounds ==
  LET read == Decode(bytes)
  IN  ~Refused(read) =>
        /\ Len(bytes) <= MaxBytes
        /\ WithinBounds(read.val, 0)
        /\ Encodable(read.val)

=============================================================================
