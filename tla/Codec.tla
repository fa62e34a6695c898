------------------------------- MODULE Codec -------------------------------
(***************************************************************************)
(* The serialization format of messages (userland/aser): the byte          *)
(* serializer and deserializer, the capability counter, the value tree and *)
(* its two conversions, and what happens to the capability ids of a        *)
(* message between the two ends.                                           *)
(*                                                                         *)
(* A datum is what a type's Serialize implementation hands the serializer: *)
(* k names the serde call, n is its number (an integer, a bit pattern, a   *)
(* variant index), s its bytes and sub its parts, keys and values taking   *)
(* turns in a map.  A value is an aser::Value in the same shape, with the  *)
(* entries of a map as the set of pairs its BTreeMap holds.                *)
(***************************************************************************)
EXTENDS Integers, Sequences, SequencesExt, FiniteSets

CONSTANTS
    Data,           \* the data a sender may serialize
    CapVariant,     \* CapId::SERIALIZE_ENUM_VARIANT
    Reserves,       \* the capability counts a caller of to_bytes may pass
    Cuts            \* how many bytes short of the message a receive buffer may be

VARIABLES
    sent,           \* the datum the sender started from
    datum,          \* the datum it serializes, after a detour through a value
    phase,
    reserve,        \* the capability slots to_bytes was asked for
    bytes,          \* the message
    whole,          \* FALSE once the message was cut or lost a capability
    origin,         \* the id in the sender's space of every id that was cloned
    got             \* what from_bytes returned

codecVars == <<sent, datum, phase, reserve, bytes, whole, origin, got>>

Datum(k, n, s, sub) == [k |-> k, n |-> n, s |-> s, sub |-> sub, map |-> {}]

Scalar(k, n) == Datum(k, n, <<>>, <<>>)

MapOf(pairs) == [Scalar("Map", 0) EXCEPT !.map = pairs]

(* Value::Capability, and CapId::serialize as a datum. *)
CapValue(id) == Scalar("Capability", id)

CapDatum(id) == Datum("NewtypeVariant", CapVariant, <<>>, <<Scalar("U64", id)>>)

(* The type bits of a CapId, bits 5 to 9, name one of the 19 capability types. *)
ValidCap(id) == (id \div 32) % 32 \in 1 .. 19

-----------------------------------------------------------------------------
(* Little-endian words, two's complement for the signed ones. *)

Width == [I8 |-> 1, I16 |-> 2, I32 |-> 4, I64 |-> 8, I128 |-> 16,
          U8 |-> 1, U16 |-> 2, U32 |-> 4, U64 |-> 8, U128 |-> 16,
          F32 |-> 4, F64 |-> 8, Char |-> 4]

Signed == {"I8", "I16", "I32", "I64", "I128"}

ToLe(n, w) ==
    LET high[i \in 0 .. w] == IF i = 0 THEN n ELSE high[i - 1] \div 256
    IN  [i \in 1 .. w |-> high[i - 1] % 256]

FromLe(b, signed) ==
    LET w == Len(b)
        top == IF signed /\ b[w] >= 128 THEN b[w] - 256 ELSE b[w]
        low[i \in 1 .. w] == IF i = w THEN top ELSE low[i + 1] * 256 + b[i]
    IN  low[1]

(* The byte every field starts with. *)
DataType == [Null |-> 0, True |-> 1, False |-> 2, I8 |-> 3, I16 |-> 4, I32 |-> 5, I64 |-> 6,
             I128 |-> 7, U8 |-> 8, U16 |-> 9, U32 |-> 10, U64 |-> 11, U128 |-> 12, F32 |-> 13,
             F64 |-> 14, Char |-> 15, String8 |-> 16, String16 |-> 17, String32 |-> 18,
             String64 |-> 19, Bytes8 |-> 20, Bytes16 |-> 21, Bytes32 |-> 22, Bytes64 |-> 23,
             Newtype |-> 24, Some |-> 25, SequenceStart |-> 26, SequenceEnd |-> 27,
             MapStart |-> 28, MapEnd |-> 29, Variant |-> 30, VariantValue |-> 31,
             Capability |-> 32, Filler |-> 255]

-----------------------------------------------------------------------------
(* CapabilitySerializer: only a u64 is a capability id. *)

ScalarCapability(d) ==
    IF d.k = "U64" THEN [err |-> "", id |-> d.n] ELSE [err |-> "ExpectedCapability", id |-> 0]

CompoundCapability(d) == [err |-> "ExpectedCapability", id |-> 0]

CapabilityOf(d) == IF d.sub = <<>> THEN ScalarCapability(d) ELSE CompoundCapability(d)

(* CapabilityCounter: a leaf counts nothing, the rest counts its parts; a  *)
(* part that is no capability where one is due fails the count.            *)
IsCapability(d) == d.k = "NewtypeVariant" /\ d.n = CapVariant

RECURSIVE CountParts(_), Count(_)
CountParts(parts) ==
    IF parts = <<>> THEN [err |-> "", n |-> 0]
    ELSE LET first == Count(Head(parts))
             rest == CountParts(Tail(parts))
         IN  IF first.err # "" THEN first ELSE [rest EXCEPT !.n = @ + first.n]

CountVariant(d) ==
    IF ~IsCapability(d) THEN Count(d.sub[1])
    ELSE [err |-> CapabilityOf(d.sub[1]).err, n |-> 1]

Count(d) == IF d.k = "NewtypeVariant" THEN CountVariant(d) ELSE CountParts(d.sub)

-----------------------------------------------------------------------------
(* Serializer *)

NewSerializer(num) ==
    [buf |-> ToLe(0, 8) \o [i \in 1 .. 8 * num |-> DataType.Filler],
     capability_index |-> 1, data_offset |-> 8 + 8 * num, err |-> ""]

Push(ser, b) == [ser EXCEPT !.buf = @ \o b]

PushType(ser, t) == Push(ser, <<DataType[t]>>)

GetUsize(b, i) == FromLe(SubSeq(b, 8 * i + 1, 8 * i + 8), FALSE)

SetUsize(b, i, n) ==
    LET word == ToLe(n, 8)
    IN  [j \in DOMAIN b |-> IF j \in 8 * i + 1 .. 8 * i + 8 THEN word[j - 8 * i] ELSE b[j]]

(* The capability goes to the next slot, which has to lie before the data. *)
PushCapability(ser, id) ==
    IF ser.capability_index * 8 >= ser.data_offset
    THEN [ser EXCEPT !.err = "TooManyCapabilities"]
    ELSE [ser EXCEPT !.buf = SetUsize(SetUsize(@, ser.capability_index, id), 0, GetUsize(@, 0) + 1),
                     !.capability_index = @ + 1]

SerializeScalar(ser, d) == Push(PushType(ser, d.k), ToLe(d.n, Width[d.k]))

SerializeBool(ser, d) == PushType(ser, IF d.n = 1 THEN "True" ELSE "False")

(* A size class that takes 256 for the largest length of one byte. *)
SizeClassExclusive(len) ==
    IF len <= 256 THEN 8 ELSE IF len <= 65535 THEN 16
    ELSE IF len \div 65536 <= 65535 THEN 32 ELSE 64

(* push_correct_size_type *)
SizeClass(len) ==
    IF len <= 255 THEN 8 ELSE IF len <= 65535 THEN 16
    ELSE IF len \div 65536 <= 65535 THEN 32 ELSE 64

SizedTypes == [String |-> [c8 |-> "String8", c16 |-> "String16", c32 |-> "String32", c64 |-> "String64"],
               Bytes |-> [c8 |-> "Bytes8", c16 |-> "Bytes16", c32 |-> "Bytes32", c64 |-> "Bytes64"]]

SizedType(k, class) ==
    SizedTypes[k][CASE class = 8 -> "c8" [] class = 16 -> "c16" [] class = 32 -> "c32" [] class = 64 -> "c64"]

SerializeStr(ser, d) ==
    LET class == SizeClass(Len(d.s))
    IN  Push(PushType(ser, SizedType(d.k, class)), ToLe(Len(d.s), class \div 8) \o d.s)

(* The length is not known before the text is written, so it is a u64. *)
CollectStr(ser, d) == Push(PushType(ser, "String64"), ToLe(Len(d.s), 8) \o d.s)

(* The index of the slot comes first, then the id is put in the slot. *)
SerializeCapability(ser, d) ==
    LET indexed == Push(PushType(ser, "Capability"), ToLe(ser.capability_index - 1, 2))
        cap == CapabilityOf(d.sub[1])
    IN  IF cap.err # "" THEN [indexed EXCEPT !.err = cap.err] ELSE PushCapability(indexed, cap.id)

VariantHead(ser, d) == Push(PushType(ser, "VariantValue"), ToLe(d.n, 4))

RECURSIVE Serialize(_, _)
(* A failed part ends the serialization: nothing is pushed after it. *)
SerializeParts(ser, parts) ==
    FoldLeft(LAMBDA acc, p : IF acc.err # "" THEN acc ELSE Serialize(acc, p), ser, parts)

SerializeSeq(ser, d) == PushType(SerializeParts(PushType(ser, "SequenceStart"), d.sub), "SequenceEnd")

SerializeMap(ser, d) == PushType(SerializeParts(PushType(ser, "MapStart"), d.sub), "MapEnd")

SerializeVariant(ser, d) ==
    CASE d.k = "Variant" -> Push(PushType(ser, "Variant"), ToLe(d.n, 4))
      [] d.k = "NewtypeVariant" -> IF IsCapability(d) THEN SerializeCapability(ser, d)
                                   ELSE Serialize(VariantHead(ser, d), d.sub[1])
      [] d.k = "TupleVariant" -> SerializeSeq(VariantHead(ser, d), d)
      [] d.k = "StructVariant" -> SerializeMap(VariantHead(ser, d), d)

Variants == {"Variant", "NewtypeVariant", "TupleVariant", "StructVariant"}

Serialize(ser, d) ==
    CASE d.k \in DOMAIN Width -> SerializeScalar(ser, d)
      [] d.k = "Bool" -> SerializeBool(ser, d)
      [] d.k = "Null" -> PushType(ser, "Null")
      [] d.k \in {"String", "Bytes"} -> SerializeStr(ser, d)
      [] d.k = "Display" -> CollectStr(ser, d)
      [] d.k \in {"Some", "Newtype"} -> Serialize(PushType(ser, d.k), d.sub[1])
      [] d.k = "Sequence" -> SerializeSeq(ser, d)
      [] d.k = "Map" -> SerializeMap(ser, d)
      [] d.k \in Variants -> SerializeVariant(ser, d)

ToBytes(d, num) == Serialize(NewSerializer(num), d)

ToBytesCountCap(d) ==
    LET count == Count(d)
    IN  IF count.err # "" THEN [NewSerializer(0) EXCEPT !.err = count.err] ELSE ToBytes(d, count.n)

-----------------------------------------------------------------------------
(* Deserializer, reading into a Value: the input that is left, and the     *)
(* value ValueVisitor makes of what was read.                              *)

Null == Scalar("Null", 0)

Ok(v, in) == [err |-> "", val |-> v, in |-> in]

Fail(e) == [err |-> e, val |-> Null, in |-> <<>>]

Names(c) == {t \in DOMAIN DataType : DataType[t] = c}

TypeOf(c) == CHOOSE t \in Names(c) : TRUE

Rest(in, n) == SubSeq(in, n + 1, Len(in))

TakeScalar(t, in) ==
    LET w == Width[t]
    IN  IF Len(in) < w THEN Fail("EndOfInput")
        ELSE Ok(Scalar(t, FromLe(SubSeq(in, 1, w), t \in Signed)), Rest(in, w))

LengthBytes == [String8 |-> 1, String16 |-> 2, String32 |-> 4, String64 |-> 8,
                Bytes8 |-> 1, Bytes16 |-> 2, Bytes32 |-> 4, Bytes64 |-> 8]

TakeStr(t, in) ==
    LET w == LengthBytes[t]
        len == FromLe(SubSeq(in, 1, w), FALSE)
        k == IF t \in {"String8", "String16", "String32", "String64"} THEN "String" ELSE "Bytes"
    IN  IF Len(in) < w \/ Len(in) - w < len THEN Fail("EndOfInput")
        ELSE Ok(Datum(k, 0, SubSeq(in, w + 1, w + len), <<>>), Rest(in, w + len))

(* visit_enum of the capability's one variant: the id has to be a valid one. *)
CapabilityVisited(id, in) ==
    IF ValidCap(id) THEN Ok(CapValue(id), in) ELSE Fail("InvalidCapabilityId")

TakeCapability(caps, in) ==
    LET i == FromLe(SubSeq(in, 1, 2), FALSE) + 1
    IN  IF Len(in) < 2 THEN Fail("EndOfInput")
        ELSE IF i \notin DOMAIN caps THEN Fail("InvalidCapabilityIndex")
        ELSE CapabilityVisited(caps[i], Rest(in, 2))

EnumVariant(i, v) == Datum("EnumVariant", i, <<>>, <<v>>)

RECURSIVE DeserializeAny(_, _)

(* What serde reads as a u64. *)
AsU64 == {"U8", "U16", "U32", "U64", "I8", "I16", "I32", "I64"}

(* EnumDeserializer: without data the variant's value is the unit.  The    *)
(* index of a capability asks for a u64, which a unit is not.              *)
TakeEnum(caps, in, has_data) ==
    LET index == FromLe(SubSeq(in, 1, 4), FALSE)
        inner == IF has_data THEN DeserializeAny(caps, Rest(in, 4)) ELSE Ok(Null, Rest(in, 4))
        isU64 == inner.val.k \in AsU64 /\ inner.val.n >= 0
    IN  IF Len(in) < 4 THEN Fail("EndOfInput")
        ELSE IF inner.err # "" THEN inner
        ELSE IF index # CapVariant THEN Ok(EnumVariant(index, inner.val), inner.in)
        ELSE IF isU64 THEN CapabilityVisited(inner.val.n, inner.in) ELSE Fail("invalid type")

(* visit_seq over SequenceDeserializer: the end is looked for before the   *)
(* first element and after every element.                                  *)
RECURSIVE VisitSeq(_, _, _)
VisitSeq(caps, in, elems) ==
    IF in = <<>> THEN Fail("EndOfInput")
    ELSE IF Head(in) = DataType.SequenceEnd THEN Ok(Datum("Sequence", 0, <<>>, elems), Tail(in))
    ELSE LET e == DeserializeAny(caps, in)
         IN  IF e.err # "" THEN e ELSE VisitSeq(caps, e.in, Append(elems, e.val))

(* A BTreeMap keeps the last value inserted under a key. *)
Insert(pairs, k, v) == {p \in pairs : p[1] # k} \cup {<<k, v>>}

RECURSIVE VisitMap(_, _, _)
VisitMap(caps, in, pairs) ==
    IF in = <<>> THEN Fail("EndOfInput")
    ELSE IF Head(in) = DataType.MapEnd THEN Ok(MapOf(pairs), Tail(in))
    ELSE LET k == DeserializeAny(caps, in)
             v == DeserializeAny(caps, k.in)
         IN  IF k.err # "" THEN k ELSE IF v.err # "" THEN v
             ELSE VisitMap(caps, v.in, Insert(pairs, k.val, v.val))

Wrapped(k, inner) == IF inner.err # "" THEN inner ELSE Ok(Datum(k, 0, <<>>, <<inner.val>>), inner.in)

AfterFiller(in) ==
    LET data == {i \in DOMAIN in : in[i] # DataType.Filler}
    IN  IF data = {} THEN <<>> ELSE Rest(in, (CHOOSE i \in data : \A j \in data : i <= j) - 1)

DeserializeAny(caps, input) ==
    LET in == AfterFiller(input)
        t == TypeOf(Head(in))
        rest == Tail(in)
    IN  IF in = <<>> THEN Fail("EndOfInput")
        ELSE IF Names(Head(in)) = {} THEN Fail("InvalidDataType")
        ELSE CASE t = "Null" -> Ok(Null, rest)
               [] t \in {"True", "False"} -> Ok(Scalar("Bool", IF t = "True" THEN 1 ELSE 0), rest)
               [] t \in DOMAIN Width -> TakeScalar(t, rest)
               [] t \in DOMAIN LengthBytes -> TakeStr(t, rest)
               [] t \in {"Newtype", "Some"} -> Wrapped(t, DeserializeAny(caps, rest))
               [] t = "SequenceStart" -> VisitSeq(caps, rest, <<>>)
               [] t = "MapStart" -> VisitMap(caps, rest, {})
               [] t \in {"SequenceEnd", "MapEnd"} -> Fail("UnexpectedTerminator")
               [] t \in {"Variant", "VariantValue"} -> TakeEnum(caps, rest, t = "VariantValue")
               [] t = "Capability" -> TakeCapability(caps, rest)

FromBytes(b) ==
    LET count == GetUsize(b, 0)
        caps == [i \in 1 .. count |-> GetUsize(b, i)]
        out == DeserializeAny(caps, Rest(b, 8 + 8 * count))
    IN  IF Len(b) < 8 \/ Len(b) - 8 < 8 * count THEN Fail("EndOfInput")
        ELSE IF out.err = "" /\ out.in # <<>> THEN Fail("TrailingInput") ELSE out

-----------------------------------------------------------------------------
(* Value: made of a datum by ValueSerializer, turned into a datum by its   *)
(* own Serialize, and read from another value by ValueVisitor.             *)

RECURSIVE FromSerialize(_)

(* SequenceBuilder *)
BuildSeq(parts) ==
    LET vs == [i \in DOMAIN parts |-> FromSerialize(parts[i])]
        bad == {i \in DOMAIN vs : vs[i].err # ""}
    IN  IF bad # {} THEN vs[CHOOSE i \in bad : \A j \in bad : i <= j]
        ELSE Ok(Datum("Sequence", 0, <<>>, [i \in DOMAIN vs |-> vs[i].val]), <<>>)

(* MapBuilder, the keys at the odd places *)
BuildMap(parts) ==
    LET vs == BuildSeq(parts)
        entry(i) == <<vs.val.sub[2 * i - 1], vs.val.sub[2 * i]>>
    IN  IF vs.err # "" THEN vs
        ELSE Ok(MapOf(FoldLeft(LAMBDA m, i : Insert(m, entry(i)[1], entry(i)[2]), {},
                               [i \in 1 .. Len(parts) \div 2 |-> i])), <<>>)

Varied(i, v) == IF v.err # "" THEN v ELSE Ok(EnumVariant(i, v.val), <<>>)

ValueOfVariant(d) ==
    LET cap == CapabilityOf(d.sub[1])
    IN  CASE d.k = "Variant" -> Ok(EnumVariant(d.n, Null), <<>>)
          [] d.k = "NewtypeVariant" /\ IsCapability(d) ->
                 IF cap.err # "" THEN Fail(cap.err) ELSE CapabilityVisited(cap.id, <<>>)
          [] d.k = "NewtypeVariant" /\ ~IsCapability(d) -> Varied(d.n, FromSerialize(d.sub[1]))
          [] d.k = "TupleVariant" -> Varied(d.n, BuildSeq(d.sub))
          [] d.k = "StructVariant" -> Varied(d.n, BuildMap(d.sub))

FromSerialize(d) ==
    CASE d.k \in DOMAIN Width \cup {"Bool", "Null", "String", "Bytes"} -> Ok(d, <<>>)
      [] d.k = "Display" -> Ok([d EXCEPT !.k = "String"], <<>>)
      [] d.k \in {"Some", "Newtype"} -> Wrapped(d.k, FromSerialize(d.sub[1]))
      [] d.k = "Sequence" -> BuildSeq(d.sub)
      [] d.k = "Map" -> BuildMap(d.sub)
      [] d.k \in Variants -> ValueOfVariant(d)

RECURSIVE ValueSerialize(_)
(* A variant whose value is Null is written as one that has none. *)
ValueSerialize(v) ==
    LET entries == SetToSeq(v.map)
        parts == [i \in DOMAIN v.sub |-> ValueSerialize(v.sub[i])]
    IN  CASE v.k = "Map" ->
                 [Scalar("Map", 0) EXCEPT !.sub =
                     [j \in 1 .. 2 * Len(entries) |->
                          ValueSerialize(entries[(j + 1) \div 2][2 - (j % 2)])]]
          [] v.k = "Capability" -> CapDatum(v.n)
          [] v.k = "EnumVariant" ->
                 IF v.sub[1] = Null THEN Scalar("Variant", v.n)
                 ELSE [v EXCEPT !.k = "NewtypeVariant", !.sub = parts]
          [] OTHER -> [v EXCEPT !.sub = parts]

RECURSIVE Reserved(_)
(* A variant that has the index of capabilities and is none. *)
Reserved(d) ==
    \/ d.k \in Variants /\ d.n = CapVariant /\ ~IsCapability(d)
    \/ \E i \in DOMAIN d.sub : Reserved(d.sub[i])

RECURSIVE IntoDeserialize(_)
(* Deserializer for &Value, driven by ValueVisitor, which refuses only a   *)
(* reserved variant.                                                       *)
IntoDeserialize(v) ==
    CASE v.k = "Map" -> [v EXCEPT !.map = {<<IntoDeserialize(p[1]), IntoDeserialize(p[2])>> : p \in @}]
      [] OTHER -> [v EXCEPT !.sub = [i \in DOMAIN @ |-> IntoDeserialize(@[i])]]

-----------------------------------------------------------------------------
(* A message on its way. *)

Waiting == Fail("not read yet")

CodecInit ==
    /\ sent \in Data
    /\ datum = sent
    /\ phase = "data" /\ reserve = 0 /\ bytes = <<>> /\ whole = TRUE
    /\ origin = <<>> /\ got = Waiting

(* A datum may be kept as a Value for a while and be serialized from there. *)
ThroughValue ==
    /\ phase = "data" /\ datum = sent
    /\ FromSerialize(datum).err = "" /\ ~Reserved(datum)
    /\ datum' = ValueSerialize(IntoDeserialize(FromSerialize(datum).val))
    /\ UNCHANGED <<sent, phase, reserve, bytes, whole, origin, got>>

Serialized(ser, num) ==
    /\ phase = "data"
    /\ reserve' = num
    /\ IF ser.err = "" THEN phase' = "message" /\ bytes' = ser.buf
       ELSE phase' = "refused" /\ UNCHANGED bytes
    /\ UNCHANGED <<sent, datum, whole, origin, got>>

SerializeCounted == Serialized(ToBytesCountCap(datum), Count(datum).n)

SerializeReserved(num) == Serialized(ToBytes(datum, num), num)

NewId(id, i) == (id % 1024) + 1024 * (100 + i)

(* The kernel copies the message to the receiver's buffer of room bytes:   *)
(* every id is replaced by that of a clone, or by the null id when the     *)
(* clone fails, whether it still fits the buffer or not.  Here either      *)
(* buffer lies within a page; Transfer has the loop that copies a page at  *)
(* a time, and what it gets wrong at the seams.                            *)
ChannelCopy(room) ==
    /\ phase = "message" /\ origin = <<>>
    /\ \E dead \in SUBSET (1 .. GetUsize(bytes, 0)) :
       LET count == GetUsize(bytes, 0)
           bad == dead \cup {i \in 1 .. count : ~ValidCap(GetUsize(bytes, i))}
           id(i) == IF i \in bad THEN 0 ELSE NewId(GetUsize(bytes, i), i)
           copy == FoldLeft(LAMBDA b, i : SetUsize(b, i, id(i)), bytes, [i \in 1 .. count |-> i])
       IN  /\ bytes' = IF room < 8 THEN [i \in 1 .. room |-> 0] ELSE SubSeq(copy, 1, room)
           /\ origin' = IF room < 8 THEN <<>>
                        ELSE [i \in 1 .. count |-> IF i \in bad THEN 0 ELSE GetUsize(bytes, i)]
           /\ whole' = (bad = {} /\ room >= Len(bytes))
    /\ phase' = "received"
    /\ UNCHANGED <<sent, datum, reserve, got>>

(* clone_caps_to_cspace: the message goes to a process that is being made; *)
(* a failed clone ends it, and the clones made before it stay.             *)
CloneCapsToCspace ==
    /\ phase = "message" /\ origin = <<>>
    /\ \E upto \in 0 .. GetUsize(bytes, 0) :
       LET id(i) == NewId(GetUsize(bytes, i), i)
       IN  /\ \A i \in 1 .. upto : ValidCap(GetUsize(bytes, i))
           /\ bytes' = FoldLeft(LAMBDA b, i : SetUsize(b, i, id(i)), bytes, [i \in 1 .. upto |-> i])
           /\ origin' = [i \in 1 .. upto |-> GetUsize(bytes, i)]
           /\ phase' = IF upto = GetUsize(bytes, 0) THEN "received" ELSE "refused"
    /\ UNCHANGED <<sent, datum, reserve, whole, got>>

Deserialize ==
    /\ phase \in {"message", "received"}
    /\ got' = FromBytes(bytes)
    /\ phase' = "read"
    /\ UNCHANGED <<sent, datum, reserve, bytes, whole, origin>>

CodecNext ==
    \/ ThroughValue \/ SerializeCounted \/ Deserialize \/ CloneCapsToCspace
    \/ \E num \in Reserves : SerializeReserved(num)
    \/ \E cut \in Cuts : Len(bytes) >= cut /\ ChannelCopy(Len(bytes) - cut)

CodecSpec == CodecInit /\ [][CodecNext]_codecVars

-----------------------------------------------------------------------------
(* The received capability ids, replaced by the sender's they stand for. *)
RECURSIVE Sent(_)
Sent(v) ==
    LET slot == (v.n \div 1024) - 100
    IN  CASE v.k = "Capability" /\ origin # <<>> -> CapValue(origin[slot])
          [] v.k = "Map" -> MapOf({<<Sent(p[1]), Sent(p[2])>> : p \in v.map})
          [] OTHER -> [v EXCEPT !.sub = [i \in DOMAIN @ |-> Sent(@[i])]]

(* What a receiver reads is what was sent: a message that arrived whole    *)
(* deserializes to the value of the datum the sender serialized, whether   *)
(* directly or by way of a Value, with more slots reserved than needed or  *)
(* just enough, every capability the clone of the one sent in its place;   *)
(* one that was cut short, lost a capability or has a variant with the     *)
(* index of capabilities does not deserialize at all; and only a datum     *)
(* with too few slots or a bad capability is refused.  The copy by the     *)
(* kernel is that of buffers that cross no page boundary.                  *)
ReadsWhatWasSent ==
    LET want == FromSerialize(sent)
    IN  /\ phase = "read" =>
               IF whole /\ want.err = "" /\ ~Reserved(sent) THEN got.err = "" /\ Sent(got.val) = want.val
               ELSE got.err # ""
        /\ phase = "refused" /\ bytes = <<>> =>
               Count(sent).err # "" \/ Count(sent).n > reserve
=============================================================================
