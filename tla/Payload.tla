------------------------------- MODULE Payload -------------------------------
(***************************************************************************)
(* The JSON payloads of crates/tell/src/payload.rs and props.rs, as        *)
(* sequences of tokens: braces, commas, and a member <<key, value>> for    *)
(* each `"key":value`.  No bytes at all, <<>>, stands for None.            *)
(***************************************************************************)
EXTENDS Naturals, Sequences, SequencesExt

OpenBrace  == <<"{">>
CloseBrace == <<"}">>
Comma == <<",">>
NotAnObject == << <<"null">> >>

\* A key with its value, by number; and a key whose value the serializer gave
\* up on: Props ignores its error and keeps what it has written of the value.
Member == STRING \X Nat
CutOff == <<"key", "cut", "off">>

\* What payloads are made of.
Token == {OpenBrace, CloseBrace, Comma, <<"null">>, CutOff} \cup Member

\* struct JsonObject: with_capacity, separator, field, fragment, object, finish.
Start == <<OpenBrace>>

Separated(buf) == IF Len(buf) > 1 THEN Append(buf, Comma) ELSE buf

Field(buf, member) == Append(Separated(buf), member)

\* Mutant: an empty fragment is spliced like any other.
FragmentAlways(buf, fragment) == Separated(buf) \o fragment

Fragment(buf, fragment) ==
    IF fragment = <<>> THEN buf ELSE Separated(buf) \o fragment

\* object_inner: the members of an object that has any.
ObjectInner(bytes) ==
    IF Len(bytes) > 2 /\ Head(bytes) = OpenBrace /\ Last(bytes) = CloseBrace
    THEN SubSeq(bytes, 2, Len(bytes) - 1)
    ELSE <<>>

Object(buf, bytes) ==
    IF ObjectInner(bytes) = <<>> THEN buf ELSE Separated(buf) \o ObjectInner(bytes)

Finish(buf) == Append(buf, CloseBrace)

Fields(members) ==
    LET buf[n \in 0..Len(members)] == IF n = 0 THEN Start ELSE Field(buf[n - 1], members[n])
    IN buf[Len(members)]

\* Props::add and finish, a CutOff being added like any other member, and what
\* serde_json writes of a map.
Serialize(members) == Finish(Fields(members))
-----------------------------------------------------------------------------
(* What a reader of JSON makes of a payload *)

MembersIn(bytes) == {i \in DOMAIN bytes : Len(bytes[i]) = 2}
KeysOf(bytes) == {bytes[i][1] : i \in MembersIn(bytes)}

\* Of members with the same key, the last counts.
ValueOf(bytes, key) == bytes[Max({i \in MembersIn(bytes) : bytes[i][1] = key})][2]

MapOf(bytes) == [k \in KeysOf(bytes) |-> ValueOf(bytes, k)]

IsObject(bytes) ==
    LET inner == SubSeq(bytes, 2, Len(bytes) - 1) IN
    /\ Len(bytes) >= 2 /\ Head(bytes) = OpenBrace /\ Last(bytes) = CloseBrace
    /\ inner = <<>> \/ Len(inner) % 2 = 1
    /\ \A i \in 1..Len(inner) : IF i % 2 = 1 THEN Len(inner[i]) = 2 ELSE inner[i] = Comma
=============================================================================
