----------------------------- MODULE FlatBuffer -----------------------------
(***************************************************************************)
(* The hand-written FlatBuffers writer of crates/tell-encoding: what its   *)
(* encoders have in common, and a reader for what they write.              *)
(*                                                                         *)
(* A buffer is a sequence of bytes.  A number of several bytes is its      *)
(* value in the first of them and Rest in the others, so that reading it   *)
(* one byte too early or too late shows.  Positions count from 0, as in    *)
(* the code.                                                               *)
(*                                                                         *)
(* The encoders write out one table layout each; here a layout is data:    *)
(*   fields  names in the order of their ids                               *)
(*   at      where the vtable says each field is, from the table on        *)
(*   size    the table size that the vtable gives                          *)
(*   pad     zeros after the vtable, or ToAlign                            *)
(*   body    what is pushed for the table, in order: <<name, width>>       *)
(*   tail    what follows the table, in order: <<name, type>>              *)
(* The parameters of a table are a record of sets: {} for an absent field, *)
(* {v} for one of value v.                                                 *)
(***************************************************************************)
EXTENDS Integers, Sequences, SequencesExt, FiniteSetsExt

Rest == -1
ToAlign == -1
Absent == {}
The(set) == CHOOSE v \in set : TRUE

Zeros(n) == [i \in 1..n |-> 0]
Number(width, v) == [i \in 1..width |-> IF i = 1 THEN v ELSE Rest]

\* Mutant: the buffer is padded to an even length.
Align2(buf) == buf \o Zeros(Len(buf) % 2)

Align4(buf) == buf \o Zeros((-Len(buf)) % 4)

ByteVector(data) == Number(4, Len(data)) \o data
String(text) == ByteVector(text) \o <<0>>

\* Mutant: the offset counts from the start of the buffer.
PatchFromStart(buf, at, target) == [buf EXCEPT ![at + 1] = target]

\* patch_offset, over a placeholder
Patch(buf, at, target) == [buf EXCEPT ![at + 1] = target - at]
-----------------------------------------------------------------------------
\* A vector of tables begins with its length and a slot for each of them,
\* which is patched once the table is written.
VectorHead(buf, n) == buf \o Number(4, n) \o Zeros(4 * n)

PatchSlots(buf, slots, tables) ==
    LET patched[n \in 0..Len(tables)] ==
            IF n = 0 THEN buf ELSE Patch(patched[n - 1], slots + 4 * (n - 1), tables[n])
    IN  patched[Len(tables)]

\* The whole vector.  Write(b, e) puts e behind b and returns the buffer and
\* where the table is.
TableVector(buf, elements, Write(_, _)) ==
    LET OneMore(so_far, e) ==
            LET w == Write(Align4(so_far.buf), e)
            IN  [buf |-> w.buf, tables |-> Append(so_far.tables, w.at)]
        upTo[n \in 0..Len(elements)] ==
            IF n = 0 THEN [buf |-> VectorHead(buf, Len(elements)), tables |-> <<>>]
            ELSE OneMore(upTo[n - 1], elements[n])
        all == upTo[Len(elements)]
    IN  PatchSlots(all.buf, Len(buf) + 4, all.tables)

VTable(layout, params) ==
    Number(2, 4 + 2 * Len(layout.fields)) \o Number(2, layout.size) \o
    FlattenSeq([i \in 1..Len(layout.fields) |->
        Number(2, IF params[layout.fields[i]] = Absent THEN 0 ELSE layout.at[layout.fields[i]])])

Padded(buf, pad) == IF pad = ToAlign THEN Align4(buf) ELSE buf \o Zeros(pad)

TailFields(layout) == {part[1] : part \in ToSet(layout.tail)}

\* Scalars as they are, zeros for padding and for offsets to be patched.
Body(layout, params) ==
    FlattenSeq([i \in 1..Len(layout.body) |->
        LET name == layout.body[i][1]
            width == layout.body[i][2]
        IN  IF name \in DOMAIN params \ TailFields(layout) /\ params[name] # Absent
            THEN Number(width, The(params[name])) ELSE Zeros(width)])

\* Where in the table the code remembers having pushed a placeholder.
PlaceOf(layout, name) ==
    LET behind[n \in 0..Len(layout.body)] ==
            IF n = 0 THEN 4 ELSE behind[n - 1] + layout.body[n][2]
    IN  behind[(CHOOSE n \in 1..Len(layout.body) : layout.body[n][1] = name) - 1]

\* A vtable and its table, offsets not yet patched.
TableHead(buf, layout, params) ==
    LET head == Padded(buf \o VTable(layout, params), layout.pad)
    IN  [buf |-> head \o Number(4, Len(head) - Len(buf)) \o Body(layout, params),
         at  |-> Len(head)]

\* Every part of the tail is aligned, present or not, but one that aligns
\* itself (or does not).
PartStart(buf, type) == IF type = "histogram" THEN buf ELSE Align4(buf)

\* A table and what its offsets lead to.  Append_(b, type, v) puts v behind b
\* and returns the buffer and the position to patch in.
TableInto(buf, layout, params, Append_(_, _, _)) ==
    LET t == TableHead(buf, layout, params)
        OnePart(b, part) ==
            LET name == part[1]
                w == Append_(PartStart(b, part[2]), part[2], The(params[name]))
            IN  IF params[name] = Absent THEN PartStart(b, part[2])
                ELSE Patch(w.buf, t.at + PlaceOf(layout, name), w.at)
        upTo[n \in 0..Len(layout.tail)] ==
            IF n = 0 THEN t.buf ELSE OnePart(upTo[n - 1], layout.tail[n])
    IN  [t EXCEPT !.buf = upTo[Len(layout.tail)]]

AppendText(buf, type, v) ==
    [buf |-> buf \o (IF type = "string" THEN String(v) ELSE ByteVector(v)), at |-> Len(buf)]
-----------------------------------------------------------------------------
(* A reader, from the FlatBuffers format: it knows the field ids and types
   of a table and follows offsets. *)

NumberAt(buf, pos) == buf[pos + 1]
Follow(buf, pos) == pos + NumberAt(buf, pos)

VTableAt(buf, table) == table - NumberAt(buf, table)

\* The position of a field, in a set, or {} when the vtable has none.
FieldAt(buf, table, id) ==
    LET slot == NumberAt(buf, VTableAt(buf, table) + 4 + 2 * id)
    IN  IF slot = 0 THEN {} ELSE {table + slot}

VectorAt(buf, pos) ==
    LET v == Follow(buf, pos) IN SubSeq(buf, v + 5, v + 4 + NumberAt(buf, v))

TablesAt(buf, pos) ==
    LET v == Follow(buf, pos)
    IN  [i \in 1..NumberAt(buf, v) |-> Follow(buf, v + 4 * i)]
=============================================================================
