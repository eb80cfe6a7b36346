------------------------------ MODULE Encoding ------------------------------
(***************************************************************************)
(* How a chunk of a queue becomes a frame: worker/encode.rs with the       *)
(* encoders of crates/tell-encoding.  The chunk is encoded into data_buf,  *)
(* and data_buf wrapped into batch_buf; the worker keeps both buffers and  *)
(* uses them again for the next chunk, of whatever kind.                   *)
(*                                                                         *)
(* Nothing runs beside an encoder, so a call is one action.                *)
(***************************************************************************)
EXTENDS FlatBuffer

CONSTANTS
    Chunks,             \* kind |-> chunks of that queue: sequences of entries
    ApiKey,             \* Sender.api_key
    Service, Source,    \* Sender.service and Sender.source: {} or {text}
    Version,            \* DEFAULT_VERSION
    MaxEntries          \* bound: entries of a chunk and the one before it

Kinds == {"events", "logs", "metrics"}

(* What is queued.  A byte, a number and the bits of a float are natural
   numbers; an Option is the set of what it holds. *)
Bytes == Seq(Nat)
Optional(S) == {o \in SUBSET S : \A x, y \in o : x = y}

QueuedEvent == [event_type : Nat, timestamp : Nat, device_id : Bytes, session_id : Optional(Bytes),
                event_name : Optional(Bytes), payload : Optional(Bytes)]

QueuedLog == [level : Nat, timestamp : Nat, session_id : Optional(Bytes), component : Optional(Bytes),
              service : Optional(Bytes), payload : Optional(Bytes)]

LabelParam == [key : Bytes, value : Bytes]
Bucket == [upper_bound : Nat, count : Nat]
HistogramPoint == [count : Nat, sum : Nat, min : Nat, max : Nat, buckets : Seq(Bucket)]

QueuedMetric == [metric_type : Nat, timestamp : Nat, name : Bytes, value : Nat, labels : Seq(LabelParam),
                 temporality : Nat, histogram : Optional(HistogramPoint)]

ASSUME EncodingAssumption ==
    /\ DOMAIN Chunks = Kinds
    /\ Chunks["events"] \subseteq Seq(QueuedEvent)
    /\ Chunks["logs"] \subseteq Seq(QueuedLog)
    /\ Chunks["metrics"] \subseteq Seq(QueuedMetric)
    /\ ApiKey \in Bytes /\ Len(ApiKey) = 16
    /\ Service \in Optional(Bytes) /\ Source \in Optional(Bytes)
    /\ Version \in Nat \ {0} /\ MaxEntries \in Nat

VARIABLES
    data_buf, batch_buf,    \* the fields of Sender
    kind, chunk             \* what was encoded last

vars == <<data_buf, batch_buf, kind, chunk>>

SchemaType == [events |-> 1, logs |-> 2, metrics |-> 3]
BatchId == 7        \* next_batch_id: never 0

Init == data_buf = <<>> /\ batch_buf = <<>> /\ kind = "none" /\ chunk = <<>>
-----------------------------------------------------------------------------
(* The layouts *)

EventSlots ==
    [event_type |-> 28, timestamp |-> 20, service |-> 32, device_id |-> 4, session_id |-> 8,
     event_name |-> 12, payload |-> 16]

EventTable == [
    fields |-> <<"event_type", "timestamp", "service", "device_id", "session_id", "event_name",
                 "payload">>,
    at     |-> EventSlots, size |-> 36, pad |-> 2,
    body   |-> << <<"device_id", 4>>, <<"session_id", 4>>, <<"event_name", 4>>, <<"payload", 4>>,
                  <<"timestamp", 8>>, <<"event_type", 1>>, <<"pad", 3>>, <<"service", 4>> >>,
    tail   |-> << <<"device_id", "bytes">>, <<"session_id", "bytes">>, <<"service", "string">>,
                  <<"event_name", "string">>, <<"payload", "bytes">> >>]

LogTable == [
    fields |-> <<"event_type", "session_id", "level", "timestamp", "source", "service", "payload">>,
    at     |-> [event_type |-> 28, session_id |-> 4, level |-> 29, timestamp |-> 20, source |-> 8,
                service |-> 12, payload |-> 16],
    size   |-> 32, pad |-> 2,
    body   |-> << <<"session_id", 4>>, <<"source", 4>>, <<"service", 4>>, <<"payload", 4>>,
                  <<"timestamp", 8>>, <<"event_type", 1>>, <<"level", 1>>, <<"pad", 2>> >>,
    tail   |-> << <<"session_id", "bytes">>, <<"source", "string">>, <<"service", "string">>,
                  <<"payload", "bytes">> >>]

MetricTable == [
    fields |-> <<"metric_type", "timestamp", "name", "value", "source", "service", "labels",
                 "temporality", "histogram", "session_id", "int_labels">>,
    at     |-> [metric_type |-> 48, timestamp |-> 32, name |-> 4, value |-> 40, source |-> 8,
                service |-> 12, labels |-> 16, temporality |-> 49, histogram |-> 24,
                session_id |-> 28],
    size   |-> 52, pad |-> 2,
    body   |-> << <<"name", 4>>, <<"source", 4>>, <<"service", 4>>, <<"labels", 4>>,
                  <<"int_labels", 4>>, <<"histogram", 4>>, <<"session_id", 4>>, <<"timestamp", 8>>,
                  <<"value", 8>>, <<"metric_type", 1>>, <<"temporality", 1>>, <<"pad", 2>> >>,
    tail   |-> << <<"name", "string">>, <<"source", "string">>, <<"service", "string">>,
                  <<"session_id", "bytes">>, <<"labels", "labels">>, <<"histogram", "histogram">> >>]

LabelTable == [
    fields |-> <<"key", "value">>, at |-> [key |-> 4, value |-> 8], size |-> 12, pad |-> 0,
    body   |-> << <<"key", 4>>, <<"value", 4>> >>,
    tail   |-> << <<"key", "string">>, <<"value", "string">> >>]

HistogramTable == [
    fields |-> <<"count", "sum", "buckets", "min", "max">>,
    at     |-> [count |-> 4, sum |-> 12, buckets |-> 20, min |-> 24, max |-> 32],
    size   |-> 40, pad |-> ToAlign,
    body   |-> << <<"count", 8>>, <<"sum", 8>>, <<"buckets", 4>>, <<"min", 8>>, <<"max", 8>> >>,
    tail   |-> << <<"buckets", "buckets">> >>]

BucketTable == [
    fields |-> <<"upper_bound", "count">>, at |-> [upper_bound |-> 4, count |-> 12],
    size   |-> 20, pad |-> ToAlign,
    body   |-> << <<"upper_bound", 8>>, <<"count", 8>> >>,
    tail   |-> <<>>]

BatchTable == [
    fields |-> <<"api_key", "schema_type", "version", "batch_id", "data", "source_ip">>,
    at     |-> [api_key |-> 4, schema_type |-> 24, version |-> 25, batch_id |-> 16, data |-> 8],
    size   |-> 32, pad |-> 0,
    body   |-> << <<"api_key", 4>>, <<"data", 4>>, <<"source_ip", 4>>, <<"batch_id", 8>>,
                  <<"schema_type", 1>>, <<"version", 1>>, <<"pad", 2>> >>,
    tail   |-> << <<"api_key", "bytes">>, <<"data", "bytes">> >>]

EntryTable == [events |-> EventTable, logs |-> LogTable, metrics |-> MetricTable]
-----------------------------------------------------------------------------
(* The encoders *)

\* A record whose fields are all present.
Present(rec) == [name \in DOMAIN rec |-> {rec[name]}]

\* encode_labels, encode_buckets, encode_histogram
Labels(buf, labels) ==
    TableVector(buf, labels, LAMBDA b, label : TableInto(b, LabelTable, Present(label), AppendText))

Buckets(buf, buckets) ==
    TableVector(buf, buckets,
                LAMBDA b, bucket : TableInto(b, BucketTable, Present(bucket), AppendText))

HistogramParams(h) == [Present(h) EXCEPT !["buckets"] = @ \ {<<>>}]

HistogramInto(buf, h) ==
    TableInto(buf, HistogramTable, HistogramParams(h),
              LAMBDA b, type, v : [buf |-> Buckets(b, v), at |-> Len(b)])

AppendAny(buf, type, v) ==
    CASE type = "labels"    -> [buf |-> Labels(buf, v), at |-> Len(buf)]
      [] type = "histogram" -> HistogramInto(buf, v)
      [] OTHER              -> AppendText(buf, type, v)

\* Mutant: the root offset of an entry is its position in the whole buffer.
RootAbsolute(root, table) == table

RootOf(root, table) == table - root

\* encode_event_into, encode_log_entry_into, encode_metric_entry_into
EntryInto(buf, layout, params) ==
    LET t == TableInto(buf \o Zeros(4), layout, params, AppendAny)
    IN  [t.buf EXCEPT ![Len(buf) + 1] = RootOf(Len(buf), t.at)]

EntryAlone(layout, params) == EntryInto(<<>>, layout, params)

\* A header with one field, the vector of entries.
Header == << <<6, 2>>, <<8, 2>>, <<4, 2>>, <<0, 2>>, <<8, 4>>, <<0, 4>> >>
WithHeader(buf) ==
    buf \o Number(4, 12) \o FlattenSeq([i \in 1..Len(Header) |-> Number(Header[i][2], Header[i][1])])
EntriesAt == 16     \* the header's offset to the vector

\* The table of an entry written at `start`, from the root offset read back.
TableOf(buf, start) == start + NumberAt(buf, start)

\* encode_event_data_into, encode_log_data_into, encode_metric_data_into
DataInto(buf, layout, entries) ==
    LET head == Align4(WithHeader(buf))
        Write(b, params) ==
            LET e == EntryInto(b, layout, params) IN [buf |-> e, at |-> TableOf(e, Len(b))]
    IN  Patch(TableVector(head, entries, Write), Len(buf) + EntriesAt, Len(head))

\* encode_event_data, encode_log_data, encode_metric_data: of entries that are
\* encoded already.
DataOf(encoded) ==
    LET Write(b, bytes) == [buf |-> b \o bytes, at |-> TableOf(b \o bytes, Len(b))]
    IN  Patch(TableVector(WithHeader(<<>>), encoded, Write), EntriesAt, Len(WithHeader(<<>>)))

\* encode_batch_into.  Its root offset is a position in the whole buffer.
BatchInto(buf, params) ==
    LET t == TableInto(buf \o Zeros(4), BatchTable, params, AppendText)
    IN  [t.buf EXCEPT ![Len(buf) + 1] = t.at]
-----------------------------------------------------------------------------
(* worker/encode.rs *)

Or(own, default) == IF own = {} THEN default ELSE own

EventParams(e) ==
    [event_type |-> {e.event_type}, timestamp |-> {e.timestamp}, service |-> Service,
     device_id |-> {e.device_id}, session_id |-> e.session_id, event_name |-> e.event_name,
     payload |-> e.payload]

LogParams(l) ==
    [event_type |-> {1}, session_id |-> l.session_id, level |-> {l.level},
     timestamp |-> {l.timestamp}, source |-> Or(l.component, Source), service |-> Or(l.service, Service),
     payload |-> l.payload]

MetricParams(m) ==
    [metric_type |-> {m.metric_type}, timestamp |-> {m.timestamp}, name |-> {m.name},
     value |-> {m.value}, source |-> Source, service |-> Service,
     labels |-> {m.labels} \ {<<>>}, temporality |-> {m.temporality}, histogram |-> m.histogram,
     session_id |-> {}, int_labels |-> {}]

ParamsOf(k, entry) ==
    CASE k = "events" -> EventParams(entry) [] k = "logs" -> LogParams(entry)
      [] k = "metrics" -> MetricParams(entry)

AllParams(k, entries) == [i \in 1..Len(entries) |-> ParamsOf(k, entries[i])]

Cleared(buf) == <<>>

\* encode_events, encode_logs, encode_metrics, and finish_batch
Encode(k, entries) ==
    /\ Len(chunk) + Len(entries) <= MaxEntries
    /\ kind' = k /\ chunk' = entries
    /\ data_buf' = DataInto(Cleared(data_buf), EntryTable[k], AllParams(k, entries))
    /\ batch_buf' = BatchInto(Cleared(batch_buf),
          [api_key |-> {ApiKey}, schema_type |-> {SchemaType[k]}, version |-> {Version},
           batch_id |-> {BatchId}, source_ip |-> {},
           data |-> {SubSeq(data_buf', Len(Cleared(data_buf)) + 1, Len(data_buf'))}])

Next == \E k \in Kinds : \E entries \in Chunks[k] : Encode(k, entries)

Spec == Init /\ [][Next]_vars
-----------------------------------------------------------------------------
(* What a peer reads, from the field ids documented with each encoder *)

EventSchema == <<"event_type", "timestamp", "service", "device_id", "session_id", "event_name",
                 "payload">>
LogSchema == <<"event_type", "session_id", "level", "timestamp", "source", "service", "payload">>
MetricSchema == <<"metric_type", "timestamp", "name", "value", "source", "service", "labels",
                  "temporality", "histogram", "session_id", "int_labels">>
Schema == [events |-> EventSchema, logs |-> LogSchema, metrics |-> MetricSchema]

Texts == {"service", "source", "device_id", "session_id", "event_name", "payload", "name"}

ReadLabel(buf, table) ==
    [key |-> VectorAt(buf, The(FieldAt(buf, table, 0))),
     value |-> VectorAt(buf, The(FieldAt(buf, table, 1)))]

Scalar(buf, table, id) == NumberAt(buf, The(FieldAt(buf, table, id)))

ReadHistogram(buf, table) ==
    LET tables == UNION {{TablesAt(buf, at)} : at \in FieldAt(buf, table, 2)}
        ReadBucket(t) == [upper_bound |-> Scalar(buf, t, 0), count |-> Scalar(buf, t, 1)]
    IN  [count |-> Scalar(buf, table, 0), sum |-> Scalar(buf, table, 1),
         buckets |-> IF tables = {} THEN <<>>
                     ELSE [i \in 1..Len(The(tables)) |-> ReadBucket(The(tables)[i])],
         min |-> Scalar(buf, table, 3), max |-> Scalar(buf, table, 4)]

ReadValue(buf, name, pos) ==
    CASE name \in Texts     -> VectorAt(buf, pos)
      [] name = "labels"    -> [i \in 1..Len(TablesAt(buf, pos)) |->
                                    ReadLabel(buf, TablesAt(buf, pos)[i])]
      [] name = "histogram" -> ReadHistogram(buf, Follow(buf, pos))
      [] OTHER              -> NumberAt(buf, pos)

ReadEntry(buf, table, schema) ==
    [name \in ToSet(schema) |->
        LET id == CHOOSE i \in 0..(Len(schema) - 1) : schema[i + 1] = name
        IN  {ReadValue(buf, name, pos) : pos \in FieldAt(buf, table, id)}]

\* The root offset of a buffer of its own.
Root(buf) == NumberAt(buf, 0)

BatchData == VectorAt(batch_buf, The(FieldAt(batch_buf, Root(batch_buf), 4)))
EntryTables(data) == TablesAt(data, The(FieldAt(data, Root(data), 0)))
Entries ==
    LET data == BatchData
        tables == EntryTables(data)
    IN  [i \in 1..Len(tables) |-> ReadEntry(data, tables[i], Schema[kind])]
-----------------------------------------------------------------------------
Encoded == kind # "none"

\* A batch is its envelope and its data, nothing left over from the batch
\* before it.
TypeOK ==
    /\ kind \in Kinds \cup {"none"}
    /\ Encoded => chunk \in Chunks[kind]
    /\ data_buf \in Seq(Nat \cup {Rest}) /\ batch_buf \in Seq(Nat \cup {Rest})
    /\ Encoded => Len(batch_buf) = 72 + Len(data_buf)

\* A reader that knows only the documented field ids finds in a batch the key,
\* the kind, and every entry of the chunk with each of its fields, the absent
\* ones absent, whatever the lengths before them and whatever was encoded
\* before in the same buffers.
ReadsBack ==
    Encoded =>
        /\ VectorAt(batch_buf, The(FieldAt(batch_buf, Root(batch_buf), 0))) = ApiKey
        /\ Scalar(batch_buf, Root(batch_buf), 1) = SchemaType[kind]
        /\ Scalar(batch_buf, Root(batch_buf), 2) = Version
        /\ Entries = AllParams(kind, chunk)

\* Encoding the entries one by one and then collecting them gives the same
\* bytes as encoding them in place (metric_test.rs:272, for every entry).
PreEncodedAgrees ==
    Encoded =>
        data_buf = DataOf([i \in 1..Len(chunk) |->
                              EntryAlone(EntryTable[kind], AllParams(kind, chunk)[i])])

\* Where a reader is led by the offset at `pos` to a vector of tables.
TablesOnFours(buf, pos) ==
    Follow(buf, pos) % 4 = 0 /\ \A table \in ToSet(TablesAt(buf, pos)) : table % 4 = 0

\* ... by the offsets of a label, to its key and its value,
LabelOnFours(buf, label) ==
    \A id \in {0, 1} : \A pos \in FieldAt(buf, label, id) : Follow(buf, pos) % 4 = 0

\* ... by a field of an entry, to a text, to labels and what is in them, to a
\* histogram and its buckets,
ValueOnFours(buf, name, pos) ==
    /\ name \in Texts \cup {"labels", "histogram"} => Follow(buf, pos) % 4 = 0
    /\ name = "labels" =>
          /\ TablesOnFours(buf, pos)
          /\ \A label \in ToSet(TablesAt(buf, pos)) : LabelOnFours(buf, label)
    /\ name = "histogram" =>
          \A at \in FieldAt(buf, Follow(buf, pos), 2) : TablesOnFours(buf, at)

\* ... and by an entry.
EntryOnFours(buf, table, schema) ==
    \A i \in 1..Len(schema) : \A pos \in FieldAt(buf, table, i - 1) : ValueOnFours(buf, schema[i], pos)

\* Every table, vector and string that the offsets of a batch and of its data
\* lead to starts at a multiple of four of its buffer: the root and the entries
\* with what is in them to the last label and bucket, and in the batch the key
\* and the data, which keep their alignment in it so.
Aligned ==
    Encoded =>
        /\ Root(batch_buf) % 4 = 0
        /\ \A id \in {0, 4} : \A pos \in FieldAt(batch_buf, Root(batch_buf), id) :
              Follow(batch_buf, pos) % 4 = 0
        /\ Root(data_buf) % 4 = 0
        /\ \A pos \in FieldAt(data_buf, Root(data_buf), 0) : TablesOnFours(data_buf, pos)
        /\ \A table \in ToSet(EntryTables(data_buf)) : EntryOnFours(data_buf, table, Schema[kind])

\* Does not hold.  metric.rs:384, "14 bytes, aligned to 16": behind labels the
\* vtable of a histogram may start anywhere, and only its end is aligned.
HistogramVTableIs16 ==
    kind = "metrics" =>
        \A table \in ToSet(EntryTables(data_buf)) : \A at \in FieldAt(data_buf, table, 8) :
            NumberAt(data_buf, Follow(data_buf, at)) = 16
=============================================================================
