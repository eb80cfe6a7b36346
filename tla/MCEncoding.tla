----------------------------- MODULE MCEncoding -----------------------------
(***************************************************************************)
(* Values for the constants of Encoding.  What an encoder can get wrong    *)
(* depends on which fields are absent and on lengths modulo four, of one   *)
(* entry or of the one before it: so optional fields are absent, empty or  *)
(* of lengths with different remainders, and a chunk has up to two         *)
(* entries.  Each text is of a byte of its own.                            *)
(***************************************************************************)
EXTENDS Encoding

Text(n, c) == [i \in 1..n |-> c]
UUID(c) == Text(16, c)
SomeKey == UUID(201)
SomeService == {Text(3, 202)}
SomeSource == {Text(2, 203)}

Event == [event_type : {1}, timestamp : {11}, device_id : {UUID(21)},
          session_id : {{}, {UUID(22)}}, event_name : {{}, {Text(1, 23)}, {Text(2, 23)}},
          payload : {{}, {<<>>}, {Text(3, 24)}}]

Log == [level : {3}, timestamp : {12}, session_id : {{}, {UUID(31)}},
        component : {{}, {Text(1, 32)}}, service : {{}, {Text(4, 33)}},
        payload : {{}, {Text(2, 34)}}]

Label == [key : {Text(1, 41)}, value : {Text(2, 42), Text(3, 42)}]
SomeBuckets == {<<>>, << [upper_bound |-> 51, count |-> 52], [upper_bound |-> 53, count |-> 54] >>}
SomeHistogram == [count : {55}, sum : {56}, min : {57}, max : {58}, buckets : SomeBuckets]
Metric == [metric_type : {2}, timestamp : {13}, name : {Text(2, 43), Text(3, 43)}, value : {14},
           labels : {<<>>} \cup {<<l>> : l \in Label} \cup {<<l, l>> : l \in Label},
           temporality : {1}, histogram : {{}} \cup {{h} : h \in SomeHistogram}]

ChunksOf(entries) == {<<e>> : e \in entries} \cup {<<e, f>> : e, f \in entries}
SomeChunks == [events |-> ChunksOf(Event), logs |-> ChunksOf(Log), metrics |-> ChunksOf(Metric)]
=============================================================================
