-------------------------------- MODULE Calls --------------------------------
(***************************************************************************)
(* What the methods of Tell do before they enqueue (client/events.rs,      *)
(* logs.rs, metrics.rs), beside other threads that register super          *)
(* properties and reset the session (client/mod.rs).  The session id and   *)
(* the super properties are behind a lock each, so an access is one step,  *)
(* but a call accesses them one after the other.  The tracing layer        *)
(* (crates/tell-tracing) turns an event with its fields into a log call.   *)
(*                                                                         *)
(* pc[t] is what thread t does next:                                       *)
(*   "idle"      begin a call                                              *)
(*   "session"   read_session_id                                           *)
(*   "check"     validate its arguments                                    *)
(*   "fragment"  super_fragment                                            *)
(*   "enqueue"   put the entry into the channel                            *)
(***************************************************************************)
EXTENDS Payload, FiniteSets

CONSTANTS
    Threads,
    Kinds,          \* the methods called
    Arguments,      \* serialized properties a caller passes
    Events,         \* fields of tracing events, in order; see EventField
    MaxCalls,       \* bound: calls begun
    MaxChanges      \* bound: calls of register, unregister and reset_session

AllKinds == {"track", "revenue", "group", "identify", "alias", "log", "trace", "metric"}

\* A field of a tracing event: its name, what it is recorded as (a string, the
\* Debug form of something, or a number or boolean), and its value.
EventField == [name : STRING, as : {"str", "debug", "number"}, value : Nat]

\* Properties become bytes in IntoPayload only: none, JSON that serde_json
\* wrote, an object or not, or Props, which may be cut off inside.
ASSUME CallsAssumption ==
    /\ Kinds \subseteq AllKinds /\ MaxCalls \in Nat /\ MaxChanges \in Nat
    /\ Arguments \subseteq Seq(Token)
    /\ \A fields \in Events : fields \in Seq(EventField)

NoSession == 0
CallerSession == 100        \* the sid passed to a *_with_session method

VARIABLES
    enabled,        \* TellConfig.enable_session
    session,        \* Inner.session_id, counted
    map, fragment,  \* SuperProps
    pc,
    call,           \* the call of each thread
    sid, super,     \* the session id and the fragment it has read
    last,           \* the entry enqueued last: nothing here reads the channel,
                    \* so the ones before it do not matter
    \* history
    sessions, maps, \* ids and super properties in force since each call began
    calls, changes

vars == <<enabled, session, map, fragment, pc, call, sid, super, last,
          sessions, maps, calls, changes>>
shared == <<enabled, session, map, fragment, changes>>

\* Methods stamped with the session, methods that merge super properties.
Stamped == {"track", "revenue", "log", "trace"}
Merging == {"track", "revenue", "group"}

Call == [kind : Kinds \ {"trace"}, sid : {NoSession, CallerSession}, args : Arguments,
         fields : {<<>>}, valid : BOOLEAN]
        \cup [kind : Kinds \cap {"trace"}, sid : {NoSession}, args : {<<>>}, fields : Events,
              valid : BOOLEAN]
NoCall == [kind |-> "none", sid |-> NoSession, args |-> <<>>, fields |-> <<>>, valid |-> FALSE]
NoEntry == [call |-> NoCall, session |-> NoSession, payload |-> <<>>, sessions |-> {}, maps |-> {}]

Ids == 0..(MaxChanges + 1) \cup {CallerSession}

TypeOK ==
    /\ enabled \in BOOLEAN
    /\ session \in 0..(MaxChanges + 1) /\ (session = NoSession) = ~enabled
    /\ IsObject(Finish(Start \o fragment))
    /\ pc \in [Threads -> {"idle", "session", "check", "fragment", "enqueue"}]
    /\ call \in [Threads -> Call \cup {NoCall}]
    /\ sid \in [Threads -> Ids]
    /\ calls \in 0..MaxCalls /\ changes \in 0..MaxChanges
    /\ \A t \in Threads : sessions[t] \subseteq Ids

Init ==
    /\ enabled \in BOOLEAN
    /\ session = IF enabled THEN 1 ELSE NoSession
    /\ map = MapOf(<<>>) /\ fragment = <<>>
    /\ pc = [t \in Threads |-> "idle"]
    /\ call = [t \in Threads |-> NoCall]
    /\ sid = [t \in Threads |-> NoSession] /\ super = [t \in Threads |-> <<>>]
    /\ last = NoEntry
    /\ sessions = [t \in Threads |-> {}] /\ maps = [t \in Threads |-> {}]
    /\ calls = 0 /\ changes = 0
-----------------------------------------------------------------------------
(* The client's shared state.  Each of these is one critical section. *)

\* Every call under way sees that another session and map are in force.
Noticed ==
    /\ sessions' = [t \in Threads |-> IF pc[t] = "idle" THEN {} ELSE sessions[t] \cup {session'}]
    /\ maps' = [t \in Threads |-> IF pc[t] = "idle" THEN {} ELSE maps[t] \cup {map'}]
    /\ changes < MaxChanges /\ changes' = changes + 1
    /\ UNCHANGED <<enabled, pc, call, sid, super, last, calls>>

MapMembers(m) == LET keys == SetToSeq(DOMAIN m) IN [i \in 1..Len(keys) |-> <<keys[i], m[keys[i]]>>]

\* Mutant: the fragment grows by what is registered.
AppendedFragment(m) == ObjectInner(Finish(Fragment(Start \o fragment, ObjectInner(Serialize(MapMembers(m))))))

\* SuperProps::rebuild
RebuiltFragment(m) == ObjectInner(Serialize(MapMembers(m)))

Extended(m, n) == [k \in DOMAIN m \cup DOMAIN n |-> IF k \in DOMAIN n THEN n[k] ELSE m[k]]

\* What serde_json does not read as an object is ignored, broken Props too.
Register(args) ==
    /\ IsObject(args)
    /\ map' = Extended(map, MapOf(args))
    /\ fragment' = RebuiltFragment(map')
    /\ UNCHANGED session
    /\ Noticed

Unregister(key) ==
    /\ key \in DOMAIN map
    /\ map' = [k \in DOMAIN map \ {key} |-> map[k]]
    /\ fragment' = RebuiltFragment(map')
    /\ UNCHANGED session
    /\ Noticed

\* reset_session: without a session it only reports an error.
ResetTo == IF session = NoSession THEN NoSession ELSE session + 1

ResetSession ==
    /\ session' = ResetTo
    /\ UNCHANGED <<map, fragment>>
    /\ Noticed
-----------------------------------------------------------------------------
Goto(t, next) == pc' = [pc EXCEPT ![t] = next]

\* Mutant: group is stamped like track.
ReadsSessionAlways(c) == c.sid = NoSession

ReadsSession(c) == c.sid = NoSession /\ c.kind \in Stamped

Begin(t, c) ==
    /\ pc[t] = "idle" /\ calls < MaxCalls
    /\ c.sid = CallerSession => c.kind \in Stamped
    /\ c.kind \in {"alias", "metric"} => c.args = <<>>
    /\ calls' = calls + 1
    /\ call' = [call EXCEPT ![t] = c]
    /\ sid' = [sid EXCEPT ![t] = c.sid]
    /\ super' = [super EXCEPT ![t] = <<>>]
    /\ sessions' = [sessions EXCEPT ![t] = {session}]
    /\ maps' = [maps EXCEPT ![t] = {map}]
    /\ Goto(t, IF ReadsSession(c) THEN "session" ELSE "check")
    /\ UNCHANGED <<shared, last>>

ReadSessionId(t) ==
    /\ pc[t] = "session"
    /\ sid' = [sid EXCEPT ![t] = session]
    /\ Goto(t, "check")
    /\ UNCHANGED <<shared, call, super, last, sessions, maps, calls>>

\* A call whose arguments are invalid only reports an error.
Ended(t) == call' = [call EXCEPT ![t] = NoCall] /\ Goto(t, "idle")

Validate(t) ==
    /\ pc[t] = "check"
    /\ IF ~call[t].valid THEN Ended(t)
       ELSE UNCHANGED call /\ Goto(t, IF call[t].kind \in Merging THEN "fragment" ELSE "enqueue")
    /\ UNCHANGED <<shared, sid, super, last, sessions, maps, calls>>

SuperFragment(t) ==
    /\ pc[t] = "fragment"
    /\ super' = [super EXCEPT ![t] = fragment]
    /\ Goto(t, "enqueue")
    /\ UNCHANGED <<shared, call, sid, last, sessions, maps, calls>>

\* The members each method writes itself.
OwnKeys(kind) ==
    CASE kind \in {"track", "identify"} -> <<"user_id">>
      [] kind = "revenue" -> <<"user_id", "amount", "currency", "order_id">>
      [] kind = "group"   -> <<"group_id", "user_id">>
      [] kind = "alias"   -> <<"previous_id", "user_id">>
      [] kind \in {"log", "trace"} -> <<"message">>

Argument == 0       \* the value of a member taken from the call's own arguments
EventName == 99     \* metadata.name()

\* PropsVisitor: a text named "message" becomes the message, everything else a
\* property.  A number named "message" is a property too.
IsMessage(f) == f.name = "message" /\ f.as \in {"str", "debug"}

Record(visitor, f) ==
    IF IsMessage(f) THEN [visitor EXCEPT !.message = f.value]
    ELSE [visitor EXCEPT !.props = Append(@, <<f.name, f.value>>)]

Visited(fields) ==
    LET visitor[n \in 0..Len(fields)] == IF n = 0 THEN [message |-> EventName, props |-> <<>>]
                                        ELSE Record(visitor[n - 1], fields[n])
    IN visitor[Len(fields)]

OwnValue(c) == IF c.kind = "trace" THEN Visited(c.fields).message ELSE Argument
ArgsOf(c) == IF c.kind = "trace" THEN Serialize(Visited(c.fields).props) ELSE c.args

OwnMembers(c) ==
    LET keys == OwnKeys(c.kind) IN [i \in 1..Len(keys) |-> <<keys[i], OwnValue(c)>>]

\* Mutant: the caller's properties go before the super properties.
PropsFirst(c, frag) == Finish(Fragment(Object(Fields(OwnMembers(c)), ArgsOf(c)), frag))

PayloadOf(c, frag) == Finish(Object(Fragment(Fields(OwnMembers(c)), frag), ArgsOf(c)))

Entry(t) == [call |-> call[t], session |-> sid[t],
             payload |-> IF call[t].kind = "metric" THEN <<>> ELSE PayloadOf(call[t], super[t]),
             sessions |-> sessions[t], maps |-> maps[t]]

\* The entry goes into the channel, or the channel refuses it.
Enqueue(t) ==
    /\ pc[t] = "enqueue"
    /\ last' \in {last, Entry(t)}
    /\ Ended(t)
    /\ UNCHANGED <<shared, sid, super, sessions, maps, calls>>

Next ==
    \/ \E t \in Threads :
        \/ \E c \in Call : Begin(t, c)
        \/ ReadSessionId(t) \/ Validate(t) \/ SuperFragment(t) \/ Enqueue(t)
    \/ \E args \in Arguments : Register(args)
    \/ \E key \in DOMAIN map : Unregister(key)
    \/ ResetSession

Spec == Init /\ [][Next]_vars
-----------------------------------------------------------------------------
Entries == {last} \ {NoEntry}
WithPayload == {e \in Entries : e.call.kind # "metric"}

\* The caller's own properties are not cut off.
Intact(args) == args \in {<<>>, NotAnObject} \/ IsObject(args)
IntactPayload == {e \in WithPayload : Intact(e.call.args)}

\* An entry carries the caller's session id if one was passed, an id that was
\* in force during the call if its method is stamped, and else none: identity
\* calls never carry one, and no call carries an id that a reset had replaced
\* before the call began.  A reset never makes sessions of a client without.
StampedInForce ==
    \A e \in Entries :
        IF e.call.sid # NoSession THEN e.session = e.call.sid
        ELSE IF ~enabled THEN e.session = NoSession
        ELSE IF e.call.kind \in Stamped THEN e.session \in e.sessions
        ELSE e.session = NoSession

\* The fields of an event that are properties of this name, and its messages.
PropertyFields(fields, key) == {i \in DOMAIN fields : fields[i].name = key /\ ~IsMessage(fields[i])}
MessageFields(fields) == {i \in DOMAIN fields : IsMessage(fields[i])}

\* What a reader finds under a key of the log an event became: the last
\* property of this name, else the last message, else the name of the event.
EventReadsAs(fields, key) ==
    IF PropertyFields(fields, key) # {} THEN fields[Max(PropertyFields(fields, key))].value
    ELSE IF MessageFields(fields) # {} THEN fields[Max(MessageFields(fields))].value
    ELSE EventName

\* What a reader finds under a key: the caller's own property, else the super
\* property, else what the method itself wrote.
ReadsAs(e, m, key) ==
    IF e.call.kind = "trace" THEN EventReadsAs(e.call.fields, key)
    ELSE IF key \in KeysOf(ObjectInner(e.call.args)) THEN ValueOf(e.call.args, key)
    ELSE IF e.call.kind \in Merging /\ key \in DOMAIN m THEN m[key]
    ELSE Argument

ExpectedKeys(e, m) ==
    ToSet(OwnKeys(e.call.kind)) \cup KeysOf(ObjectInner(e.call.args))
        \cup {f.name : f \in ToSet(e.call.fields)}
        \cup (IF e.call.kind \in Merging THEN DOMAIN m ELSE {})

\* "Per-call properties override super properties with the same key"
\* (client/mod.rs:143): a payload reads like one set of super properties, all
\* of it and nothing else, that was in force during the call, under the
\* caller's own properties unless those are cut off, whatever was registered
\* or removed meanwhile.
PayloadReadsAs ==
    \A e \in IntactPayload : \E m \in e.maps :
        /\ KeysOf(e.payload) = ExpectedKeys(e, m)
        /\ \A key \in ExpectedKeys(e, m) : ValueOf(e.payload, key) = ReadsAs(e, m, key)

\* A payload put together from serialized pieces is one JSON object, unless the
\* properties of this very call are cut off: broken ones that others pass to
\* their calls or register do not get into it.
PayloadIsJson == \A e \in IntactPayload : IsObject(e.payload)

\* Does not hold.  "Both key and value are emitted as valid JSON"
\* (props.rs:98): a value whose Serialize fails part way, like a map with keys
\* that are no text, leaves its beginning in the Props (props.rs:117, 132), and
\* object_inner (payload.rs:74) looks at the braces only.
PayloadIsAlwaysJson == \A e \in WithPayload : IsObject(e.payload)

\* The fragment kept for splicing says what the map says, each key once, after
\* any sequence of register and unregister.
FragmentMatchesMap ==
    /\ MapOf(fragment) = map
    /\ Cardinality(MembersIn(fragment)) = Cardinality(DOMAIN map)

\* Does not hold.  tell-tracing/src/lib.rs:140, "pulling out the `message`
\* field": one that is a number or a boolean stays a property, which follows
\* the log's own message and so hides it, be it the text or the event's name.
MessageIsPulledOut ==
    \A e \in WithPayload : e.call.kind = "trace" =>
        Cardinality({i \in MembersIn(e.payload) : e.payload[i][1] = "message"}) = 1
=============================================================================
