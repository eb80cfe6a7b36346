----------------------------- MODULE ClientProofs -----------------------------
(***************************************************************************)
(* Theorems about a client: its calls (module Calls) and Tell::enqueue     *)
(* (module Enqueue).  They hold for any number of threads, of calls and of *)
(* changes beside them, for any properties and events, and for any         *)
(* capacity of the channel.  The two modules share no variable.            *)
(*                                                                         *)
(* Calls.  A call reads the session id under a lock of its own and         *)
(* enqueues later, so the id in force then may be another.  Signed says of *)
(* every call under way what it has read so far: the id its caller gave,   *)
(* none, or one of those in force since it began.                          *)
(*                                                                         *)
(* A payload is tokens; what is said of it is about its members.  Joined   *)
(* and Opened say that tokens are these members, in this order, with       *)
(* commas between them, and every function of module Payload is shown to   *)
(* do to the members what it should.  Gives is the member of a key that a  *)
(* reader takes, the last, and depends on the members alone.  The          *)
(* invariant, PropsInv, says that the fragment is Kept of the map, and     *)
(* that what a call has read of it was kept of a map in force since it     *)
(* began (Merges).                                                         *)
(*                                                                         *)
(* Enqueue.  The inductive invariants are EnqueueTypeOK, which stands      *)
(* alone, and                                                              *)
(*   Drops    each thread in the Err branch holds a count of its own, and  *)
(*            none that has been reported;                                 *)
(*   Tickets  a clear of the flag admits one report: while the flag is     *)
(*            down there is one to spare, and setting it uses it;          *)
(*   Alarms   a flag that is up has been reported or is about to be, and   *)
(*            behind a refusal there is a report, or a thread that is      *)
(*            still in the Err branch.                                     *)
(***************************************************************************)
EXTENDS Calls, Enqueue, InductionLemmas, SequenceTheorems, FunctionTheorems, FiniteSetTheorems, TLAPS

(* Session ids *)

\* What a call under way has for a session id.
Signed(c, at, s, ids) ==
    IF c.sid # NoSession THEN at # "session" /\ s = c.sid
    ELSE IF c.kind \in Stamped THEN at = "session" \/ s \in ids
    ELSE at # "session" /\ s = NoSession

SessionTypes ==
    /\ enabled \in BOOLEAN /\ session \in Nat
    /\ pc \in [Threads -> {"idle", "session", "check", "fragment", "enqueue"}]
    /\ DOMAIN call = Threads /\ DOMAIN sid = Threads /\ DOMAIN sessions = Threads
    /\ call = [t \in Threads |-> call[t]] /\ sid = [t \in Threads |-> sid[t]]
    /\ sessions = [t \in Threads |-> sessions[t]]

SessionInv ==
    /\ SessionTypes
    /\ session = NoSession <=> ~enabled
    /\ \A t \in Threads : pc[t] # "idle" =>
         /\ session \in sessions[t]
         /\ ~enabled => sessions[t] \subseteq {NoSession}
         /\ Signed(call[t], pc[t], sid[t], sessions[t])
    /\ StampedInForce

LEMMA InitSession == Init => SessionInv
<1> SUFFICES ASSUME Init PROVE SessionInv
  OBVIOUS
<1>1. SessionTypes /\ (session = NoSession <=> ~enabled)
  BY DEF Init, SessionTypes, NoSession
<1>2. \A t \in Threads : pc[t] = "idle"
  BY DEF Init
<1>3. StampedInForce
  BY DEF Init, StampedInForce, Entries
<1> QED BY <1>1, <1>2, <1>3 DEF SessionInv

\* Another session in force, or another map, is one more the calls have seen.
LEMMA ChangeSession ==
    ASSUME SessionInv, Noticed, session' \in Nat, session' = NoSession <=> ~enabled
    PROVE  SessionInv'
<1>1. /\ sessions' = [t \in Threads |-> IF pc[t] = "idle" THEN {} ELSE sessions[t] \cup {session'}]
      /\ UNCHANGED <<enabled, pc, call, sid, super, last>>
  BY DEF Noticed
<1>2. SessionTypes'
  BY <1>1 DEF SessionInv, SessionTypes
<1>3. ASSUME NEW t \in Threads, pc'[t] # "idle"
      PROVE  /\ session' \in sessions'[t]
             /\ ~enabled' => sessions'[t] \subseteq {NoSession}
             /\ Signed(call'[t], pc'[t], sid'[t], sessions'[t])
  <2>1. sessions'[t] = sessions[t] \cup {session'}
    BY <1>1, <1>3
  <2>2. /\ ~enabled => sessions[t] \subseteq {NoSession}
        /\ Signed(call[t], pc[t], sid[t], sessions[t])
    BY <1>1, <1>3 DEF SessionInv
  <2> QED BY <1>1, <2>1, <2>2 DEF Signed
<1>4. StampedInForce'
  BY <1>1 DEF SessionInv, StampedInForce, Entries
<1> QED BY <1>1, <1>2, <1>3, <1>4 DEF SessionInv

\* A call goes on: what holds of it afterwards is all there is to show.
LEMMA CallGoesOn ==
    ASSUME SessionInv, NEW t \in Threads, UNCHANGED <<enabled, session>>,
           SessionTypes', StampedInForce',
           \A u \in Threads : u # t =>
              /\ pc'[u] = pc[u] /\ call'[u] = call[u] /\ sid'[u] = sid[u] /\ sessions'[u] = sessions[u],
           pc'[t] # "idle" =>
              /\ session \in sessions'[t]
              /\ ~enabled => sessions'[t] \subseteq {NoSession}
              /\ Signed(call'[t], pc'[t], sid'[t], sessions'[t])
    PROVE  SessionInv'
BY DEF SessionInv

LEMMA BeginSigned ==
    ASSUME SessionInv, NEW t \in Threads, NEW c \in Call, Begin(t, c)
    PROVE  SessionInv'
<1>1. /\ call' = [call EXCEPT ![t] = c] /\ sid' = [sid EXCEPT ![t] = c.sid]
      /\ sessions' = [sessions EXCEPT ![t] = {session}]
      /\ pc' = [pc EXCEPT ![t] = IF ReadsSession(c) THEN "session" ELSE "check"]
      /\ c.sid = CallerSession => c.kind \in Stamped
      /\ UNCHANGED <<enabled, session, last>>
  BY DEF Begin, Goto, shared
<1>2. SessionTypes'
  BY <1>1 DEF SessionInv, SessionTypes
<1>3. Signed(call'[t], pc'[t], sid'[t], sessions'[t])
  <2>1. call'[t] = c /\ sid'[t] = c.sid /\ pc'[t] = IF ReadsSession(c) THEN "session" ELSE "check"
    BY <1>1 DEF SessionInv, SessionTypes
  <2> QED BY <2>1 DEF Signed, ReadsSession
<1>4. sessions'[t] = {session} /\ (~enabled => session = NoSession)
  BY <1>1 DEF SessionInv, SessionTypes
<1>5. StampedInForce'
  BY <1>1 DEF SessionInv, StampedInForce, Entries
<1>6. \A u \in Threads : u # t =>
        /\ pc'[u] = pc[u] /\ call'[u] = call[u] /\ sid'[u] = sid[u] /\ sessions'[u] = sessions[u]
  BY <1>1 DEF SessionInv, SessionTypes
<1> QED BY <1>1, <1>2, <1>3, <1>4, <1>5, <1>6, CallGoesOn

LEMMA ReadSigned ==
    ASSUME SessionInv, NEW t \in Threads, ReadSessionId(t) \/ Validate(t) \/ SuperFragment(t)
    PROVE  SessionInv'
<1>1. /\ pc[t] # "idle" /\ UNCHANGED <<enabled, session, last, sessions>>
      /\ call' \in {call, [call EXCEPT ![t] = NoCall]}
      /\ sid' \in {sid, [sid EXCEPT ![t] = session]}
      /\ \E at \in {"idle", "check", "fragment", "enqueue"} : pc' = [pc EXCEPT ![t] = at]
  BY DEF ReadSessionId, Validate, SuperFragment, Ended, Goto, shared
<1>2. SessionTypes'
  BY <1>1 DEF SessionInv, SessionTypes
<1>3. StampedInForce'
  BY <1>1 DEF SessionInv, StampedInForce, Entries
<1>4. \A u \in Threads : u # t =>
        /\ pc'[u] = pc[u] /\ call'[u] = call[u] /\ sid'[u] = sid[u] /\ sessions'[u] = sessions[u]
  BY <1>1 DEF SessionInv, SessionTypes
<1>5. /\ session \in sessions[t] /\ (~enabled => sessions[t] \subseteq {NoSession})
      /\ Signed(call[t], pc[t], sid[t], sessions[t])
  BY <1>1 DEF SessionInv
<1>6. ASSUME pc'[t] # "idle" PROVE Signed(call'[t], pc'[t], sid'[t], sessions'[t])
  <2>1. CASE ReadSessionId(t)
    <3>1. pc[t] = "session" /\ sid'[t] = session /\ call' = call /\ pc'[t] = "check" /\ sessions' = sessions
      BY <2>1 DEF ReadSessionId, Goto, SessionInv, SessionTypes
    <3> QED BY <1>5, <3>1 DEF Signed
  <2>2. CASE Validate(t) \/ SuperFragment(t)
    <3>1. /\ pc[t] # "session" /\ sid' = sid /\ sessions' = sessions
          /\ call'[t] = call[t] /\ pc'[t] # "session"
      BY <1>6, <2>2 DEF Validate, SuperFragment, Ended, Goto, SessionInv, SessionTypes
    <3> QED BY <1>5, <3>1 DEF Signed
  <2> QED BY <2>1, <2>2
<1> QED BY <1>1, <1>2, <1>3, <1>4, <1>5, <1>6, CallGoesOn

\* The entry is stamped with what its call has read.
LEMMA EnqueueSigned ==
    ASSUME SessionInv, NEW t \in Threads, Enqueue(t)
    PROVE  SessionInv'
<1>1. /\ pc[t] = "enqueue" /\ UNCHANGED <<enabled, session, sid, sessions>>
      /\ call' = [call EXCEPT ![t] = NoCall] /\ pc' = [pc EXCEPT ![t] = "idle"]
      /\ last' = last \/ last' = Entry(t)
  BY DEF Enqueue, Ended, Goto, shared
<1>2. SessionTypes'
  BY <1>1 DEF SessionInv, SessionTypes
<1>3. /\ ~enabled => sessions[t] \subseteq {NoSession}
      /\ Signed(call[t], "enqueue", sid[t], sessions[t])
  BY <1>1 DEF SessionInv
<1>4. StampedInForce'
  <2>1. CASE last' = last
    BY <1>1, <2>1 DEF SessionInv, StampedInForce, Entries
  <2>2. CASE last' = Entry(t)
    <3>1. /\ last'.call = call[t] /\ last'.session = sid[t] /\ last'.sessions = sessions[t]
      BY <2>2 DEF Entry
    <3> QED BY <1>1, <1>3, <3>1 DEF StampedInForce, Entries, Signed
  <2> QED BY <1>1, <2>1, <2>2
<1>5. \A u \in Threads : u # t =>
        /\ pc'[u] = pc[u] /\ call'[u] = call[u] /\ sid'[u] = sid[u] /\ sessions'[u] = sessions[u]
  BY <1>1 DEF SessionInv, SessionTypes
<1>6. pc'[t] = "idle"
  BY <1>1 DEF SessionInv, SessionTypes
<1> QED BY <1>1, <1>2, <1>4, <1>5, <1>6, CallGoesOn

LEMMA NextSession == SessionInv /\ [Next]_vars => SessionInv'
<1> SUFFICES ASSUME SessionInv, [Next]_vars PROVE SessionInv'
  OBVIOUS
<1>1. CASE UNCHANGED vars
  BY <1>1 DEF vars, SessionInv, SessionTypes, Signed, StampedInForce, Entries
<1>2. CASE \E t \in Threads : \/ \E c \in Call : Begin(t, c)
                              \/ ReadSessionId(t) \/ Validate(t) \/ SuperFragment(t) \/ Enqueue(t)
  BY <1>2, BeginSigned, ReadSigned, EnqueueSigned
<1>3. CASE (\E args \in Arguments : Register(args)) \/ (\E key \in DOMAIN map : Unregister(key))
  <2>1. Noticed /\ session' = session
    BY <1>3 DEF Register, Unregister
  <2> QED BY <2>1, ChangeSession DEF SessionInv, SessionTypes
<1>4. CASE ResetSession
  <2>1. Noticed /\ session' = IF session = NoSession THEN NoSession ELSE session + 1
    BY <1>4 DEF ResetSession, ResetTo
  <2>2. session' \in Nat /\ (session' = NoSession <=> session = NoSession)
    BY <2>1 DEF SessionInv, SessionTypes, NoSession
  <2> QED BY <2>1, <2>2, ChangeSession DEF SessionInv
<1> QED BY <1>1, <1>2, <1>3, <1>4 DEF Next

\* However registering, removing and resetting interleave with any number of
\* calls, an entry carries the id its caller gave, else one that was in force
\* while the call was under way, and none if its method is not stamped or the
\* client has no sessions.
THEOREM StampsAreCurrent == Spec => []StampedInForce
<1>1. SessionInv => StampedInForce
  BY DEF SessionInv
<1> QED BY <1>1, InitSession, NextSession, PTL DEF Spec

(* Sequences *)

LEMMA ConcatParts ==
    ASSUME NEW S, NEW s \in Seq(S), NEW t \in Seq(S), NEW m \in Nat, NEW n \in Nat,
           m = Len(s), n = Len(t)
    PROVE  /\ s \o t \in Seq(S) /\ Len(s \o t) = m + n
           /\ \A i \in 1..m : (s \o t)[i] = s[i]
           /\ \A i \in 1..n : (s \o t)[m + i] = t[i]
<1>1. /\ s \o t \in Seq(S) /\ Len(s \o t) = m + n
      /\ \A i \in 1..(m + n) : (s \o t)[i] = IF i <= m THEN s[i] ELSE t[i - m]
  BY ConcatProperties
<1>2. PICK st : st = s \o t
  OBVIOUS
<1>3. \A i \in 1..(m + n) : st[i] = IF i <= m THEN s[i] ELSE t[i - m]
  BY <1>1, <1>2
<1>4. ASSUME NEW i \in 1..m PROVE st[i] = s[i]
  BY <1>3
<1>5. ASSUME NEW i \in 1..n PROVE st[m + i] = t[i]
  <2>1. m + i \in 1..(m + n) /\ ~(m + i <= m) /\ (m + i) - m = i
    OBVIOUS
  <2> QED BY <1>3, <2>1
<1> QED BY <1>1, <1>2, <1>4, <1>5

LEMMA AppendParts ==
    ASSUME NEW S, NEW s \in Seq(S), NEW e \in S, NEW m \in Nat, m = Len(s)
    PROVE  /\ Append(s, e) \in Seq(S) /\ Len(Append(s, e)) = m + 1
           /\ \A i \in 1..m : Append(s, e)[i] = s[i]
           /\ Append(s, e)[m + 1] = e
OBVIOUS

(* Bytes as members *)

\* The provers do not know that a literal is a STRING, so the keys that methods
\* write are named here beside those that callers pass.
Names == STRING \cup {"user_id", "amount", "currency", "order_id", "group_id", "previous_id", "message"}
Pair == Names \X Nat
Word == {OpenBrace, CloseBrace, Comma, <<"null">>, CutOff} \cup Pair

\* What stands between the braces: the members, with commas between them.
Joined(bytes, ms) ==
    /\ bytes \in Seq(Word) /\ ms \in Seq(Pair)
    /\ Len(bytes) = IF Len(ms) = 0 THEN 0 ELSE 2 * Len(ms) - 1
    /\ \A i \in 1..Len(ms) : bytes[2 * i - 1] = ms[i]
    /\ \A i \in 1..(Len(ms) - 1) : bytes[2 * i] = Comma

\* An object that has these members and is not closed yet.
Opened(buf, ms) ==
    /\ buf \in Seq(Word) /\ ms \in Seq(Pair)
    /\ Len(buf) = (IF Len(ms) = 0 THEN 1 ELSE 2 * Len(ms)) /\ buf[1] = OpenBrace
    /\ \A i \in 1..Len(ms) : buf[2 * i] = ms[i]
    /\ \A i \in 1..(Len(ms) - 1) : buf[2 * i + 1] = Comma

LEMMA WordTypes ==
    /\ OpenBrace \in Word /\ CloseBrace \in Word /\ Comma \in Word
    /\ \A m \in Pair : m \in Word /\ Len(m) = 2 /\ m[1] \in Names /\ m[2] \in Nat
    /\ Len(OpenBrace) = 1 /\ Len(CloseBrace) = 1 /\ Len(Comma) = 1 /\ Len(CutOff) = 3
    /\ \A x \in Word : Len(x) = 2 <=> x \in Pair
<1>1. ASSUME NEW m \in Pair PROVE Len(m) = 2 /\ m[1] \in Names /\ m[2] \in Nat
  <2>1. m = <<m[1], m[2]>> /\ m[1] \in Names /\ m[2] \in Nat
    BY DEF Pair
  <2>2. Len(<<m[1], m[2]>>) = 2
    OBVIOUS
  <2> QED BY <2>1, <2>2
<1>2. Len(OpenBrace) = 1 /\ Len(CloseBrace) = 1 /\ Len(Comma) = 1 /\ Len(<<"null">>) = 1 /\ Len(CutOff) = 3
  BY DEF OpenBrace, CloseBrace, Comma, CutOff
<1> QED BY <1>1, <1>2 DEF Word

LEMMA TokensAreWords == Token \subseteq Word
<1>1. Member \subseteq Pair
  BY DEF Member, Pair, Names
<1> QED BY <1>1 DEF Token, Word

LEMMA NothingJoined == Joined(<<>>, <<>>)
BY EmptySeq DEF Joined

LEMMA JoinedEmpty ==
    ASSUME NEW bytes, NEW ms, Joined(bytes, ms)
    PROVE  bytes = <<>> <=> ms = <<>>
<1>1. Len(ms) \in Nat /\ Len(bytes) \in Nat /\ (Len(bytes) = 0 <=> Len(ms) = 0)
  BY LenProperties DEF Joined
<1> QED BY <1>1, EmptySeq DEF Joined

\* separator and extend_from_slice, on whatever has members.
LEMMA Spliced ==
    ASSUME NEW buf, NEW ms, Opened(buf, ms), NEW bytes, NEW ns, Joined(bytes, ns), ns # <<>>
    PROVE  Opened(Separated(buf) \o bytes, ms \o ns)
<1>1. PICK m \in Nat, n \in Nat \ {0} : m = Len(ms) /\ n = Len(ns)
  BY EmptySeq, LenProperties DEF Opened, Joined
<1>2. /\ buf \in Seq(Word) /\ bytes \in Seq(Word) /\ ms \in Seq(Pair) /\ ns \in Seq(Pair)
      /\ Len(buf) = (IF m = 0 THEN 1 ELSE 2 * m) /\ buf[1] = OpenBrace /\ Len(bytes) = 2 * n - 1
      /\ \A i \in 1..m : buf[2 * i] = ms[i]
      /\ \A i \in 1..(m - 1) : buf[2 * i + 1] = Comma
      /\ \A i \in 1..n : bytes[2 * i - 1] = ns[i]
      /\ \A i \in 1..(n - 1) : bytes[2 * i] = Comma
  BY <1>1 DEF Opened, Joined
<1>3. PICK rs : rs = ms \o ns
  OBVIOUS
<1>4. /\ rs \in Seq(Pair) /\ Len(rs) = m + n
      /\ \A i \in 1..m : rs[i] = ms[i]
      /\ \A i \in 1..n : rs[m + i] = ns[i]
  BY <1>1, <1>2, <1>3, ConcatParts
<1>5. PICK sep : sep = Separated(buf)
  OBVIOUS
<1>6. /\ sep \in Seq(Word) /\ Len(sep) = 2 * m + 1 /\ sep[1] = OpenBrace
      /\ \A i \in 1..m : sep[2 * i] = ms[i]
      /\ \A i \in 1..m : sep[2 * i + 1] = Comma
  <2>1. CASE m = 0
    <3>1. sep = buf
      BY <1>2, <1>5, <2>1 DEF Separated
    <3> QED BY <1>2, <2>1, <3>1
  <2>2. CASE m # 0
    <3>1. Comma \in Word /\ sep = Append(buf, Comma) /\ Len(buf) = 2 * m
      BY <1>2, <1>5, <2>2, WordTypes DEF Separated
    <3>2. /\ sep \in Seq(Word) /\ Len(sep) = 2 * m + 1
          /\ \A i \in 1..(2 * m) : sep[i] = buf[i]
          /\ sep[2 * m + 1] = Comma
      <4>1. PICK k \in Nat : k = 2 * m
        OBVIOUS
      <4> QED BY <1>2, <3>1, <4>1, AppendParts
    <3>3. \A i \in 1..m : 2 * i \in 1..(2 * m)
      OBVIOUS
    <3>4. ASSUME NEW i \in 1..m PROVE sep[2 * i + 1] = Comma
      <4>1. CASE i = m
        BY <3>2, <4>1
      <4>2. CASE i # m
        <5>1. i \in 1..(m - 1) /\ 2 * i + 1 \in 1..(2 * m)
          BY <4>2
        <5>2. sep[2 * i + 1] = buf[2 * i + 1] /\ buf[2 * i + 1] = Comma
          BY <1>2, <3>2, <5>1
        <5> QED BY <5>2
      <4> QED BY <4>1, <4>2
    <3>5. 1 \in 1..(2 * m)
      BY <2>2
    <3> QED BY <1>2, <3>2, <3>3, <3>4, <3>5
  <2> QED BY <2>1, <2>2
<1>7. PICK all : all = sep \o bytes
  OBVIOUS
<1>8. /\ all \in Seq(Word) /\ Len(all) = 2 * (m + n)
      /\ \A i \in 1..(2 * m + 1) : all[i] = sep[i]
      /\ \A i \in 1..(2 * n - 1) : all[2 * m + 1 + i] = bytes[i]
  <2>1. PICK k \in Nat, l \in Nat : k = 2 * m + 1 /\ l = 2 * n - 1
    OBVIOUS
  <2>2. k = Len(sep) /\ l = Len(bytes) /\ k + l = 2 * (m + n)
    BY <1>2, <1>6, <2>1
  <2>3. /\ all \in Seq(Word) /\ Len(all) = k + l
        /\ \A i \in 1..k : all[i] = sep[i]
        /\ \A i \in 1..l : all[k + i] = bytes[i]
    <3>1. sep \in Seq(Word) /\ bytes \in Seq(Word) /\ k = Len(sep) /\ l = Len(bytes)
      BY <1>2, <1>6, <2>2
    <3> QED BY ONLY <1>7, <3>1, k \in Nat, l \in Nat, ConcatParts
  <2> QED BY <2>1, <2>2, <2>3
<1>9. ASSUME NEW i \in 1..(m + n) PROVE all[2 * i] = rs[i]
  <2>1. CASE i <= m
    <3>1. i \in 1..m /\ 2 * i \in 1..(2 * m + 1)
      BY <2>1
    <3> QED BY <1>4, <1>6, <1>8, <3>1
  <2>2. CASE i > m
    <3>1. PICK j \in 1..n : i = m + j
      <4>1. i - m \in 1..n /\ i = m + (i - m)
        BY <2>2
      <4> QED BY <4>1
    <3>2. 2 * j - 1 \in 1..(2 * n - 1) /\ 2 * m + 1 + (2 * j - 1) = 2 * i
      BY <3>1
    <3>3. all[2 * m + 1 + (2 * j - 1)] = bytes[2 * j - 1] /\ bytes[2 * j - 1] = ns[j]
      BY <1>2, <1>8, <3>2
    <3>4. rs[m + j] = ns[j]
      BY <1>4
    <3> QED BY <3>1, <3>2, <3>3, <3>4
  <2> QED BY <2>1, <2>2
<1>10. ASSUME NEW i \in 1..(m + n - 1) PROVE all[2 * i + 1] = Comma
  <2>1. CASE i <= m
    <3>1. i \in 1..m /\ 2 * i + 1 \in 1..(2 * m + 1)
      BY <2>1
    <3> QED BY <1>6, <1>8, <3>1
  <2>2. CASE i > m
    <3>1. PICK j \in 1..(n - 1) : i = m + j
      <4>1. i - m \in 1..(n - 1) /\ i = m + (i - m)
        BY <2>2
      <4> QED BY <4>1
    <3>2. 2 * j \in 1..(2 * n - 1) /\ 2 * m + 1 + 2 * j = 2 * i + 1
      BY <3>1
    <3>3. all[2 * m + 1 + 2 * j] = bytes[2 * j] /\ bytes[2 * j] = Comma
      BY <1>2, <1>8, <3>2
    <3> QED BY <3>2, <3>3
  <2> QED BY <2>1, <2>2
<1>11. all[1] = OpenBrace /\ m + n # 0 /\ m + n \in Nat
  BY <1>6, <1>8
<1>12. Opened(all, rs)
  <2>1. PICK q \in Nat : q = m + n
    OBVIOUS
  <2>2. /\ all \in Seq(Word) /\ rs \in Seq(Pair) /\ Len(rs) = q /\ q # 0 /\ Len(all) = 2 * q
        /\ all[1] = OpenBrace
        /\ \A i \in 1..q : all[2 * i] = rs[i]
        /\ \A i \in 1..(q - 1) : all[2 * i + 1] = Comma
    BY <1>4, <1>8, <1>9, <1>10, <1>11, <2>1
  <2> QED BY <2>2 DEF Opened
<1> QED BY <1>3, <1>5, <1>7, <1>12

LEMMA SplicedOrNot ==
    ASSUME NEW buf, NEW ms, Opened(buf, ms), NEW bytes, NEW ns, Joined(bytes, ns)
    PROVE  Opened(IF bytes = <<>> THEN buf ELSE Separated(buf) \o bytes, ms \o ns)
<1>1. CASE ns = <<>>
  <2>1. bytes = <<>> /\ ms \in Seq(Pair)
    BY <1>1, JoinedEmpty DEF Opened
  <2>2. ms \o ns = ms
    BY <1>1, <2>1, ConcatEmptySeq
  <2> QED BY <2>1, <2>2
<1>2. CASE ns # <<>>
  BY <1>2, JoinedEmpty, Spliced
<1> QED BY <1>1, <1>2

LEMMA FieldOpened ==
    ASSUME NEW buf, NEW ms, Opened(buf, ms), NEW m \in Pair
    PROVE  Opened(Field(buf, m), Append(ms, m))
<1>1. Joined(<<m>>, <<m>>) /\ <<m>> # <<>>
  <2>1. m \in Word
    BY WordTypes
  <2>2. <<m>> \in Seq(Word) /\ <<m>> \in Seq(Pair) /\ Len(<<m>>) = 1 /\ <<m>>[1] = m
    BY <2>1
  <2> QED BY <2>2 DEF Joined
<1>2. Opened(Separated(buf) \o <<m>>, ms \o <<m>>)
  BY <1>1, Spliced
<1>3. ms \in Seq(Pair) /\ buf \in Seq(Word) /\ Comma \in Word
  BY WordTypes DEF Opened
<1>4. Separated(buf) \in Seq(Word) /\ m \in Word
  BY <1>3, WordTypes, AppendProperties DEF Separated
<1>5. Append(ms, m) = ms \o <<m>> /\ Field(buf, m) = Separated(buf) \o <<m>>
  BY <1>3, <1>4, AppendIsConcat DEF Field
<1> QED BY <1>2, <1>5

LEMMA StartOpened == Opened(Start, <<>>)
<1>1. Start \in Seq(Word) /\ Len(Start) = 1 /\ Start[1] = OpenBrace
  BY WordTypes DEF Start
<1> QED BY <1>1, EmptySeq DEF Opened

LEMMA FieldsOpened ==
    ASSUME NEW ms \in Seq(Pair)
    PROVE  Opened(Fields(ms), ms)
<1>1. PICK m \in Nat : m = Len(ms)
  BY LenProperties
<1>2. \A n \in 1..m : ms[n] \in Pair
  BY <1>1, ElementOfSeq
<1> DEFINE S == Seq(Word)
           step == [x \in (1..m) \X S |-> Field(x[2], ms[x[1]])]
<1>3. Start \in S
  BY StartOpened DEF Opened
<1>4. step \in [(1..m) \X S -> S]
  <2>1. ASSUME NEW b \in S, NEW e \in Pair PROVE Field(b, e) \in S
    BY WordTypes, AppendProperties DEF Field, Separated
  <2>2. \A x \in (1..m) \X S : Field(x[2], ms[x[1]]) \in S
    <3> HIDE DEF S
    <3>1. \A x \in (1..m) \X S : x[1] \in 1..m /\ x[2] \in S
      OBVIOUS
    <3> QED BY <1>2, <2>1, <3>1
  <2> HIDE DEF S
  <2> QED BY <2>2
<1>a. PICK f \in [0..m -> S] : RecursiveTo(f, Start, m, step)
  <2> HIDE DEF step, S
  <2> QED BY <1>3, <1>4, RecursionTo
<1>5. f = [n \in 0..m |-> IF n = 0 THEN Start ELSE step[<<n, f[n - 1]>>]]
  <2> HIDE DEF step, S
  <2> QED BY <1>a, Zenon DEF RecursiveTo
<1>6. f = [n \in 0..m |-> IF n = 0 THEN Start ELSE Field(f[n - 1], ms[n])]
  <2>1. ASSUME NEW n \in 0..m PROVE f[n] = IF n = 0 THEN Start ELSE Field(f[n - 1], ms[n])
    <3> HIDE DEF S
    <3>1. CASE n = 0
      BY <1>5, <3>1
    <3>2. CASE n # 0
      <4>1. n \in 1..m /\ n - 1 \in 0..m
        BY <3>2
      <4>2. PICK y : y = <<n, f[n - 1]>>
        OBVIOUS
      <4>3. y \in (1..m) \X S /\ y[1] = n /\ y[2] = f[n - 1]
        BY <4>1, <4>2
      <4>4. f[n] = step[y]
        <5> HIDE DEF step
        <5> QED BY <1>5, <3>2, <4>2
      <4> QED BY <3>2, <4>3, <4>4
    <3> QED BY <3>1, <3>2
  <2> QED BY <2>1
<1> HIDE DEF step
<1> DEFINE buf[n \in 0..Len(ms)] == IF n = 0 THEN Start ELSE Field(buf[n - 1], ms[n])
<1>7. buf = [n \in 0..Len(ms) |-> IF n = 0 THEN Start ELSE Field(buf[n - 1], ms[n])]
  <2>1. f = [n \in 0..Len(ms) |-> IF n = 0 THEN Start ELSE Field(f[n - 1], ms[n])]
    BY <1>1, <1>6
  <2> QED BY <2>1, Zenon DEF buf
<1>8. Fields(ms) = buf[m]
  BY <1>1, Zenon DEF Fields
<1> HIDE DEF buf
<1> DEFINE Done == {n \in 0..m : Opened(buf[n], SubSeq(ms, 1, n))}
<1>9. 0 \in Done
  <2>1. SubSeq(ms, 1, 0) = <<>>
    BY SubSeqEmpty
  <2>2. buf[0] = Start
    BY <1>1, <1>7
  <2> QED BY <2>1, <2>2, StartOpened
<1>10. ASSUME NEW n \in 0..(m - 1), n \in Done PROVE n + 1 \in Done
  <2>1. /\ n + 1 \in 0..m /\ n + 1 # 0 /\ (n + 1) - 1 = n /\ n \in Nat
        /\ ms[n + 1] \in Pair
    BY <1>2
  <2>2. buf[n + 1] = Field(buf[n], ms[n + 1])
    BY <1>1, <1>7, <2>1
  <2>3. SubSeq(ms, 1, n + 1) = Append(SubSeq(ms, 1, n), ms[n + 1])
    BY <1>1, <2>1
  <2>4. Opened(buf[n], SubSeq(ms, 1, n))
    BY <1>10
  <2>5. Opened(buf[n + 1], SubSeq(ms, 1, n + 1))
    BY <2>1, <2>2, <2>3, <2>4, FieldOpened
  <2> QED BY <2>1, <2>5
<1>11. 0..m \subseteq Done
  <2> HIDE DEF Done
  <2> QED BY <1>9, <1>10, InductionTo
<1>12. Opened(buf[m], SubSeq(ms, 1, m))
  <2>1. m \in 0..m
    OBVIOUS
  <2> QED BY <1>11, <2>1
<1>13. SubSeq(ms, 1, m) = ms
  BY <1>1
<1> QED BY <1>8, <1>12, <1>13

(* Objects, and what a reader finds in them *)

\* Where the members stand, and which of those with a key is the last.
Placed(bytes, ms, at) ==
    /\ \A i \in 1..Len(ms) : at[i] \in DOMAIN bytes /\ bytes[at[i]] = ms[i]
    /\ \A i, j \in 1..Len(ms) : i < j => at[i] < at[j]
    /\ \A p \in MembersIn(bytes) : \E i \in 1..Len(ms) : p = at[i]

Final(ms, i) == \A j \in 1..Len(ms) : i < j => ms[j][1] # ms[i][1]

Reads(bytes, ms) ==
    /\ KeysOf(bytes) = {ms[i][1] : i \in 1..Len(ms)}
    /\ \A i \in 1..Len(ms) : Final(ms, i) => ValueOf(bytes, ms[i][1]) = ms[i][2]
    /\ Cardinality(MembersIn(bytes)) = Len(ms)

LEMMA TheGreatest ==
    ASSUME NEW T, NEW x \in T, T \subseteq Nat, \A y \in T : y <= x
    PROVE  Max(T) = x
<1>1. \E z \in T : \A y \in T : z >= y
  BY x \in Nat
<1>2. Max(T) \in T /\ \A y \in T : Max(T) >= y
  <2>1. Max(T) = CHOOSE z \in T : \A y \in T : z >= y
    BY DEF Max
  <2> QED BY <1>1, <2>1, Zenon
<1>3. Max(T) >= x /\ Max(T) <= x /\ Max(T) \in Nat /\ x \in Nat
  BY <1>2
<1> QED BY <1>3

LEMMA ReadsPlaced ==
    ASSUME NEW bytes \in Seq(Word), NEW ms \in Seq(Pair), NEW at \in [1..Len(ms) -> Nat],
           Placed(bytes, ms, at)
    PROVE  Reads(bytes, ms)
<1>1. PICK m \in Nat : m = Len(ms)
  BY LenProperties
<1>2. \A i \in 1..m : ms[i] \in Pair /\ Len(ms[i]) = 2
  BY <1>1, ElementOfSeq, WordTypes
<1>3. /\ \A i \in 1..m : at[i] \in DOMAIN bytes /\ bytes[at[i]] = ms[i]
      /\ \A i, j \in 1..m : i < j => at[i] < at[j]
      /\ \A p \in MembersIn(bytes) : \E i \in 1..m : p = at[i]
      /\ \A i \in 1..m : at[i] \in Nat
  BY <1>1 DEF Placed
<1>4. \A i \in 1..m : at[i] \in MembersIn(bytes)
  BY <1>2, <1>3 DEF MembersIn
<1>5. KeysOf(bytes) = {ms[i][1] : i \in 1..m}
  <2>1. \A p \in MembersIn(bytes) : \E i \in 1..m : bytes[p][1] = ms[i][1]
    BY <1>3
  <2>2. \A i \in 1..m : bytes[at[i]][1] = ms[i][1]
    BY <1>3
  <2>3. KeysOf(bytes) = {bytes[p][1] : p \in MembersIn(bytes)}
    BY DEF KeysOf
  <2>4. ASSUME NEW k \in KeysOf(bytes) PROVE k \in {ms[i][1] : i \in 1..m}
    BY <2>1, <2>3
  <2>5. ASSUME NEW i \in 1..m PROVE ms[i][1] \in KeysOf(bytes)
    BY <1>4, <2>2, <2>3
  <2> QED BY <2>4, <2>5
<1>6. ASSUME NEW i \in 1..m, Final(ms, i) PROVE ValueOf(bytes, ms[i][1]) = ms[i][2]
  <2> DEFINE T == {p \in MembersIn(bytes) : bytes[p][1] = ms[i][1]}
  <2>1. at[i] \in T
    BY <1>3, <1>4
  <2>2. ASSUME NEW p \in T PROVE p \in Nat /\ p <= at[i]
    <3>1. PICK j \in 1..m : p = at[j]
      BY <1>3
    <3>2. ms[j][1] = ms[i][1]
      BY <1>3, <3>1
    <3>3. ~(i < j)
      BY <1>1, <1>6, <3>2 DEF Final
    <3>4. j = i \/ j < i
      BY <3>3
    <3>5. at[j] <= at[i]
      BY <1>3, <3>4
    <3> QED BY <1>3, <3>1, <3>5
  <2>3. Max(T) = at[i]
    <3> HIDE DEF T
    <3>1. T \subseteq Nat /\ \A p \in T : p <= at[i]
      BY <2>2
    <3> QED BY <2>1, <3>1, TheGreatest
  <2>4. ValueOf(bytes, ms[i][1]) = bytes[at[i]][2]
    BY <2>3, Zenon DEF ValueOf
  <2> QED BY <1>3, <2>4
<1>7. Cardinality(MembersIn(bytes)) = m
  <2>1. at \in [1..m -> MembersIn(bytes)]
    BY <1>1, <1>4
  <2>2. \A i, j \in 1..m : at[i] = at[j] => i = j
    <3>1. ASSUME NEW i \in 1..m, NEW j \in 1..m, at[i] = at[j] PROVE i = j
      <4>1. at[i] \in Nat /\ at[j] \in Nat /\ (i < j => at[i] < at[j]) /\ (j < i => at[j] < at[i])
        BY <1>3
      <4> QED BY <3>1, <4>1
    <3> QED BY <3>1
  <2>3. at \in Bijection(1..m, MembersIn(bytes))
    BY <1>3, <2>1, <2>2, Fun_IsBij
  <2> QED BY <2>3, FS_CountingElements DEF ExistsBijection
<1> QED BY <1>1, <1>5, <1>6, <1>7 DEF Reads

LEMMA JoinedReads ==
    ASSUME NEW bytes, NEW ms, Joined(bytes, ms)
    PROVE  Reads(bytes, ms)
<1>1. PICK m \in Nat : m = Len(ms)
  BY LenProperties DEF Joined
<1>2. /\ bytes \in Seq(Word) /\ ms \in Seq(Pair)
      /\ Len(bytes) = (IF m = 0 THEN 0 ELSE 2 * m - 1) /\ DOMAIN bytes = 1..Len(bytes)
      /\ \A i \in 1..m : bytes[2 * i - 1] = ms[i]
      /\ \A i \in 1..(m - 1) : bytes[2 * i] = Comma
  BY <1>1, LenProperties DEF Joined
<1> DEFINE at == [i \in 1..m |-> 2 * i - 1]
<1>3. at \in [1..m -> Nat] /\ \A i, j \in 1..m : i < j => at[i] < at[j]
  OBVIOUS
<1>4. ASSUME NEW i \in 1..m PROVE at[i] \in DOMAIN bytes /\ bytes[at[i]] = ms[i]
  <2>1. 2 * i - 1 \in 1..(2 * m - 1) /\ m # 0
    OBVIOUS
  <2> QED BY <1>2, <2>1
<1>5. ASSUME NEW p \in MembersIn(bytes) PROVE \E i \in 1..m : p = at[i]
  <2>1. m # 0 /\ p \in 1..(2 * m - 1) /\ Len(bytes[p]) = 2
    BY <1>2 DEF MembersIn
  <2>2. ASSUME NEW i \in 1..(m - 1), p = 2 * i PROVE FALSE
    BY <1>2, <2>1, <2>2, WordTypes
  <2>3. PICK i \in 1..m : p = 2 * i - 1 \/ (p = 2 * i /\ i \in 1..(m - 1))
    <3>1. PICK h \in Nat : p = 2 * h \/ p = 2 * h + 1
      <4>1. p \div 2 \in Nat /\ (p = 2 * (p \div 2) \/ p = 2 * (p \div 2) + 1)
        BY <2>1
      <4> QED BY <4>1
    <3>2. CASE p = 2 * h
      <4>1. h \in 1..(m - 1) /\ h \in 1..m
        BY <2>1, <3>2
      <4> QED BY <3>2, <4>1
    <3>3. CASE p = 2 * h + 1
      <4>1. h + 1 \in 1..m /\ p = 2 * (h + 1) - 1
        BY <2>1, <3>3
      <4> QED BY <4>1
    <3> QED BY <3>1, <3>2, <3>3
  <2>4. p = 2 * i - 1
    BY <2>2, <2>3
  <2> QED BY <2>4
<1>6. Placed(bytes, ms, at)
  <2> HIDE DEF at
  <2> QED BY <1>1, <1>3, <1>4, <1>5 DEF Placed
<1> HIDE DEF at
<1> QED BY <1>1, <1>2, <1>3, <1>6, ReadsPlaced

LEMMA FinishReads ==
    ASSUME NEW buf, NEW ms, Opened(buf, ms)
    PROVE  Reads(Finish(buf), ms)
<1>1. PICK m \in Nat : m = Len(ms)
  BY LenProperties DEF Opened
<1>2. /\ buf \in Seq(Word) /\ ms \in Seq(Pair)
      /\ Len(buf) = (IF m = 0 THEN 1 ELSE 2 * m) /\ buf[1] = OpenBrace
      /\ \A i \in 1..m : buf[2 * i] = ms[i]
      /\ \A i \in 1..(m - 1) : buf[2 * i + 1] = Comma
  BY <1>1 DEF Opened
<1>3. PICK l \in Nat \ {0} : l = Len(buf) /\ l >= 2 * m /\ l = IF m = 0 THEN 1 ELSE 2 * m
  BY <1>2
<1>4. PICK all : all = Finish(buf)
  OBVIOUS
<1>5. /\ all \in Seq(Word) /\ Len(all) = l + 1 /\ DOMAIN all = 1..(l + 1)
      /\ \A i \in 1..l : all[i] = buf[i]
      /\ all[l + 1] = CloseBrace
  <2>1. all = Append(buf, CloseBrace) /\ CloseBrace \in Word
    BY <1>4, WordTypes DEF Finish
  <2>2. /\ all \in Seq(Word) /\ Len(all) = l + 1
        /\ \A i \in 1..l : all[i] = buf[i]
        /\ all[l + 1] = CloseBrace
    BY <1>2, <1>3, <2>1, AppendParts
  <2> QED BY <2>2, LenProperties
<1> DEFINE at == [i \in 1..m |-> 2 * i]
<1>6. at \in [1..m -> Nat] /\ \A i, j \in 1..m : i < j => at[i] < at[j]
  OBVIOUS
<1>7. ASSUME NEW i \in 1..m PROVE at[i] \in DOMAIN all /\ all[at[i]] = ms[i]
  <2>1. 2 * i \in 1..l /\ 2 * i \in 1..(l + 1)
    BY <1>3
  <2> QED BY <1>2, <1>5, <2>1
<1>8. ASSUME NEW p \in MembersIn(all) PROVE \E i \in 1..m : p = at[i]
  <2>1. p \in 1..(l + 1) /\ Len(all[p]) = 2
    BY <1>5 DEF MembersIn
  <2>2. p # l + 1 /\ p # 1
    <3>1. all[1] = OpenBrace
      BY <1>2, <1>3, <1>5
    <3> QED BY <1>5, <2>1, <3>1, WordTypes
  <2>3. ASSUME NEW i \in 1..(m - 1), p = 2 * i + 1 PROVE FALSE
    <3>1. all[p] = buf[2 * i + 1] /\ buf[2 * i + 1] = Comma
      BY <1>2, <1>5, <2>1, <2>2, <2>3
    <3> QED BY <2>1, <3>1, WordTypes
  <2>4. PICK h \in Nat : p = 2 * h \/ p = 2 * h + 1
    <3>1. p \div 2 \in Nat /\ (p = 2 * (p \div 2) \/ p = 2 * (p \div 2) + 1)
      BY <2>1
    <3> QED BY <3>1
  <2>5. p = 2 * h /\ h \in 1..m
    <3>1. CASE p = 2 * h + 1
      <4>1. h \in 1..(m - 1)
        BY <1>3, <2>1, <2>2, <3>1
      <4> QED BY <2>3, <3>1, <4>1
    <3>2. CASE p = 2 * h
      BY <1>3, <2>1, <2>2, <3>2
    <3> QED BY <2>4, <3>1, <3>2
  <2> QED BY <2>5
<1>9. Placed(all, ms, at)
  <2> HIDE DEF at
  <2> QED BY <1>1, <1>6, <1>7, <1>8 DEF Placed
<1> HIDE DEF at
<1> QED BY <1>1, <1>2, <1>4, <1>5, <1>6, <1>9, ReadsPlaced

LEMMA Closed ==
    ASSUME NEW buf, NEW ms, Opened(buf, ms), NEW m \in Nat, m = Len(ms)
    PROVE  \E l \in Nat \ {0}, all \in Seq(Word) :
             /\ all = Finish(buf) /\ l = (IF m = 0 THEN 1 ELSE 2 * m) /\ Len(all) = l + 1
             /\ Head(all) = OpenBrace /\ Last(all) = CloseBrace
             /\ \A i \in 1..m : all[2 * i] = ms[i]
             /\ \A i \in 1..(m - 1) : all[2 * i + 1] = Comma
<1>1. /\ buf \in Seq(Word) /\ ms \in Seq(Pair)
      /\ Len(buf) = (IF m = 0 THEN 1 ELSE 2 * m) /\ buf[1] = OpenBrace
      /\ \A i \in 1..m : buf[2 * i] = ms[i]
      /\ \A i \in 1..(m - 1) : buf[2 * i + 1] = Comma
  BY DEF Opened
<1>2. PICK l \in Nat \ {0} : l = Len(buf) /\ l = IF m = 0 THEN 1 ELSE 2 * m
  BY <1>1
<1>3. PICK all : all = Finish(buf)
  OBVIOUS
<1>4. all = Append(buf, CloseBrace) /\ CloseBrace \in Word
  BY <1>3, WordTypes DEF Finish
<1>5. /\ all \in Seq(Word) /\ Len(all) = l + 1
      /\ \A i \in 1..l : all[i] = buf[i]
      /\ all[l + 1] = CloseBrace
  BY <1>1, <1>2, <1>4, AppendParts
<1>6. Head(all) = OpenBrace /\ Last(all) = CloseBrace
  <2>1. Head(all) = all[1] /\ all[1] = buf[1]
    BY <1>2, <1>5
  <2> QED BY <1>1, <1>5, <2>1 DEF Last
<1>7. ASSUME NEW i \in 1..m PROVE all[2 * i] = ms[i]
  <2>1. 2 * i \in 1..l
    BY <1>2
  <2> QED BY <1>1, <1>5, <2>1
<1>8. ASSUME NEW i \in 1..(m - 1) PROVE all[2 * i + 1] = Comma
  <2>1. 2 * i + 1 \in 1..l
    BY <1>2
  <2>2. all[2 * i + 1] = buf[2 * i + 1]
    BY <1>5, <2>1
  <2> QED BY <1>1, <2>2
<1> QED BY <1>2, <1>3, <1>5, <1>6, <1>7, <1>8

LEMMA FinishIsObject ==
    ASSUME NEW buf, NEW ms, Opened(buf, ms)
    PROVE  Finish(buf) \in Seq(Word) /\ IsObject(Finish(buf)) /\ Joined(ObjectInner(Finish(buf)), ms)
<1>1. PICK m \in Nat : m = Len(ms)
  BY LenProperties DEF Opened
<1>2. PICK l \in Nat \ {0}, all \in Seq(Word) :
        /\ all = Finish(buf) /\ l = (IF m = 0 THEN 1 ELSE 2 * m) /\ Len(all) = l + 1
        /\ Head(all) = OpenBrace /\ Last(all) = CloseBrace
        /\ \A i \in 1..m : all[2 * i] = ms[i]
        /\ \A i \in 1..(m - 1) : all[2 * i + 1] = Comma
  BY <1>1, Closed
<1>3. PICK inner : inner = SubSeq(all, 2, Len(all) - 1)
  OBVIOUS
<1>4. /\ inner \in Seq(Word) /\ Len(inner) = l - 1
      /\ \A i \in 1..(l - 1) : inner[i] = all[i + 1]
  <2>1. inner = SubSeq(all, 2, l)
    BY <1>2, <1>3
  <2> QED BY <1>2, <2>1
<1>5. ASSUME NEW i \in 1..m PROVE inner[2 * i - 1] = ms[i]
  <2>1. 2 * i - 1 \in 1..(l - 1) /\ (2 * i - 1) + 1 = 2 * i
    BY <1>2
  <2> QED BY <1>2, <1>4, <2>1
<1>6. ASSUME NEW i \in 1..(m - 1) PROVE inner[2 * i] = Comma
  <2>1. 2 * i \in 1..(l - 1)
    BY <1>2
  <2> QED BY <1>2, <1>4, <2>1
<1>7. Len(inner) = IF m = 0 THEN 0 ELSE 2 * m - 1
  BY <1>2, <1>4
<1>8. Joined(inner, ms)
  BY <1>1, <1>4, <1>5, <1>6, <1>7 DEF Joined, Opened
<1>9. inner = <<>> \/ Len(inner) % 2 = 1
  <2>1. CASE m = 0
    BY <1>4, <1>7, <2>1, EmptySeq
  <2>2. CASE m # 0
    BY <1>7, <2>2
  <2> QED BY <2>1, <2>2
<1>10. ASSUME NEW i \in 1..Len(inner)
       PROVE  IF i % 2 = 1 THEN Len(inner[i]) = 2 ELSE inner[i] = Comma
  <2>1. m # 0 /\ i \in 1..(2 * m - 1)
    BY <1>7
  <2>2. CASE i % 2 = 1
    <3>1. PICK h \in Nat : i = 2 * h + 1
      <4>1. i \div 2 \in Nat /\ i = 2 * (i \div 2) + 1
        BY <2>1, <2>2
      <4> QED BY <4>1
    <3>2. h + 1 \in 1..m /\ 2 * (h + 1) - 1 = i
      BY <2>1, <3>1
    <3>3. inner[i] = ms[h + 1] /\ ms[h + 1] \in Pair
      BY <1>1, <1>5, <3>2, ElementOfSeq DEF Opened
    <3> QED BY <2>2, <3>3, WordTypes
  <2>3. CASE i % 2 # 1
    <3>1. PICK h \in Nat : i = 2 * h
      <4>1. i \div 2 \in Nat /\ i = 2 * (i \div 2)
        BY <2>1, <2>3
      <4> QED BY <4>1
    <3>2. h \in 1..(m - 1)
      BY <2>1, <3>1
    <3> QED BY <1>6, <2>3, <3>1, <3>2
  <2> QED BY <2>2, <2>3
<1>11. IsObject(all)
  <2>1. Len(all) >= 2
    BY <1>2
  <2> QED BY <1>2, <1>3, <1>9, <1>10, <2>1 DEF IsObject
<1>12. Joined(ObjectInner(all), ms)
  <2>1. CASE m = 0
    <3>1. ~(Len(all) > 2)
      BY <1>2, <2>1
    <3>2. ObjectInner(all) = <<>>
      BY <3>1, Zenon DEF ObjectInner
    <3>3. ms = <<>>
      BY <1>1, <2>1, EmptySeq DEF Opened
    <3> QED BY <3>2, <3>3, NothingJoined
  <2>2. CASE m # 0
    <3>1. ObjectInner(all) = inner
      BY <1>2, <1>3, <2>2 DEF ObjectInner
    <3> QED BY <1>8, <3>1
  <2> QED BY <2>1, <2>2
<1> QED BY <1>2, <1>11, <1>12

LEMMA ObjectIsClosed ==
    ASSUME NEW bytes \in Seq(Word), IsObject(bytes)
    PROVE  \E buf, ms : Opened(buf, ms) /\ bytes = Finish(buf)
<1>1. PICK l \in Nat : l = Len(bytes) - 1 /\ l >= 1
  <2>1. Len(bytes) \in Nat /\ Len(bytes) >= 2
    BY LenProperties DEF IsObject
  <2> QED BY <2>1
<1>2. PICK inner : inner = SubSeq(bytes, 2, Len(bytes) - 1)
  OBVIOUS
<1>3. /\ bytes[1] = OpenBrace /\ bytes[l + 1] = CloseBrace /\ Len(bytes) = l + 1
      /\ inner = <<>> \/ Len(inner) % 2 = 1
      /\ \A i \in 1..Len(inner) : IF i % 2 = 1 THEN Len(inner[i]) = 2 ELSE inner[i] = Comma
  <2>1. Head(bytes) = bytes[1] /\ Last(bytes) = bytes[l + 1] /\ Len(bytes) = l + 1
    BY <1>1 DEF Last
  <2> QED BY <1>2, <2>1 DEF IsObject
<1>4. /\ inner \in Seq(Word) /\ Len(inner) = l - 1
      /\ \A i \in 1..(l - 1) : inner[i] = bytes[i + 1]
  <2>1. inner = SubSeq(bytes, 2, l)
    BY <1>1, <1>2
  <2> QED BY <1>1, <1>3, <2>1
<1>5. PICK m \in Nat : l - 1 = IF m = 0 THEN 0 ELSE 2 * m - 1
  <2>1. CASE inner = <<>>
    <3>1. l - 1 = 0
      BY <1>4, <2>1
    <3> QED BY <3>1
  <2>2. CASE Len(inner) % 2 = 1
    <3>1. PICK q \in Nat : q = l - 1 /\ q % 2 = 1
      <4>1. PICK q \in Nat : q = l - 1
        BY <1>1
      <4>2. Len(inner) = q
        BY <1>4, <4>1
      <4> QED BY <2>2, <4>1, <4>2
    <3>2. q \div 2 \in Nat /\ q = 2 * (q \div 2) + 1
      BY <3>1
    <3>3. PICK h \in Nat : q = 2 * h + 1
      BY <3>2
    <3>4. h + 1 \in Nat /\ h + 1 # 0 /\ l - 1 = 2 * (h + 1) - 1
      BY <3>1, <3>3
    <3> QED BY <3>4
  <2> QED BY <1>3, <2>1, <2>2
<1>6. ASSUME NEW i \in 1..m PROVE bytes[2 * i] \in Pair
  <2>1. 2 * i - 1 \in 1..(l - 1) /\ (2 * i - 1) % 2 = 1 /\ (2 * i - 1) + 1 = 2 * i
    BY <1>5
  <2>2. Len(inner[2 * i - 1]) = 2 /\ inner[2 * i - 1] = bytes[2 * i]
    BY <1>3, <1>4, <2>1
  <2>3. bytes[2 * i] \in Word
    <3>1. 2 * i \in 1..Len(bytes)
      BY <1>3, <2>1
    <3> QED BY <3>1, ElementOfSeq
  <2> QED BY <2>2, <2>3, WordTypes
<1>7. ASSUME NEW i \in 1..(m - 1) PROVE bytes[2 * i + 1] = Comma
  <2>1. 2 * i \in 1..(l - 1) /\ (2 * i) % 2 # 1
    BY <1>5
  <2> QED BY <1>3, <1>4, <2>1
<1> DEFINE ms == [i \in 1..m |-> bytes[2 * i]]
<1>8. ms \in Seq(Pair) /\ Len(ms) = m
  BY <1>6
<1>9. PICK buf : buf = SubSeq(bytes, 1, l)
  OBVIOUS
<1>10. /\ buf \in Seq(Word) /\ Len(buf) = l
       /\ \A i \in 1..l : buf[i] = bytes[i]
  BY <1>1, <1>3, <1>9
<1>11. l = (IF m = 0 THEN 1 ELSE 2 * m) /\ 1 \in 1..l
  BY <1>1, <1>5
<1>12. ASSUME NEW i \in 1..m PROVE buf[2 * i] = ms[i]
  <2>1. 2 * i \in 1..l
    BY <1>11
  <2> QED BY <1>10, <2>1
<1>13. ASSUME NEW i \in 1..(m - 1) PROVE buf[2 * i + 1] = Comma
  <2>1. 2 * i + 1 \in 1..l
    BY <1>11
  <2> QED BY <1>7, <1>10, <2>1
<1>14. Opened(buf, ms)
  <2> HIDE DEF ms
  <2> QED BY <1>3, <1>8, <1>10, <1>11, <1>12, <1>13 DEF Opened
<1>15. bytes = Finish(buf)
  <2>1. SubSeq(bytes, 1, l + 1) = Append(SubSeq(bytes, 1, l), bytes[l + 1])
    BY <1>1, <1>3
  <2>2. SubSeq(bytes, 1, l + 1) = bytes
    BY <1>3
  <2> QED BY <1>3, <1>9, <2>1, <2>2 DEF Finish
<1> HIDE DEF ms
<1> QED BY <1>14, <1>15

\* What a caller may pass, and is not cut off.
Passed(bytes) == bytes \in {<<>>, NotAnObject} \/ (bytes \in Seq(Word) /\ IsObject(bytes))

LEMMA ArgumentsPassed == \A args \in Arguments : Intact(args) => Passed(args)
<1>1. Seq(Token) \subseteq Seq(Word)
  BY TokensAreWords, SeqMonotonic
<1> QED BY <1>1, CallsAssumption DEF Passed, Intact

LEMMA PassedJoined ==
    ASSUME NEW bytes, Passed(bytes)
    PROVE  \E ns : /\ Joined(ObjectInner(bytes), ns)
                   /\ bytes \notin {<<>>, NotAnObject} => Reads(bytes, ns)
                   /\ bytes \in {<<>>, NotAnObject} => ns = <<>>
<1>1. CASE bytes \in {<<>>, NotAnObject}
  <2>1. ~(Len(bytes) > 2)
    <3>1. Len(<<>>) = 0 /\ Len(NotAnObject) = 1
      BY DEF NotAnObject
    <3>2. ~(0 > 2) /\ ~(1 > 2)
      OBVIOUS
    <3>3. ~(Len(<<>>) > 2) /\ ~(Len(NotAnObject) > 2)
      BY <3>1, <3>2, Zenon
    <3> QED BY <1>1, <3>3, Zenon
  <2>2. ObjectInner(bytes) = <<>>
    BY <2>1, Zenon DEF ObjectInner
  <2> QED BY <1>1, <2>2, NothingJoined
<1>2. CASE bytes \notin {<<>>, NotAnObject}
  <2>1. PICK buf, ms : Opened(buf, ms) /\ bytes = Finish(buf)
    BY <1>2, ObjectIsClosed DEF Passed
  <2> QED BY <1>2, <2>1, FinishIsObject, FinishReads
<1> QED BY <1>1, <1>2

(* Which member a reader takes *)

KeySet(ms) == {ms[i][1] : i \in 1..Len(ms)}
Gives(ms, k, v) == \E i \in 1..Len(ms) : Final(ms, i) /\ ms[i][1] = k /\ ms[i][2] = v

LEMMA KeysGive ==
    ASSUME NEW ms \in Seq(Pair), NEW k \in KeySet(ms)
    PROVE  \E v \in Nat : Gives(ms, k, v)
<1>1. PICK m \in Nat : m = Len(ms)
  BY LenProperties
<1>2. PICK i \in 1..m : ms[i][1] = k
  BY <1>1 DEF KeySet
<1> DEFINE T == {n \in Nat : \E j \in 1..m : n = m - j /\ ms[j][1] = k}
<1>3. T \subseteq Nat /\ T # {}
  <2>1. m - i \in Nat
    OBVIOUS
  <2>2. m - i \in T
    BY <1>2, <2>1
  <2> QED BY <2>2
<1>4. PICK n \in T : \A h \in T : n <= h
  <2> HIDE DEF T
  <2> QED BY <1>3, Least
<1>5. PICK j \in 1..m : n = m - j /\ ms[j][1] = k
  BY <1>4
<1>6. ASSUME NEW h \in 1..m, j < h PROVE ms[h][1] # ms[j][1]
  <2>1. SUFFICES ASSUME ms[h][1] = k PROVE FALSE
    BY <1>5
  <2>2. m - h \in Nat /\ m - h \in T
    BY <2>1
  <2>3. n <= m - h
    BY <1>4, <2>2
  <2> QED BY <1>5, <1>6, <2>3
<1>7. Final(ms, j)
  BY <1>1, <1>6 DEF Final
<1>8. ms[j][2] \in Nat
  <2>1. ms[j] \in Pair
    BY <1>1, ElementOfSeq
  <2> QED BY <2>1, WordTypes
<1> QED BY <1>1, <1>5, <1>7, <1>8 DEF Gives

LEMMA ReadsGives ==
    ASSUME NEW bytes, NEW ms \in Seq(Pair), Reads(bytes, ms)
    PROVE  /\ KeysOf(bytes) = KeySet(ms)
           /\ \A k, v : Gives(ms, k, v) => ValueOf(bytes, k) = v
BY DEF Reads, KeySet, Gives

LEMMA ConcatGives ==
    ASSUME NEW ms \in Seq(Pair), NEW ns \in Seq(Pair)
    PROVE  /\ ms \o ns \in Seq(Pair)
           /\ KeySet(ms \o ns) = KeySet(ms) \cup KeySet(ns)
           /\ \A k, v : Gives(ms \o ns, k, v) =>
                \/ Gives(ns, k, v)
                \/ k \notin KeySet(ns) /\ Gives(ms, k, v)
<1>1. PICK m \in Nat, n \in Nat : m = Len(ms) /\ n = Len(ns)
  BY LenProperties
<1>2. PICK rs : rs = ms \o ns
  OBVIOUS
<1>3. /\ rs \in Seq(Pair) /\ Len(rs) = m + n
      /\ \A i \in 1..m : rs[i] = ms[i]
      /\ \A i \in 1..n : rs[m + i] = ns[i]
  BY <1>1, <1>2, ConcatParts
<1>4. \A i \in 1..(m + n) : i \in 1..m \/ \E j \in 1..n : i = m + j
  <2>1. ASSUME NEW i \in 1..(m + n), i \notin 1..m PROVE \E j \in 1..n : i = m + j
    <3>1. i - m \in 1..n /\ i = m + (i - m)
      BY <2>1
    <3> QED BY <3>1
  <2> QED BY <2>1
<1>5. \A j \in 1..n : m + j \in 1..(m + n)
  OBVIOUS
<1>6. \A j \in 1..m : j \in 1..(m + n)
  OBVIOUS
<1>7. KeySet(rs) = KeySet(ms) \cup KeySet(ns)
  <2>1. ASSUME NEW i \in 1..(m + n)
        PROVE  (\E j \in 1..m : rs[i][1] = ms[j][1]) \/ (\E j \in 1..n : rs[i][1] = ns[j][1])
    BY <1>3, <1>4
  <2>2. ASSUME NEW j \in 1..m PROVE rs[j][1] = ms[j][1]
    BY <1>3
  <2>3. ASSUME NEW j \in 1..n PROVE rs[m + j][1] = ns[j][1]
    BY <1>3
  <2>4. /\ KeySet(rs) = {rs[i][1] : i \in 1..(m + n)}
        /\ KeySet(ms) = {ms[i][1] : i \in 1..m} /\ KeySet(ns) = {ns[i][1] : i \in 1..n}
    BY <1>1, <1>3 DEF KeySet
  <2>5. ASSUME NEW k \in KeySet(rs) PROVE k \in KeySet(ms) \cup KeySet(ns)
    BY <2>1, <2>4
  <2>6. ASSUME NEW k \in KeySet(ms) PROVE k \in KeySet(rs)
    BY <1>6, <2>2, <2>4
  <2>7. ASSUME NEW k \in KeySet(ns) PROVE k \in KeySet(rs)
    BY <1>5, <2>3, <2>4
  <2> QED BY <2>5, <2>6, <2>7
<1>8. ASSUME NEW k, NEW v, Gives(rs, k, v)
      PROVE  Gives(ns, k, v) \/ (k \notin KeySet(ns) /\ Gives(ms, k, v))
  <2>1. PICK i \in 1..(m + n) : Final(rs, i) /\ rs[i][1] = k /\ rs[i][2] = v
    BY <1>3, <1>8 DEF Gives
  <2>2. \A j \in 1..(m + n) : i < j => rs[j][1] # k
    BY <1>3, <2>1 DEF Final
  <2>3. CASE i \in 1..m
    <3>1. ms[i][1] = k /\ ms[i][2] = v
      BY <1>3, <2>1, <2>3
    <3>2. Final(ms, i)
      <4>1. \A j \in 1..m : i < j => ms[j][1] # k
        BY <1>3, <1>6, <2>2
      <4> QED BY <1>1, <3>1, <4>1 DEF Final
    <3>3. k \notin KeySet(ns)
      <4>1. ASSUME NEW j \in 1..n PROVE ns[j][1] # k
        <5>1. i < m + j
          BY <2>3
        <5>2. rs[m + j][1] # k
          BY <1>5, <2>2, <5>1
        <5> QED BY <1>3, <5>2
      <4> QED BY <1>1, <4>1 DEF KeySet
    <3>4. Gives(ms, k, v)
      BY <1>1, <2>3, <3>1, <3>2 DEF Gives
    <3> QED BY <3>3, <3>4
  <2>4. ASSUME NEW j \in 1..n, i = m + j PROVE Gives(ns, k, v)
    <3>1. ns[j][1] = k /\ ns[j][2] = v
      BY <1>3, <2>1, <2>4
    <3>2. Final(ns, j)
      <4>1. ASSUME NEW h \in 1..n, j < h PROVE ns[h][1] # k
        <5>1. i < m + h
          BY <2>4, <4>1
        <5>2. rs[m + h][1] # k
          BY <1>5, <2>2, <5>1
        <5> QED BY <1>3, <5>2
      <4> QED BY <1>1, <3>1, <4>1 DEF Final
    <3> QED BY <1>1, <3>1, <3>2 DEF Gives
  <2> QED BY <1>4, <2>3, <2>4
<1> QED BY <1>2, <1>3, <1>7, <1>8

(* The super properties, and the fragment kept of them *)

\* These members are a map.
Agrees(ms, m) ==
    /\ ms \in Seq(Pair) /\ m = [k \in KeySet(ms) |-> m[k]]
    /\ \A i \in 1..Len(ms) : m[ms[i][1]] = ms[i][2]
    /\ Len(ms) = Cardinality(KeySet(ms))

Kept(frag, m) == \E ms : Joined(frag, ms) /\ Agrees(ms, m)

LEMMA KeySetTypes ==
    ASSUME NEW ms \in Seq(Pair)
    PROVE  KeySet(ms) \subseteq Names /\ IsFiniteSet(KeySet(ms))
<1>1. PICK m \in Nat : m = Len(ms)
  BY LenProperties
<1>2. \A i \in 1..m : ms[i][1] \in Names
  <2>1. \A i \in 1..m : ms[i] \in Pair
    BY <1>1, ElementOfSeq
  <2> QED BY <2>1, WordTypes
<1> DEFINE f == [i \in 1..m |-> ms[i][1]]
<1>3. f \in Surjection(1..m, KeySet(ms))
  <2>1. KeySet(ms) = {ms[i][1] : i \in 1..m}
    BY <1>1 DEF KeySet
  <2>2. f \in [1..m -> KeySet(ms)] /\ \A k \in KeySet(ms) : \E i \in 1..m : f[i] = k
    BY <2>1
  <2> HIDE DEF f
  <2> QED BY <2>2, Fun_IsSurj
<1>4. IsFiniteSet(KeySet(ms))
  <2> HIDE DEF f
  <2> QED BY <1>3, FS_NatSurjection DEF ExistsSurjection
<1> QED BY <1>1, <1>2, <1>4 DEF KeySet

LEMMA NothingKept == Kept(<<>>, MapOf(<<>>))
<1>1. <<>> \in Seq(Pair) /\ Len(<<>>) = 0 /\ KeySet(<<>>) = {}
  BY EmptySeq DEF KeySet
<1>2. KeysOf(<<>>) = {} /\ MapOf(<<>>) = [k \in {} |-> MapOf(<<>>)[k]]
  <2>1. KeysOf(<<>>) = {}
    BY <1>1, NothingJoined, JoinedReads DEF Reads, KeySet
  <2> QED BY <2>1 DEF MapOf
<1>3. Agrees(<<>>, MapOf(<<>>))
  <2>1. Cardinality(KeySet(<<>>)) = Len(<<>>)
    BY <1>1, FS_EmptySet, Zenon
  <2>2. MapOf(<<>>) = [k \in KeySet(<<>>) |-> MapOf(<<>>)[k]]
    BY <1>1, <1>2, Zenon
  <2>3. \A i \in 1..Len(<<>>) : FALSE
    BY <1>1
  <2> QED BY <1>1, <2>1, <2>2, <2>3, Zenon DEF Agrees
<1> QED BY <1>3, NothingJoined DEF Kept

LEMMA KeptReads ==
    ASSUME NEW frag, NEW m, Kept(frag, m)
    PROVE  /\ MapOf(frag) = m
           /\ Cardinality(MembersIn(frag)) = Cardinality(DOMAIN m)
           /\ \A ms : Joined(frag, ms) /\ Agrees(ms, m) =>
                \A k, v : Gives(ms, k, v) => k \in DOMAIN m /\ v = m[k]
<1>1. ASSUME NEW ms, Joined(frag, ms), Agrees(ms, m), NEW k, NEW v, Gives(ms, k, v)
      PROVE  k \in DOMAIN m /\ v = m[k]
  BY <1>1 DEF Agrees, Gives, KeySet
<1>2. PICK ms : Joined(frag, ms) /\ Agrees(ms, m)
  BY DEF Kept
<1>3. Reads(frag, ms) /\ ms \in Seq(Pair)
  BY <1>2, JoinedReads DEF Joined
<1>4. KeysOf(frag) = KeySet(ms) /\ DOMAIN m = KeySet(ms) /\ m = [k \in KeySet(ms) |-> m[k]]
  BY <1>2, <1>3, ReadsGives DEF Agrees
<1>5. ASSUME NEW k \in KeySet(ms) PROVE ValueOf(frag, k) = m[k]
  <2>1. PICK v \in Nat : Gives(ms, k, v)
    BY <1>3, KeysGive
  <2> QED BY <1>1, <1>2, <1>3, <2>1, ReadsGives
<1>6. MapOf(frag) = m
  <2>1. MapOf(frag) = [k \in KeySet(ms) |-> ValueOf(frag, k)]
    BY <1>4 DEF MapOf
  <2> QED BY <1>4, <1>5, <2>1
<1>7. Cardinality(MembersIn(frag)) = Cardinality(DOMAIN m)
  BY <1>2, <1>3, <1>4 DEF Reads, Agrees
<1> QED BY <1>1, <1>6, <1>7

LEMMA RebuiltKept ==
    ASSUME NEW m, m = [k \in DOMAIN m |-> m[k]], IsFiniteSet(DOMAIN m), DOMAIN m \subseteq Names,
           \A k \in DOMAIN m : m[k] \in Nat
    PROVE  Kept(RebuiltFragment(m), m)
<1>1. PICK n \in Nat : n = Cardinality(DOMAIN m)
  BY FS_CardinalityType
<1>2. PICK keys : keys = SetToSeq(DOMAIN m)
  OBVIOUS
<1>3. keys \in [1..n -> DOMAIN m] /\ IsInjective(keys)
  <2>1. \E f \in [1..n -> DOMAIN m] : IsInjective(f)
    <3>1. PICK f : f \in Bijection(1..n, DOMAIN m)
      BY <1>1, FS_CardinalityType DEF ExistsBijection
    <3>2. f \in Injection(1..n, DOMAIN m)
      BY <3>1 DEF Bijection
    <3> QED BY <3>2 DEF Injection
  <2>2. keys = CHOOSE f \in [1..n -> DOMAIN m] : IsInjective(f)
    BY <1>1, <1>2, Zenon DEF SetToSeq
  <2> QED BY <2>1, <2>2, Zenon
<1>4. \A k \in DOMAIN m : \E i \in 1..n : keys[i] = k
  <2>1. keys \in Injection(1..n, DOMAIN m)
    BY <1>3 DEF Injection
  <2>2. IsFiniteSet(1..n) /\ Cardinality(1..n) = n
    BY FS_Interval
  <2>3. keys \in Surjection(1..n, DOMAIN m)
    BY <1>1, <2>1, <2>2, FS_Injection
  <2> QED BY <2>3 DEF Surjection
<1>5. PICK ms : ms = MapMembers(m)
  OBVIOUS
<1>6. ms = [i \in 1..n |-> <<keys[i], m[keys[i]]>>]
  <2>1. Len(keys) = n
    BY <1>3
  <2> QED BY <1>2, <1>5, <2>1 DEF MapMembers
<1>7. ms \in Seq(Pair) /\ Len(ms) = n /\ \A i \in 1..n : ms[i][1] = keys[i] /\ ms[i][2] = m[keys[i]]
  <2>1. \A i \in 1..n : <<keys[i], m[keys[i]]>> \in Pair
    BY <1>3 DEF Pair
  <2> QED BY <1>6, <2>1
<1>8. KeySet(ms) = DOMAIN m
  <2>1. ASSUME NEW k \in DOMAIN m PROVE k \in KeySet(ms)
    BY <1>4, <1>7 DEF KeySet
  <2>2. ASSUME NEW k \in KeySet(ms) PROVE k \in DOMAIN m
    BY <1>3, <1>7 DEF KeySet
  <2> QED BY <2>1, <2>2
<1>9. Agrees(ms, m)
  BY <1>1, <1>7, <1>8 DEF Agrees
<1>10. Joined(RebuiltFragment(m), ms)
  <2>1. Opened(Fields(ms), ms)
    BY <1>7, FieldsOpened
  <2> QED BY <1>5, <2>1, FinishIsObject DEF RebuiltFragment, Serialize
<1> QED BY <1>9, <1>10 DEF Kept

\* After register and unregister the fragment is kept of another map.
LEMMA KeptTypes ==
    ASSUME NEW frag, NEW m, Kept(frag, m)
    PROVE  /\ m = [k \in DOMAIN m |-> m[k]] /\ IsFiniteSet(DOMAIN m) /\ DOMAIN m \subseteq Names
           /\ \A k \in DOMAIN m : m[k] \in Nat
<1>1. PICK ms : Joined(frag, ms) /\ Agrees(ms, m)
  BY DEF Kept
<1>2. ms \in Seq(Pair) /\ m = [k \in KeySet(ms) |-> m[k]]
  BY <1>1 DEF Agrees
<1>3. ASSUME NEW k \in KeySet(ms) PROVE m[k] \in Nat
  <2>1. PICK v \in Nat : Gives(ms, k, v)
    BY <1>2, KeysGive
  <2> QED BY <1>1, <2>1, KeptReads
<1> QED BY <1>2, <1>3, KeySetTypes

LEMMA MapOfObject ==
    ASSUME NEW args, Passed(args), args \notin {<<>>, NotAnObject}
    PROVE  /\ IsFiniteSet(DOMAIN MapOf(args)) /\ DOMAIN MapOf(args) \subseteq Names
           /\ \A k \in DOMAIN MapOf(args) : MapOf(args)[k] \in Nat
<1>1. PICK ns : Joined(ObjectInner(args), ns) /\ Reads(args, ns)
  BY PassedJoined
<1>2. ns \in Seq(Pair) /\ KeysOf(args) = KeySet(ns)
  BY <1>1, ReadsGives DEF Joined
<1>3. ASSUME NEW k \in KeySet(ns) PROVE ValueOf(args, k) \in Nat
  <2>1. PICK v \in Nat : Gives(ns, k, v)
    BY <1>2, KeysGive
  <2> QED BY <1>1, <1>2, <2>1, ReadsGives
<1> QED BY <1>2, <1>3, KeySetTypes DEF MapOf

LEMMA RegisterKeeps ==
    ASSUME Kept(fragment, map), NEW args \in Arguments, Register(args)
    PROVE  Kept(fragment', map')
<1>1. Passed(args) /\ args \notin {<<>>, NotAnObject}
  <2>1. IsObject(args) /\ Len(args) >= 2
    BY DEF Register, IsObject
  <2>2. ~(Len(<<>>) >= 2) /\ ~(Len(NotAnObject) >= 2)
    BY DEF NotAnObject
  <2>3. args \notin {<<>>, NotAnObject}
    BY <2>1, <2>2, Zenon
  <2> QED BY <2>1, <2>3, ArgumentsPassed DEF Intact
<1>2. PICK n : n = MapOf(args)
  OBVIOUS
<1>3. map' = Extended(map, n) /\ fragment' = RebuiltFragment(map')
  BY <1>2 DEF Register
<1>4. /\ IsFiniteSet(DOMAIN n) /\ DOMAIN n \subseteq Names /\ \A k \in DOMAIN n : n[k] \in Nat
      /\ IsFiniteSet(DOMAIN map) /\ DOMAIN map \subseteq Names /\ \A k \in DOMAIN map : map[k] \in Nat
  BY <1>1, <1>2, MapOfObject, KeptTypes
<1>5. IsFiniteSet(DOMAIN map \cup DOMAIN n)
  BY <1>4, FS_Union
<1>6. map' = [k \in DOMAIN map \cup DOMAIN n |-> IF k \in DOMAIN n THEN n[k] ELSE map[k]]
  BY <1>3 DEF Extended
<1>7. /\ map' = [k \in DOMAIN map' |-> map'[k]] /\ DOMAIN map' = DOMAIN map \cup DOMAIN n
      /\ \A k \in DOMAIN map' : map'[k] \in Nat
  BY <1>4, <1>6
<1>8. DOMAIN map' \subseteq Names /\ IsFiniteSet(DOMAIN map')
  BY <1>4, <1>5, <1>7
<1> QED BY <1>3, <1>7, <1>8, RebuiltKept

LEMMA UnregisterKeeps ==
    ASSUME Kept(fragment, map), NEW key, Unregister(key)
    PROVE  Kept(fragment', map')
<1>1. map' = [k \in DOMAIN map \ {key} |-> map[k]] /\ fragment' = RebuiltFragment(map')
  BY DEF Unregister
<1>2. /\ IsFiniteSet(DOMAIN map) /\ DOMAIN map \subseteq Names /\ \A k \in DOMAIN map : map[k] \in Nat
  BY KeptTypes
<1>3. IsFiniteSet(DOMAIN map \ {key})
  BY <1>2, FS_RemoveElement
<1>4. /\ map' = [k \in DOMAIN map' |-> map'[k]] /\ DOMAIN map' = DOMAIN map \ {key}
      /\ \A k \in DOMAIN map' : map'[k] \in Nat
  BY <1>1, <1>2
<1>5. DOMAIN map' \subseteq Names /\ IsFiniteSet(DOMAIN map')
  BY <1>2, <1>3, <1>4
<1> QED BY <1>1, <1>4, <1>5, RebuiltKept

(* A tracing event *)

Property(f, k) == f.name = k /\ ~IsMessage(f)

\* The visitor after the first n fields.
Recorded(v, fields, n) ==
    /\ v \in [message : Nat, props : Seq(Pair)]
    /\ \A k : k \in KeySet(v.props) <=> \E i \in 1..n : Property(fields[i], k)
    /\ \A k, x : Gives(v.props, k, x) =>
         \E i \in 1..n : /\ Property(fields[i], k) /\ fields[i].value = x
                         /\ \A j \in 1..n : Property(fields[j], k) => j <= i
    /\ \/ v.message = EventName /\ \A i \in 1..n : ~IsMessage(fields[i])
       \/ \E i \in 1..n : /\ IsMessage(fields[i]) /\ fields[i].value = v.message
                          /\ \A j \in 1..n : IsMessage(fields[j]) => j <= i

LEMMA SingleGives ==
    ASSUME NEW e \in Pair
    PROVE  /\ <<e>> \in Seq(Pair) /\ KeySet(<<e>>) = {e[1]}
           /\ \A k, v : Gives(<<e>>, k, v) => k = e[1] /\ v = e[2]
<1>1. <<e>> \in Seq(Pair) /\ Len(<<e>>) = 1 /\ <<e>>[1] = e
  OBVIOUS
<1>2. KeySet(<<e>>) = {<<e>>[i][1] : i \in 1..1}
  BY <1>1 DEF KeySet
<1>3. \A i : i \in 1..1 <=> i = 1
  OBVIOUS
<1>4. KeySet(<<e>>) = {e[1]}
  BY <1>1, <1>2, <1>3
<1>5. \A k, v : Gives(<<e>>, k, v) => k = e[1] /\ v = e[2]
  BY <1>1, <1>3 DEF Gives
<1> QED BY <1>1, <1>4, <1>5

LEMMA RecordedNext ==
    ASSUME NEW fields \in Seq(EventField), NEW n \in Nat, n + 1 \in 1..Len(fields),
           NEW v, Recorded(v, fields, n)
    PROVE  Recorded(Record(v, fields[n + 1]), fields, n + 1)
<1>1. PICK f : f = fields[n + 1]
  OBVIOUS
<1>2. f \in EventField /\ f.name \in Names /\ f.value \in Nat
  <2>1. f \in EventField
    BY <1>1, ElementOfSeq
  <2> QED BY <2>1 DEF EventField, Names
<1>3. v \in [message : Nat, props : Seq(Pair)] /\ v.message \in Nat /\ v.props \in Seq(Pair)
  BY DEF Recorded
<1>4. \A i : i \in 1..(n + 1) <=> i \in 1..n \/ i = n + 1
  OBVIOUS
<1>5. \A i \in 1..n : i <= n + 1
  OBVIOUS
<1>6. PICK w : w = Record(v, f)
  OBVIOUS
<1>7. CASE IsMessage(f)
  <2>1. w = [v EXCEPT !.message = f.value]
    BY <1>6, <1>7 DEF Record
  <2>2. w.props = v.props /\ w.message = f.value /\ w \in [message : Nat, props : Seq(Pair)]
    BY <1>2, <1>3, <2>1
  <2>3. \A k : ~Property(f, k)
    BY <1>7 DEF Property
  <2>4. \A k : (\E i \in 1..(n + 1) : Property(fields[i], k)) <=> \E i \in 1..n : Property(fields[i], k)
    BY <1>1, <1>4, <2>3
  <2>5. \A k : k \in KeySet(w.props) <=> \E i \in 1..(n + 1) : Property(fields[i], k)
    BY <2>2, <2>4 DEF Recorded
  <2>6. ASSUME NEW k, NEW x, Gives(w.props, k, x)
        PROVE  \E i \in 1..(n + 1) : /\ Property(fields[i], k) /\ fields[i].value = x
                                     /\ \A j \in 1..(n + 1) : Property(fields[j], k) => j <= i
    <3>1. PICK i \in 1..n : /\ Property(fields[i], k) /\ fields[i].value = x
                            /\ \A j \in 1..n : Property(fields[j], k) => j <= i
      BY <2>2, <2>6 DEF Recorded
    <3> QED BY <1>1, <1>4, <2>3, <3>1
  <2>7. \E i \in 1..(n + 1) : /\ IsMessage(fields[i]) /\ fields[i].value = w.message
                              /\ \A j \in 1..(n + 1) : IsMessage(fields[j]) => j <= i
    <3>1. n + 1 \in 1..(n + 1) /\ \A j \in 1..(n + 1) : j <= n + 1
      OBVIOUS
    <3> QED BY <1>1, <1>7, <2>2, <3>1
  <2>8. Recorded(w, fields, n + 1)
    BY <2>2, <2>5, <2>6, <2>7 DEF Recorded
  <2> QED BY <1>1, <1>6, <2>8
<1>8. CASE ~IsMessage(f)
  <2>1. PICK e : e = <<f.name, f.value>>
    OBVIOUS
  <2>2. e \in Pair /\ e[1] = f.name /\ e[2] = f.value
    BY <1>2, <2>1 DEF Pair
  <2>3. w = [v EXCEPT !.props = Append(v.props, e)]
    BY <1>6, <1>8, <2>1 DEF Record
  <2>4. w.props = v.props \o <<e>> /\ w.message = v.message /\ w \in [message : Nat, props : Seq(Pair)]
    <3>1. Append(v.props, e) = v.props \o <<e>> /\ Append(v.props, e) \in Seq(Pair)
      BY <1>3, <2>2, AppendIsConcat, AppendProperties
    <3> QED BY <1>3, <2>3, <3>1
  <2>5. \A k : Property(f, k) <=> k = f.name
    BY <1>8 DEF Property
  <2>a. PICK one, p, q : one = <<e>> /\ p = v.props /\ q = w.props
    OBVIOUS
  <2>b. /\ one \in Seq(Pair) /\ KeySet(one) = {f.name} /\ p \in Seq(Pair) /\ q = p \o one
    BY <1>3, <2>2, <2>4, <2>a, SingleGives
  <2>c. /\ KeySet(q) = KeySet(p) \cup KeySet(one)
        /\ \A k, x : Gives(q, k, x) => Gives(one, k, x) \/ (k \notin KeySet(one) /\ Gives(p, k, x))
    BY <2>b, ConcatGives
  <2>6. KeySet(w.props) = KeySet(v.props) \cup {f.name}
    BY <2>a, <2>b, <2>c
  <2>7. ASSUME NEW k PROVE k \in KeySet(w.props) <=> \E i \in 1..(n + 1) : Property(fields[i], k)
    <3>1. k \in KeySet(v.props) <=> \E i \in 1..n : Property(fields[i], k)
      BY DEF Recorded
    <3> QED BY <1>1, <1>4, <2>5, <2>6, <3>1
  <2>8. ASSUME NEW k, NEW x, Gives(w.props, k, x)
        PROVE  \E i \in 1..(n + 1) : /\ Property(fields[i], k) /\ fields[i].value = x
                                     /\ \A j \in 1..(n + 1) : Property(fields[j], k) => j <= i
    <3>1. Gives(<<e>>, k, x) \/ (k \notin {f.name} /\ Gives(v.props, k, x))
      BY <2>8, <2>a, <2>b, <2>c
    <3>2. CASE Gives(<<e>>, k, x)
      <4>1. k = f.name /\ x = f.value
        BY <2>2, <3>2, SingleGives
      <4>2. n + 1 \in 1..(n + 1) /\ \A j \in 1..(n + 1) : j <= n + 1
        OBVIOUS
      <4> QED BY <1>1, <2>5, <4>1, <4>2
    <3>3. CASE k # f.name /\ Gives(v.props, k, x)
      <4>1. PICK i \in 1..n : /\ Property(fields[i], k) /\ fields[i].value = x
                              /\ \A j \in 1..n : Property(fields[j], k) => j <= i
        BY <3>3 DEF Recorded
      <4> QED BY <1>1, <1>4, <2>5, <3>3, <4>1
    <3> QED BY <3>1, <3>2, <3>3
  <2>9. \/ w.message = EventName /\ \A i \in 1..(n + 1) : ~IsMessage(fields[i])
        \/ \E i \in 1..(n + 1) : /\ IsMessage(fields[i]) /\ fields[i].value = w.message
                                 /\ \A j \in 1..(n + 1) : IsMessage(fields[j]) => j <= i
    <3>1. CASE v.message = EventName /\ \A i \in 1..n : ~IsMessage(fields[i])
      BY <1>1, <1>4, <1>8, <2>4, <3>1
    <3>2. ASSUME NEW i \in 1..n, IsMessage(fields[i]), fields[i].value = v.message,
                 \A j \in 1..n : IsMessage(fields[j]) => j <= i
          PROVE  /\ i \in 1..(n + 1) /\ IsMessage(fields[i]) /\ fields[i].value = w.message
                 /\ \A j \in 1..(n + 1) : IsMessage(fields[j]) => j <= i
      BY <1>1, <1>4, <1>8, <2>4, <3>2
    <3> QED BY <3>1, <3>2 DEF Recorded
  <2>10. Recorded(w, fields, n + 1)
    BY <2>4, <2>7, <2>8, <2>9 DEF Recorded
  <2> QED BY <1>1, <1>6, <2>10
<1> QED BY <1>7, <1>8

LEMMA VisitedRecords ==
    ASSUME NEW fields \in Seq(EventField)
    PROVE  Recorded(Visited(fields), fields, Len(fields))
<1>1. PICK m \in Nat : m = Len(fields)
  BY LenProperties
<1>2. PICK zero : zero = [message |-> EventName, props |-> <<>>]
  OBVIOUS
<1>3. Recorded(zero, fields, 0)
  <2>1. zero.message = EventName /\ zero.props = <<>> /\ zero \in [message : Nat, props : Seq(Pair)]
    BY <1>2, EmptySeq DEF EventName
  <2>2. KeySet(<<>>) = {} /\ \A k, x : ~Gives(<<>>, k, x)
    BY DEF KeySet, Gives
  <2>3. \A i \in 1..0 : FALSE
    OBVIOUS
  <2> QED BY <2>1, <2>2, <2>3 DEF Recorded
<1> DEFINE S == [message : Nat, props : Seq(Pair)]
           step == [x \in (1..m) \X S |-> Record(x[2], fields[x[1]])]
<1>4. zero \in S
  BY <1>3 DEF Recorded
<1>5. step \in [(1..m) \X S -> S]
  <2>1. ASSUME NEW v \in S, NEW f \in EventField PROVE Record(v, f) \in S
    <3>1. f.name \in Names /\ f.value \in Nat /\ v.props \in Seq(Pair)
      BY <2>1 DEF EventField, Names
    <3>2. <<f.name, f.value>> \in Pair
      BY <3>1 DEF Pair
    <3>3. Append(v.props, <<f.name, f.value>>) \in Seq(Pair)
      BY <3>1, <3>2, AppendProperties
    <3> QED BY <3>1, <3>3 DEF Record
  <2>2. \A x \in (1..m) \X S : Record(x[2], fields[x[1]]) \in S
    <3> HIDE DEF S
    <3>1. \A x \in (1..m) \X S : x[1] \in 1..m /\ x[2] \in S
      OBVIOUS
    <3>2. \A n \in 1..m : fields[n] \in EventField
      BY <1>1, ElementOfSeq
    <3> QED BY <2>1, <3>1, <3>2
  <2> HIDE DEF S
  <2> QED BY <2>2
<1>6. PICK f \in [0..m -> S] : RecursiveTo(f, zero, m, step)
  <2> HIDE DEF step, S
  <2> QED BY <1>4, <1>5, RecursionTo
<1>7. f = [n \in 0..m |-> IF n = 0 THEN zero ELSE step[<<n, f[n - 1]>>]]
  <2> HIDE DEF step, S
  <2> QED BY <1>6, Zenon DEF RecursiveTo
<1>8. f = [n \in 0..m |-> IF n = 0 THEN zero ELSE Record(f[n - 1], fields[n])]
  <2>1. ASSUME NEW n \in 0..m PROVE f[n] = IF n = 0 THEN zero ELSE Record(f[n - 1], fields[n])
    <3> HIDE DEF S
    <3>1. CASE n = 0
      BY <1>7, <3>1
    <3>2. CASE n # 0
      <4>1. n \in 1..m /\ n - 1 \in 0..m
        BY <3>2
      <4>2. PICK y : y = <<n, f[n - 1]>>
        OBVIOUS
      <4>3. y \in (1..m) \X S /\ y[1] = n /\ y[2] = f[n - 1]
        BY <4>1, <4>2
      <4>4. f[n] = step[y]
        <5> HIDE DEF step
        <5> QED BY <1>7, <3>2, <4>2
      <4> QED BY <3>2, <4>3, <4>4
    <3> QED BY <3>1, <3>2
  <2> QED BY <2>1
<1> HIDE DEF step
<1> DEFINE visitor[n \in 0..Len(fields)] ==
             IF n = 0 THEN [message |-> EventName, props |-> <<>>]
             ELSE Record(visitor[n - 1], fields[n])
<1>9. visitor = [n \in 0..Len(fields) |-> IF n = 0 THEN [message |-> EventName, props |-> <<>>]
                                          ELSE Record(visitor[n - 1], fields[n])]
  <2>1. f = [n \in 0..Len(fields) |-> IF n = 0 THEN [message |-> EventName, props |-> <<>>]
                                      ELSE Record(f[n - 1], fields[n])]
    BY <1>1, <1>2, <1>8
  <2> QED BY <2>1, Zenon DEF visitor
<1>10. Visited(fields) = visitor[m]
  BY <1>1, Zenon DEF Visited
<1> HIDE DEF visitor
<1> DEFINE Done == {n \in 0..m : Recorded(visitor[n], fields, n)}
<1>11. 0 \in Done
  <2>1. visitor[0] = zero
    BY <1>1, <1>2, <1>9
  <2> QED BY <1>3, <2>1
<1>12. ASSUME NEW n \in 0..(m - 1), n \in Done PROVE n + 1 \in Done
  <2>1. n + 1 \in 0..m /\ n + 1 # 0 /\ (n + 1) - 1 = n /\ n \in Nat /\ n + 1 \in 1..Len(fields)
    BY <1>1
  <2>2. visitor[n + 1] = Record(visitor[n], fields[n + 1])
    BY <1>1, <1>9, <2>1
  <2>3. Recorded(visitor[n], fields, n)
    BY <1>12
  <2>4. Recorded(visitor[n + 1], fields, n + 1)
    BY <2>1, <2>2, <2>3, RecordedNext
  <2> QED BY <2>1, <2>4
<1>13. 0..m \subseteq Done
  <2> HIDE DEF Done
  <2> QED BY <1>11, <1>12, InductionTo
<1>14. Recorded(visitor[m], fields, m)
  <2>1. m \in 0..m
    OBVIOUS
  <2> QED BY <1>13, <2>1
<1> QED BY <1>1, <1>10, <1>14

LEMMA EventReads ==
    ASSUME NEW fields \in Seq(EventField), NEW v, Recorded(v, fields, Len(fields))
    PROVE  /\ KeySet(v.props) \cup {"message"} = {f.name : f \in ToSet(fields)} \cup {"message"}
           /\ \A k, x : Gives(v.props, k, x) => EventReadsAs(fields, k) = x
           /\ \A k : k \notin KeySet(v.props) => EventReadsAs(fields, k) = v.message
<1>1. PICK n \in Nat : n = Len(fields) /\ DOMAIN fields = 1..n
  BY LenProperties
<1>2. \A k : k \in KeySet(v.props) <=> \E i \in 1..n : Property(fields[i], k)
  BY <1>1 DEF Recorded
<1>3. \A k : PropertyFields(fields, k) = {i \in 1..n : Property(fields[i], k)}
  BY <1>1 DEF PropertyFields, Property
<1>4. KeySet(v.props) \cup {"message"} = {f.name : f \in ToSet(fields)} \cup {"message"}
  <2>1. ToSet(fields) = {fields[i] : i \in 1..n}
    BY <1>1 DEF ToSet
  <2>2. ASSUME NEW k \in KeySet(v.props) PROVE k \in {f.name : f \in ToSet(fields)}
    BY <1>2, <2>1 DEF Property
  <2>3. ASSUME NEW i \in 1..n PROVE fields[i].name \in KeySet(v.props) \cup {"message"}
    BY <1>2 DEF Property, IsMessage
  <2>4. ASSUME NEW k \in {f.name : f \in ToSet(fields)} PROVE k \in KeySet(v.props) \cup {"message"}
    BY <2>1, <2>3
  <2> QED BY <2>2, <2>4
<1>5. ASSUME NEW k, NEW x, Gives(v.props, k, x) PROVE EventReadsAs(fields, k) = x
  <2>1. PICK i \in 1..n : /\ Property(fields[i], k) /\ fields[i].value = x
                         /\ \A j \in 1..n : Property(fields[j], k) => j <= i
    BY <1>1, <1>5 DEF Recorded
  <2>2. PICK T : T = PropertyFields(fields, k)
    OBVIOUS
  <2>3. i \in T /\ T \subseteq Nat /\ \A y \in T : y <= i
    BY <1>3, <2>1, <2>2
  <2>4. T # {} /\ Max(T) = i
    BY <2>3, TheGreatest
  <2> QED BY <2>1, <2>2, <2>4 DEF EventReadsAs
<1>6. ASSUME NEW k, k \notin KeySet(v.props) PROVE EventReadsAs(fields, k) = v.message
  <2>1. PropertyFields(fields, k) = {}
    BY <1>2, <1>3, <1>6
  <2>2. PICK T : T = MessageFields(fields)
    OBVIOUS
  <2>3. T = {i \in 1..n : IsMessage(fields[i])}
    BY <1>1, <2>2 DEF MessageFields
  <2>4. CASE v.message = EventName /\ \A i \in 1..n : ~IsMessage(fields[i])
    <3>1. T = {}
      BY <2>3, <2>4
    <3> QED BY <2>1, <2>2, <2>4, <3>1 DEF EventReadsAs
  <2>5. ASSUME NEW i \in 1..n, IsMessage(fields[i]), fields[i].value = v.message,
               \A j \in 1..n : IsMessage(fields[j]) => j <= i
        PROVE  EventReadsAs(fields, k) = v.message
    <3>1. i \in T /\ T \subseteq Nat /\ \A y \in T : y <= i
      BY <2>3, <2>5
    <3>2. T # {} /\ Max(T) = i
      BY <3>1, TheGreatest
    <3> QED BY <2>1, <2>2, <2>5, <3>2 DEF EventReadsAs
  <2> QED BY <1>1, <2>4, <2>5 DEF Recorded
<1> QED BY <1>4, <1>5, <1>6

(* The payload of a call *)

LEMMA CallTypes ==
    ASSUME NEW c \in Call
    PROVE  /\ c.kind \in AllKinds
           /\ c.kind = "trace" => c.args = <<>> /\ c.fields \in Seq(EventField)
           /\ c.kind # "trace" => (Intact(c.args) => Passed(c.args)) /\ c.fields = <<>>
<1>1. CASE c \in [kind : Kinds \ {"trace"}, sid : {NoSession, CallerSession}, args : Arguments,
                  fields : {<<>>}, valid : BOOLEAN]
  BY <1>1, ArgumentsPassed, CallsAssumption
<1>2. CASE c \in [kind : Kinds \cap {"trace"}, sid : {NoSession}, args : {<<>>}, fields : Events,
                  valid : BOOLEAN]
  BY <1>2, CallsAssumption
<1> QED BY <1>1, <1>2 DEF Call

LEMMA OwnTypes ==
    ASSUME NEW c, c.kind \in AllKinds \ {"metric"}, OwnValue(c) \in Nat
    PROVE  /\ OwnMembers(c) \in Seq(Pair)
           /\ KeySet(OwnMembers(c)) = ToSet(OwnKeys(c.kind))
           /\ \A k, v : Gives(OwnMembers(c), k, v) => v = OwnValue(c)
<1>1. PICK keys : keys = OwnKeys(c.kind)
  OBVIOUS
<1>2. keys \in Seq(Names)
  <2>1. /\ <<"user_id">> \in Seq(Names) /\ <<"message">> \in Seq(Names)
        /\ <<"group_id", "user_id">> \in Seq(Names) /\ <<"previous_id", "user_id">> \in Seq(Names)
        /\ <<"user_id", "amount", "currency", "order_id">> \in Seq(Names)
    <3>1. \A a \in Names : <<a>> \in Seq(Names)
      OBVIOUS
    <3>2. \A a, b \in Names : <<a, b>> \in Seq(Names)
      OBVIOUS
    <3>3. \A a, b, c1, d \in Names : <<a, b, c1, d>> \in Seq(Names)
      OBVIOUS
    <3>4. {"user_id", "amount", "currency", "order_id", "group_id", "previous_id", "message"} \subseteq Names
      BY DEF Names
    <3> QED BY <3>1, <3>2, <3>3, <3>4
  <2>2. keys \in {<<"user_id">>, <<"message">>, <<"group_id", "user_id">>, <<"previous_id", "user_id">>,
                  <<"user_id", "amount", "currency", "order_id">>}
    BY <1>1 DEF OwnKeys, AllKinds
  <2> QED BY <2>1, <2>2, Zenon
<1>3. PICK n \in Nat : n = Len(keys) /\ DOMAIN keys = 1..n
  BY <1>2, LenProperties
<1>4. PICK ms : ms = OwnMembers(c)
  OBVIOUS
<1>5. ms = [i \in 1..n |-> <<keys[i], OwnValue(c)>>]
  BY <1>1, <1>3, <1>4 DEF OwnMembers
<1>6. /\ ms \in Seq(Pair) /\ Len(ms) = n
      /\ \A i \in 1..n : ms[i][1] = keys[i] /\ ms[i][2] = OwnValue(c)
  <2>1. \A i \in 1..n : <<keys[i], OwnValue(c)>> \in Pair
    <3>1. \A i \in 1..n : keys[i] \in Names
      BY <1>2, <1>3, ElementOfSeq
    <3> QED BY <3>1 DEF Pair
  <2> QED BY <1>5, <2>1
<1>7. KeySet(ms) = ToSet(keys)
  <2>1. KeySet(ms) = {ms[i][1] : i \in 1..n} /\ ToSet(keys) = {keys[i] : i \in 1..n}
    BY <1>3, <1>6 DEF KeySet, ToSet
  <2> QED BY <1>6, <2>1
<1>8. \A k, v : Gives(ms, k, v) => v = OwnValue(c)
  BY <1>6 DEF Gives
<1> QED BY <1>1, <1>4, <1>6, <1>7, <1>8

\* The members a call has of its own arguments.
LEMMA ArgsJoined ==
    ASSUME NEW c \in Call, Intact(c.args), NEW e, e.call = c
    PROVE  \E ns : /\ Joined(ObjectInner(ArgsOf(c)), ns) /\ OwnValue(c) \in Nat
                   /\ c.kind = "trace" =>
                        /\ KeySet(ns) \cup {"message"} = {f.name : f \in ToSet(c.fields)} \cup {"message"}
                        /\ \A k, x : Gives(ns, k, x) => EventReadsAs(c.fields, k) = x
                        /\ \A k : k \notin KeySet(ns) => EventReadsAs(c.fields, k) = OwnValue(c)
                   /\ c.kind # "trace" =>
                        /\ KeySet(ns) = KeysOf(ObjectInner(c.args)) /\ OwnValue(c) = Argument
                        /\ \A k, x : Gives(ns, k, x) => ValueOf(c.args, k) = x
<1>1. CASE c.kind = "trace"
  <2>1. PICK v : v = Visited(c.fields)
    OBVIOUS
  <2>2. c.fields \in Seq(EventField) /\ Recorded(v, c.fields, Len(c.fields))
    BY <1>1, <2>1, CallTypes, VisitedRecords
  <2>3. v.props \in Seq(Pair) /\ v.message \in Nat
    BY <2>2 DEF Recorded
  <2>4. ArgsOf(c) = Serialize(v.props) /\ OwnValue(c) = v.message
    BY <1>1, <2>1 DEF ArgsOf, OwnValue
  <2>5. Joined(ObjectInner(ArgsOf(c)), v.props)
    BY <2>3, <2>4, FieldsOpened, FinishIsObject DEF Serialize
  <2> QED BY <1>1, <2>2, <2>3, <2>4, <2>5, EventReads
<1>2. CASE c.kind # "trace"
  <2>1. Passed(c.args) /\ ArgsOf(c) = c.args /\ OwnValue(c) = Argument
    BY <1>2, CallTypes DEF ArgsOf, OwnValue
  <2>2. PICK ns : /\ Joined(ObjectInner(c.args), ns)
                  /\ c.args \notin {<<>>, NotAnObject} => Reads(c.args, ns)
                  /\ c.args \in {<<>>, NotAnObject} => ns = <<>>
    BY <2>1, PassedJoined
  <2>3. ns \in Seq(Pair) /\ KeySet(ns) = KeysOf(ObjectInner(c.args))
    BY <2>2, JoinedReads, ReadsGives DEF Joined
  <2>4. ASSUME NEW k, NEW x, Gives(ns, k, x) PROVE ValueOf(c.args, k) = x
    <3>1. ns # <<>>
      BY <2>4 DEF Gives
    <3> QED BY <2>2, <2>3, <2>4, <3>1, ReadsGives
  <2>5. OwnValue(c) \in Nat
    BY <2>1 DEF Argument
  <2> QED BY <1>2, <2>1, <2>2, <2>3, <2>4, <2>5
<1> QED BY <1>1, <1>2

\* What was read of the super properties, while m was in force.
Fragmented(c, frag, m) == IF c.kind \in Merging THEN Kept(frag, m) ELSE frag = <<>>

LEMMA PayloadReads ==
    ASSUME NEW c \in Call, c.kind # "metric", Intact(c.args), NEW frag, NEW m, Fragmented(c, frag, m),
           NEW e, e.call = c, e.payload = PayloadOf(c, frag)
    PROVE  /\ IsObject(e.payload)
           /\ KeysOf(e.payload) = ExpectedKeys(e, m)
           /\ \A key \in ExpectedKeys(e, m) : ValueOf(e.payload, key) = ReadsAs(e, m, key)
<1>1. PICK ns : /\ Joined(ObjectInner(ArgsOf(c)), ns) /\ OwnValue(c) \in Nat
                /\ c.kind = "trace" =>
                     /\ KeySet(ns) \cup {"message"} = {f.name : f \in ToSet(c.fields)} \cup {"message"}
                     /\ \A k, x : Gives(ns, k, x) => EventReadsAs(c.fields, k) = x
                     /\ \A k : k \notin KeySet(ns) => EventReadsAs(c.fields, k) = OwnValue(c)
                /\ c.kind # "trace" =>
                     /\ KeySet(ns) = KeysOf(ObjectInner(c.args)) /\ OwnValue(c) = Argument
                     /\ \A k, x : Gives(ns, k, x) => ValueOf(c.args, k) = x
  BY ArgsJoined
<1>2. PICK own : own = OwnMembers(c)
  OBVIOUS
<1>3. /\ c.kind \in AllKinds \ {"metric"} /\ own \in Seq(Pair)
      /\ KeySet(own) = ToSet(OwnKeys(c.kind))
      /\ \A k, v : Gives(own, k, v) => v = OwnValue(c)
  <2>1. c.kind \in AllKinds \ {"metric"}
    BY CallTypes
  <2> QED BY <1>1, <1>2, <2>1, OwnTypes
<1>4. PICK fs : /\ Joined(frag, fs)
                /\ c.kind \in Merging => KeySet(fs) = DOMAIN m /\ \A k, v : Gives(fs, k, v) => v = m[k]
                /\ c.kind \notin Merging => KeySet(fs) = {}
  <2>1. CASE c.kind \in Merging
    <3>1. PICK fs : Joined(frag, fs) /\ Agrees(fs, m)
      BY <2>1 DEF Fragmented, Kept
    <3>2. DOMAIN m = KeySet(fs)
      BY <3>1 DEF Agrees
    <3>3. Kept(frag, m)
      BY <2>1 DEF Fragmented
    <3> QED BY <2>1, <3>1, <3>2, <3>3, KeptReads
  <2>2. CASE c.kind \notin Merging
    <3>1. frag = <<>>
      BY <2>2 DEF Fragmented
    <3>2. KeySet(<<>>) = {}
      BY DEF KeySet
    <3> QED BY <2>2, <3>1, <3>2, NothingJoined
  <2> QED BY <2>1, <2>2
<1>5. PICK b1, b2, b3 : /\ b1 = Fields(own) /\ b2 = Fragment(b1, frag)
                        /\ b3 = Object(b2, ArgsOf(c)) /\ e.payload = Finish(b3)
  BY <1>2 DEF PayloadOf
<1>6. Opened(b1, own)
  BY <1>3, <1>5, FieldsOpened
<1>7. Opened(b2, own \o fs)
  <2>1. b2 = IF frag = <<>> THEN b1 ELSE Separated(b1) \o frag
    BY <1>5 DEF Fragment
  <2> QED BY <1>4, <1>6, <2>1, SplicedOrNot
<1>8. PICK mid, all : mid = own \o fs /\ all = mid \o ns
  OBVIOUS
<1>9. Opened(b3, all)
  <2>1. PICK inner : inner = ObjectInner(ArgsOf(c))
    OBVIOUS
  <2>2. b3 = IF inner = <<>> THEN b2 ELSE Separated(b2) \o inner
    BY <1>5, <2>1 DEF Object
  <2> QED BY <1>1, <1>7, <1>8, <2>1, <2>2, SplicedOrNot
<1>10. IsObject(e.payload) /\ Reads(e.payload, all) /\ all \in Seq(Pair)
  BY <1>5, <1>9, FinishIsObject, FinishReads DEF Opened
<1>11. fs \in Seq(Pair) /\ ns \in Seq(Pair)
  BY <1>1, <1>4 DEF Joined
<1>12. /\ mid \in Seq(Pair) /\ KeySet(mid) = KeySet(own) \cup KeySet(fs)
       /\ \A k, v : Gives(mid, k, v) => Gives(fs, k, v) \/ (k \notin KeySet(fs) /\ Gives(own, k, v))
  BY <1>3, <1>8, <1>11, ConcatGives
<1>13. /\ KeySet(all) = KeySet(mid) \cup KeySet(ns)
       /\ \A k, v : Gives(all, k, v) => Gives(ns, k, v) \/ (k \notin KeySet(ns) /\ Gives(mid, k, v))
  BY <1>8, <1>11, <1>12, ConcatGives
<1>14. KeysOf(e.payload) = KeySet(own) \cup KeySet(fs) \cup KeySet(ns)
  BY <1>10, <1>12, <1>13, ReadsGives
<1>15. ExpectedKeys(e, m) = KeySet(own) \cup KeySet(fs) \cup KeySet(ns)
  <2>1. KeySet(fs) = IF c.kind \in Merging THEN DOMAIN m ELSE {}
    BY <1>4
  <2>2. CASE c.kind = "trace"
    <3>1. KeySet(own) = {"message"}
      <4>1. OwnKeys(c.kind) = <<"message">>
        BY <2>2 DEF OwnKeys
      <4>2. ToSet(<<"message">>) = {"message"}
        BY DEF ToSet
      <4> QED BY <1>3, <4>1, <4>2
    <3>2. KeysOf(ObjectInner(c.args)) = {}
      <4>1. c.args = <<>>
        BY <2>2, CallTypes
      <4>2. ~(Len(<<>>) > 2)
        OBVIOUS
      <4>3. ObjectInner(<<>>) = <<>>
        BY <4>2, Zenon DEF ObjectInner
      <4>4. KeysOf(<<>>) = {}
        BY NothingJoined, JoinedReads DEF Reads
      <4> QED BY <4>1, <4>3, <4>4
    <3>3. KeySet(ns) \cup {"message"} = {f.name : f \in ToSet(c.fields)} \cup {"message"}
      BY <1>1, <2>2
    <3>4. ExpectedKeys(e, m) = KeySet(own) \cup {} \cup {f.name : f \in ToSet(c.fields)} \cup KeySet(fs)
      BY <1>3, <2>1, <3>2 DEF ExpectedKeys
    <3> QED BY <3>1, <3>3, <3>4
  <2>3. CASE c.kind # "trace"
    <3>1. KeySet(ns) = KeysOf(ObjectInner(c.args))
      BY <1>1, <2>3
    <3>2. {f.name : f \in ToSet(c.fields)} = {}
      <4>1. c.fields = <<>>
        BY <2>3, CallTypes
      <4> QED BY <4>1 DEF ToSet
    <3>3. ExpectedKeys(e, m) = KeySet(own) \cup KeySet(ns) \cup {} \cup KeySet(fs)
      BY <1>3, <2>1, <3>1, <3>2 DEF ExpectedKeys
    <3> QED BY <3>3
  <2> QED BY <2>2, <2>3
<1>16. ASSUME NEW key \in ExpectedKeys(e, m) PROVE ValueOf(e.payload, key) = ReadsAs(e, m, key)
  <2>1. key \in KeySet(all)
    BY <1>12, <1>13, <1>15
  <2>2. PICK v \in Nat : Gives(all, key, v)
    BY <1>10, <2>1, KeysGive
  <2>3. ValueOf(e.payload, key) = v
    BY <1>10, <2>2, ReadsGives
  <2>4. \/ Gives(ns, key, v)
        \/ key \notin KeySet(ns) /\ Gives(fs, key, v)
        \/ key \notin KeySet(ns) /\ key \notin KeySet(fs) /\ Gives(own, key, v)
    BY <1>12, <1>13, <2>2
  <2>5. \A ms, k, x : Gives(ms, k, x) => k \in KeySet(ms)
    BY DEF Gives, KeySet
  <2>6. CASE c.kind = "trace"
    <3>1. c.kind \notin Merging /\ KeySet(fs) = {}
      BY <1>4, <2>6 DEF Merging
    <3>2. ReadsAs(e, m, key) = EventReadsAs(c.fields, key)
      BY <2>6 DEF ReadsAs
    <3>3. CASE Gives(ns, key, v)
      BY <1>1, <2>3, <2>6, <3>2, <3>3
    <3>4. CASE key \notin KeySet(ns) /\ Gives(own, key, v)
      BY <1>1, <1>3, <2>3, <2>6, <3>2, <3>4
    <3> QED BY <2>4, <2>5, <3>1, <3>3, <3>4
  <2>7. CASE c.kind # "trace"
    <3>1. ReadsAs(e, m, key) = IF key \in KeySet(ns) THEN ValueOf(c.args, key)
                               ELSE IF c.kind \in Merging /\ key \in DOMAIN m THEN m[key]
                               ELSE Argument
      BY <1>1, <2>7 DEF ReadsAs
    <3>2. CASE Gives(ns, key, v)
      BY <1>1, <2>3, <2>5, <2>7, <3>1, <3>2
    <3>3. CASE key \notin KeySet(ns) /\ Gives(fs, key, v)
      <4>1. key \in KeySet(fs) /\ c.kind \in Merging /\ key \in DOMAIN m /\ v = m[key]
        BY <1>4, <2>5, <3>3
      <4> QED BY <2>3, <3>1, <3>3, <4>1
    <3>4. CASE key \notin KeySet(ns) /\ key \notin KeySet(fs) /\ Gives(own, key, v)
      <4>1. v = Argument /\ ~(c.kind \in Merging /\ key \in DOMAIN m)
        BY <1>1, <1>3, <1>4, <2>7, <3>4
      <4> QED BY <2>3, <3>1, <3>4, <4>1
    <3> QED BY <2>4, <3>2, <3>3, <3>4
  <2> QED BY <2>6, <2>7
<1> QED BY <1>10, <1>14, <1>15, <1>16

(* What the calls under way have read of the super properties *)

Merges(c, at, frag, m, ms) ==
    /\ c \in Call /\ m \in ms
    /\ at = "fragment" => c.kind \in Merging
    /\ IF at = "enqueue" THEN \E n \in ms : Fragmented(c, frag, n) ELSE frag = <<>>

ReadsLike(e) ==
    \E m \in e.maps :
        /\ KeysOf(e.payload) = ExpectedKeys(e, m)
        /\ \A key \in ExpectedKeys(e, m) : ValueOf(e.payload, key) = ReadsAs(e, m, key)

PropsTypes ==
    /\ pc \in [Threads -> {"idle", "session", "check", "fragment", "enqueue"}]
    /\ DOMAIN call = Threads /\ DOMAIN super = Threads /\ DOMAIN maps = Threads
    /\ call = [t \in Threads |-> call[t]] /\ super = [t \in Threads |-> super[t]]
    /\ maps = [t \in Threads |-> maps[t]]

GoodPayloads == \A e \in IntactPayload : IsObject(e.payload) /\ ReadsLike(e)

PropsInv ==
    /\ PropsTypes
    /\ Kept(fragment, map)
    /\ \A t \in Threads : pc[t] # "idle" => Merges(call[t], pc[t], super[t], map, maps[t])
    /\ GoodPayloads

LEMMA InitProps == Init => PropsInv
<1> SUFFICES ASSUME Init PROVE PropsInv
  OBVIOUS
<1>1. PropsTypes
  BY DEF Init, PropsTypes
<1>2. Kept(fragment, map)
  BY NothingKept DEF Init
<1>3. \A t \in Threads : pc[t] = "idle"
  BY DEF Init
<1>4. GoodPayloads
  BY DEF Init, GoodPayloads, IntactPayload, WithPayload, Entries
<1> QED BY <1>1, <1>2, <1>3, <1>4 DEF PropsInv

\* The payloads do not depend on what the last entry is not.
LEMMA SamePayloads == ASSUME GoodPayloads, UNCHANGED last PROVE GoodPayloads'
<1>1. IntactPayload' = IntactPayload
  BY DEF IntactPayload, WithPayload, Entries, Intact
<1> QED BY <1>1 DEF GoodPayloads, ReadsLike, ExpectedKeys, ReadsAs

LEMMA ChangeProps ==
    ASSUME PropsInv, Noticed, Kept(fragment', map')
    PROVE  PropsInv'
<1>1. /\ maps' = [t \in Threads |-> IF pc[t] = "idle" THEN {} ELSE maps[t] \cup {map'}]
      /\ UNCHANGED <<pc, call, super, last>>
  BY DEF Noticed
<1>2. PropsTypes'
  BY <1>1 DEF PropsInv, PropsTypes
<1>3. ASSUME NEW t \in Threads, pc'[t] # "idle"
      PROVE  Merges(call'[t], pc'[t], super'[t], map', maps'[t])
  <2>1. maps'[t] = maps[t] \cup {map'} /\ call'[t] = call[t] /\ super'[t] = super[t] /\ pc'[t] = pc[t]
    BY <1>1, <1>3
  <2>2. Merges(call[t], pc[t], super[t], map, maps[t])
    BY <1>1, <1>3 DEF PropsInv
  <2> QED BY <2>1, <2>2 DEF Merges
<1>4. GoodPayloads'
  BY <1>1, SamePayloads DEF PropsInv
<1> QED BY <1>2, <1>3, <1>4 DEF PropsInv

\* A call goes on: what holds of it afterwards is all there is to show.
LEMMA CallMerges ==
    ASSUME PropsInv, NEW t \in Threads, UNCHANGED <<fragment, map>>, PropsTypes', GoodPayloads',
           \A u \in Threads : u # t =>
              /\ pc'[u] = pc[u] /\ call'[u] = call[u] /\ super'[u] = super[u] /\ maps'[u] = maps[u],
           pc'[t] # "idle" => Merges(call'[t], pc'[t], super'[t], map, maps'[t])
    PROVE  PropsInv'
<1>1. ASSUME NEW u \in Threads, pc'[u] # "idle"
      PROVE  Merges(call'[u], pc'[u], super'[u], map', maps'[u])
  <2>1. CASE u = t
    BY <1>1, <2>1
  <2>2. CASE u # t
    BY <1>1, <2>2 DEF PropsInv
  <2> QED BY <2>1, <2>2
<1> QED BY <1>1 DEF PropsInv

LEMMA BeginMerges ==
    ASSUME PropsInv, NEW t \in Threads, NEW c \in Call, Begin(t, c)
    PROVE  PropsInv'
<1>1. /\ call' = [call EXCEPT ![t] = c] /\ super' = [super EXCEPT ![t] = <<>>]
      /\ maps' = [maps EXCEPT ![t] = {map}]
      /\ pc' = [pc EXCEPT ![t] = IF ReadsSession(c) THEN "session" ELSE "check"]
      /\ UNCHANGED <<map, fragment, last>>
  BY DEF Begin, Goto, shared
<1>2. PropsTypes'
  BY <1>1 DEF PropsInv, PropsTypes
<1>3. Merges(call'[t], pc'[t], super'[t], map, maps'[t])
  <2>1. /\ call'[t] = c /\ super'[t] = <<>> /\ maps'[t] = {map}
        /\ pc'[t] \in {"session", "check"}
    BY <1>1 DEF PropsInv, PropsTypes
  <2> QED BY <2>1 DEF Merges
<1>4. \A u \in Threads : u # t =>
        /\ pc'[u] = pc[u] /\ call'[u] = call[u] /\ super'[u] = super[u] /\ maps'[u] = maps[u]
  BY <1>1 DEF PropsInv, PropsTypes
<1>5. GoodPayloads'
  BY <1>1, SamePayloads DEF PropsInv
<1> QED BY <1>1, <1>2, <1>3, <1>4, <1>5, CallMerges

LEMMA ReadMerges ==
    ASSUME PropsInv, NEW t \in Threads, ReadSessionId(t) \/ Validate(t) \/ SuperFragment(t)
    PROVE  PropsInv'
<1>1. /\ pc[t] \in {"session", "check", "fragment"} /\ UNCHANGED <<map, fragment, last, maps>>
      /\ call' \in {call, [call EXCEPT ![t] = NoCall]}
      /\ super' \in {super, [super EXCEPT ![t] = fragment]}
      /\ \E at \in {"idle", "check", "fragment", "enqueue"} : pc' = [pc EXCEPT ![t] = at]
  BY DEF ReadSessionId, Validate, SuperFragment, Ended, Goto, shared
<1>2. PropsTypes'
  BY <1>1 DEF PropsInv, PropsTypes
<1>3. GoodPayloads'
  BY <1>1, SamePayloads DEF PropsInv
<1>4. \A u \in Threads : u # t =>
        /\ pc'[u] = pc[u] /\ call'[u] = call[u] /\ super'[u] = super[u] /\ maps'[u] = maps[u]
  BY <1>1 DEF PropsInv, PropsTypes
<1>5. Merges(call[t], pc[t], super[t], map, maps[t])
  BY <1>1 DEF PropsInv
<1>6. call[t] \in Call /\ map \in maps[t] /\ super[t] = <<>> /\ maps'[t] = maps[t]
  BY <1>1, <1>5 DEF Merges
<1>7. ASSUME pc'[t] # "idle" PROVE Merges(call'[t], pc'[t], super'[t], map, maps'[t])
  <2>1. CASE ReadSessionId(t)
    <3>1. pc'[t] = "check" /\ call' = call /\ super' = super
      BY <2>1 DEF ReadSessionId, Goto, PropsInv, PropsTypes
    <3> QED BY <1>6, <3>1 DEF Merges
  <2>2. CASE Validate(t)
    <3>1. /\ call' = call /\ super' = super
          /\ pc'[t] = IF call[t].kind \in Merging THEN "fragment" ELSE "enqueue"
      BY <1>7, <2>2 DEF Validate, Ended, Goto, PropsInv, PropsTypes
    <3>2. CASE call[t].kind \in Merging
      BY <1>6, <3>1, <3>2 DEF Merges
    <3>3. CASE call[t].kind \notin Merging
      <4>1. Fragmented(call[t], super[t], map)
        BY <1>6, <3>3 DEF Fragmented
      <4> QED BY <1>6, <3>1, <3>3, <4>1 DEF Merges
    <3> QED BY <3>2, <3>3
  <2>3. CASE SuperFragment(t)
    <3>1. pc[t] = "fragment" /\ pc'[t] = "enqueue" /\ call' = call /\ super'[t] = fragment
      BY <2>3 DEF SuperFragment, Goto, PropsInv, PropsTypes
    <3>2. call[t].kind \in Merging /\ Kept(fragment, map)
      BY <1>5, <3>1 DEF Merges, PropsInv
    <3>3. Fragmented(call[t], super'[t], map)
      BY <3>1, <3>2 DEF Fragmented
    <3> QED BY <1>6, <3>1, <3>3 DEF Merges
  <2> QED BY <2>1, <2>2, <2>3
<1> QED BY <1>1, <1>2, <1>3, <1>4, <1>7, CallMerges

\* The payload is put together of what the call has read.
LEMMA EnqueueMerges ==
    ASSUME PropsInv, NEW t \in Threads, Enqueue(t)
    PROVE  PropsInv'
<1>1. /\ pc[t] = "enqueue" /\ UNCHANGED <<map, fragment, super, maps>>
      /\ call' = [call EXCEPT ![t] = NoCall] /\ pc' = [pc EXCEPT ![t] = "idle"]
      /\ last' = last \/ last' = Entry(t)
  BY DEF Enqueue, Ended, Goto, shared
<1>2. PropsTypes'
  BY <1>1 DEF PropsInv, PropsTypes
<1>3. \A u \in Threads : u # t =>
        /\ pc'[u] = pc[u] /\ call'[u] = call[u] /\ super'[u] = super[u] /\ maps'[u] = maps[u]
  BY <1>1 DEF PropsInv, PropsTypes
<1>4. Merges(call[t], "enqueue", super[t], map, maps[t])
  BY <1>1 DEF PropsInv
<1>5. GoodPayloads'
  <2>1. CASE last' = last
    BY <2>1, SamePayloads DEF PropsInv
  <2>2. CASE last' = Entry(t)
    <3>1. SUFFICES ASSUME NEW e, e = last', e.call.kind # "metric", Intact(e.call.args)
                   PROVE  IsObject(e.payload) /\ ReadsLike(e)
      BY DEF GoodPayloads, IntactPayload, WithPayload, Entries, Intact
    <3>2. PICK m \in maps[t] : call[t] \in Call /\ Fragmented(call[t], super[t], m)
      BY <1>4 DEF Merges
    <3>3. e.call = call[t] /\ e.maps = maps[t] /\ e.payload = PayloadOf(call[t], super[t])
      BY <2>2, <3>1 DEF Entry
    <3> QED BY <3>1, <3>2, <3>3, PayloadReads DEF ReadsLike
  <2> QED BY <1>1, <2>1, <2>2
<1>6. pc'[t] = "idle"
  BY <1>1 DEF PropsInv, PropsTypes
<1> QED BY <1>1, <1>2, <1>3, <1>5, <1>6, CallMerges

LEMMA NextProps == PropsInv /\ [Next]_vars => PropsInv'
<1> SUFFICES ASSUME PropsInv, [Next]_vars PROVE PropsInv'
  OBVIOUS
<1>1. CASE UNCHANGED vars
  <2>1. GoodPayloads'
    BY <1>1, SamePayloads DEF vars, PropsInv
  <2> QED BY <1>1, <2>1 DEF vars, PropsInv, PropsTypes
<1>2. CASE \E t \in Threads : \/ \E c \in Call : Begin(t, c)
                              \/ ReadSessionId(t) \/ Validate(t) \/ SuperFragment(t) \/ Enqueue(t)
  BY <1>2, BeginMerges, ReadMerges, EnqueueMerges
<1>3. ASSUME NEW args \in Arguments, Register(args) PROVE PropsInv'
  BY <1>3, ChangeProps, RegisterKeeps DEF Register, PropsInv
<1>4. ASSUME NEW key \in DOMAIN map, Unregister(key) PROVE PropsInv'
  BY <1>4, ChangeProps, UnregisterKeeps DEF Unregister, PropsInv
<1>5. CASE ResetSession
  <2>1. Noticed /\ fragment' = fragment /\ map' = map
    BY <1>5 DEF ResetSession
  <2>2. Kept(fragment', map')
    BY <2>1 DEF PropsInv
  <2> QED BY <2>1, <2>2, ChangeProps
<1> QED BY <1>1, <1>2, <1>3, <1>4, <1>5 DEF Next

LEMMA PropsInvariance == Spec => []PropsInv
BY InitProps, NextProps, PTL DEF Spec

\* A payload put together from serialized pieces is one JSON object, whatever
\* is registered and whatever other calls bring, broken Props among it, if the
\* caller's own properties are an object, a value that is none, or nothing.
THEOREM PayloadsAreJson == Spec => []PayloadIsJson
<1>1. PropsInv => PayloadIsJson
  BY DEF PropsInv, GoodPayloads, PayloadIsJson
<1> QED BY <1>1, PropsInvariance, PTL

\* After any sequence of register and unregister, the fragment kept for
\* splicing has each key of the map once, with the value the map has for it.
THEOREM FragmentFollowsMap == Spec => []FragmentMatchesMap
<1>1. PropsInv => FragmentMatchesMap
  BY KeptReads DEF PropsInv, FragmentMatchesMap
<1> QED BY <1>1, PropsInvariance, PTL

\* Whatever other threads register and remove meanwhile, a payload reads like
\* one set of super properties that was in force during its call, with the
\* caller's own properties over them.
THEOREM PayloadsRead == Spec => []PayloadReadsAs
<1>1. PropsInv => PayloadReadsAs
  BY DEF PropsInv, GoodPayloads, ReadsLike, PayloadReadsAs
<1> QED BY <1>1, PropsInvariance, PTL
-----------------------------------------------------------------------------
(* Enqueue: types *)

LEMMA EnqueueTypeStep == EnqueueTypeOK /\ [EnqueueNext]_enqueueVars => EnqueueTypeOK'
<1> SUFFICES ASSUME EnqueueTypeOK, [EnqueueNext]_enqueueVars PROVE EnqueueTypeOK'
  OBVIOUS
<1> USE EnqueueAssumption DEF EnqueueTypeOK, Proceed
<1>1. CASE UNCHANGED enqueueVars
  BY <1>1 DEF enqueueVars
<1>2. ASSUME NEW t \in Senders, SendOk(t) PROVE EnqueueTypeOK'
  <2>1. length' \in 0..QueueCapacity /\ sends' \in 0..MaxSends
    BY <1>2 DEF SendOk, HasRoom
  <2> QED BY <1>2, <2>1 DEF SendOk
<1>3. ASSUME NEW t \in Senders, SendRefused(t) PROVE EnqueueTypeOK'
  BY <1>3 DEF SendRefused
<1>4. ASSUME NEW t \in Senders, LoadFlag(t) PROVE EnqueueTypeOK'
  BY <1>4 DEF LoadFlag, sendHistory
<1>5. ASSUME NEW t \in Senders, ClearFlag(t) PROVE EnqueueTypeOK'
  <2>1. queue_full' \in BOOLEAN
    BY <1>5 DEF ClearFlag
  <2> QED BY <1>5, <2>1 DEF ClearFlag, sendHistory
<1>6. ASSUME NEW t \in Senders, RecordDrop(t) PROVE EnqueueTypeOK'
  BY <1>6 DEF RecordDrop, sendHistory
<1>7. ASSUME NEW t \in Senders, PeekFlag(t) PROVE EnqueueTypeOK'
  BY <1>7 DEF PeekFlag, sendHistory
<1>8. ASSUME NEW t \in Senders, SwapFlag(t) PROVE EnqueueTypeOK'
  BY <1>8 DEF SwapFlag, sendHistory
<1>9. ASSUME NEW t \in Senders, Report(t) PROVE EnqueueTypeOK'
  BY <1>9 DEF Report, OwnCount, sendHistory
<1>10. CASE WorkerRecv
  BY <1>10 DEF WorkerRecv, sendHistory
<1>11. CASE WorkerGone
  <2>1. open' \in BOOLEAN
    BY <1>11 DEF WorkerGone
  <2> QED BY <1>11, <2>1 DEF WorkerGone, sendHistory
<1> QED
  BY <1>1, <1>2, <1>3, <1>4, <1>5, <1>6, <1>7, <1>8, <1>9, <1>10, <1>11 DEF EnqueueNext

LEMMA EnqueueTypeInit == EnqueueInit => EnqueueTypeOK
<1> SUFFICES ASSUME EnqueueInit PROVE EnqueueTypeOK
  OBVIOUS
<1>1. 0 \in 0..QueueCapacity /\ 0 \in 0..MaxSends
  BY EnqueueAssumption
<1>2. /\ open \in BOOLEAN /\ queue_full \in BOOLEAN
      /\ filling \in BOOLEAN /\ falseAlarm \in BOOLEAN
  BY DEF EnqueueInit
<1> QED BY <1>1, <1>2 DEF EnqueueInit, EnqueueTypeOK

\* The counters and flags of the client have their types, and the channel never
\* holds more than its capacity.
THEOREM EnqueueTypesHold == EnqueueSpec => []EnqueueTypeOK
<1> QED BY EnqueueTypeInit, EnqueueTypeStep, PTL DEF EnqueueSpec
-----------------------------------------------------------------------------
(* Reports *)

Counted == At({"peek", "swap", "report"})
Reporting == At({"report"})

Drops ==
    /\ reports \subseteq 1..dropped
    /\ \A t \in Counted : seen[t] \in 1..dropped /\ seen[t] \notin reports
    /\ \A t, u \in Counted : t # u => seen[t] # seen[u]

Tickets ==
    ReportsMade + Cardinality(Reporting) <= IF queue_full THEN clears + 1 ELSE clears

Alarms ==
    /\ queue_full => reports # {} \/ Reporting # {}
    /\ refused > 0 => reports # {} \/ At({"count", "peek", "swap", "report"}) # {}

LEMMA Finite ==
    ASSUME EnqueueTypeOK, Drops
    PROVE  /\ IsFiniteSet(Reporting) /\ Cardinality(Reporting) \in Nat
           /\ IsFiniteSet(reports) /\ ReportsMade \in Nat
<1>1. IsFiniteSet(Reporting)
  BY EnqueueAssumption, FS_Subset DEF Reporting, At
<1>2. IsFiniteSet(reports)
  <2>1. 0 \in Int /\ dropped \in Int
    BY DEF EnqueueTypeOK
  <2>2. IsFiniteSet(1..dropped)
    BY <2>1, FS_Interval
  <2> QED BY <2>2, FS_Subset DEF Drops
<1> QED BY <1>1, <1>2, FS_CardinalityType DEF ReportsMade

LEMMA DropsStep == EnqueueTypeOK /\ Drops /\ [EnqueueNext]_enqueueVars => Drops'
<1> SUFFICES ASSUME EnqueueTypeOK, Drops, [EnqueueNext]_enqueueVars PROVE Drops'
  OBVIOUS
<1>1. ASSUME UNCHANGED <<dropped, seen, reports>>, Counted' \subseteq Counted
      PROVE  Drops'
  BY <1>1 DEF Drops
<1>2. CASE UNCHANGED enqueueVars
  BY <1>1, <1>2 DEF enqueueVars, Counted, At
<1>3. ASSUME NEW t \in Senders, SendOk(t) \/ SendRefused(t) PROVE Drops'
  BY <1>1, <1>3 DEF SendOk, SendRefused, Proceed, Counted, At, EnqueueTypeOK
<1>4. ASSUME NEW t \in Senders, LoadFlag(t) \/ ClearFlag(t) PROVE Drops'
  BY <1>1, <1>4 DEF LoadFlag, ClearFlag, Proceed, Counted, At, EnqueueTypeOK
<1>5. ASSUME NEW t \in Senders, RecordDrop(t) PROVE Drops'
  <2>1. Counted' = Counted \cup {t} /\ t \notin Counted /\ reports' = reports
    BY <1>5 DEF RecordDrop, Proceed, Counted, At, EnqueueTypeOK
  <2>2. dropped' = dropped + 1 /\ dropped' \notin 1..dropped /\ 1..dropped \subseteq 1..dropped'
    BY <1>5 DEF RecordDrop, EnqueueTypeOK
  <2>3. seen'[t] = dropped' /\ \A u \in Counted : seen'[u] = seen[u]
    BY <1>5, <2>1 DEF RecordDrop, EnqueueTypeOK, Counted, At
  <2> QED BY <2>1, <2>2, <2>3 DEF Drops, EnqueueTypeOK
<1>6. ASSUME NEW t \in Senders, PeekFlag(t) \/ SwapFlag(t) PROVE Drops'
  BY <1>1, <1>6 DEF PeekFlag, SwapFlag, Proceed, Counted, At, EnqueueTypeOK
<1>7. ASSUME NEW t \in Senders, Report(t) PROVE Drops'
  <2>1. Counted' = Counted \ {t} /\ t \in Counted
    BY <1>7 DEF Report, Proceed, Counted, At, EnqueueTypeOK
  <2>2. reports' = reports \cup {seen[t]} /\ UNCHANGED <<seen, dropped>>
    BY <1>7 DEF Report, OwnCount
  <2> QED BY <2>1, <2>2 DEF Drops
<1>8. CASE WorkerRecv \/ WorkerGone
  BY <1>1, <1>8 DEF WorkerRecv, WorkerGone, Counted, At
<1> QED BY <1>2, <1>3, <1>4, <1>5, <1>6, <1>7, <1>8 DEF EnqueueNext

LEMMA TicketsStep == EnqueueTypeOK /\ Drops /\ Tickets /\ [EnqueueNext]_enqueueVars => Tickets'
<1> SUFFICES ASSUME EnqueueTypeOK, Drops, Tickets, [EnqueueNext]_enqueueVars PROVE Tickets'
  OBVIOUS
<1>1. /\ IsFiniteSet(Reporting) /\ Cardinality(Reporting) \in Nat
      /\ IsFiniteSet(reports) /\ ReportsMade \in Nat /\ clears \in Nat
  BY Finite DEF EnqueueTypeOK
<1>2. ASSUME UNCHANGED <<queue_full, reports, clears>>, Reporting' = Reporting
      PROVE  Tickets'
  BY <1>2 DEF Tickets, ReportsMade
<1>3. CASE UNCHANGED enqueueVars
  BY <1>2, <1>3 DEF enqueueVars, Reporting, At
<1>4. ASSUME NEW t \in Senders, SendOk(t) \/ SendRefused(t) PROVE Tickets'
  BY <1>2, <1>4 DEF SendOk, SendRefused, Proceed, Reporting, At, EnqueueTypeOK
<1>5. ASSUME NEW t \in Senders, LoadFlag(t) PROVE Tickets'
  BY <1>2, <1>5 DEF LoadFlag, Proceed, Reporting, At, EnqueueTypeOK
<1>6. ASSUME NEW t \in Senders, ClearFlag(t) PROVE Tickets'
  <2>1. Reporting' = Reporting /\ reports' = reports
    BY <1>6 DEF ClearFlag, Proceed, Reporting, At, EnqueueTypeOK
  <2>2. ~queue_full' /\ clears' = clears + 1
    BY <1>6 DEF ClearFlag
  <2> QED BY <1>1, <2>1, <2>2 DEF Tickets, ReportsMade
<1>7. ASSUME NEW t \in Senders, RecordDrop(t) \/ PeekFlag(t) PROVE Tickets'
  BY <1>2, <1>7 DEF RecordDrop, PeekFlag, Proceed, Reporting, At, EnqueueTypeOK
<1>8. ASSUME NEW t \in Senders, SwapFlag(t) PROVE Tickets'
  <2>1. queue_full' /\ UNCHANGED <<reports, clears>>
    BY <1>8 DEF SwapFlag
  <2>2. CASE queue_full
    <3>1. Reporting' = Reporting
      BY <1>8, <2>2 DEF SwapFlag, SwapWins, Proceed, Reporting, At, EnqueueTypeOK
    <3> QED BY <1>1, <2>1, <2>2, <3>1 DEF Tickets, ReportsMade
  <2>3. CASE ~queue_full
    <3>1. Reporting' = Reporting \cup {t} /\ t \notin Reporting
      BY <1>8, <2>3 DEF SwapFlag, SwapWins, Proceed, Reporting, At, EnqueueTypeOK
    <3>2. Cardinality(Reporting') = Cardinality(Reporting) + 1
      BY <1>1, <3>1, FS_AddElement
    <3> QED BY <1>1, <2>1, <2>3, <3>2 DEF Tickets, ReportsMade
  <2> QED BY <2>2, <2>3
<1>9. ASSUME NEW t \in Senders, Report(t) PROVE Tickets'
  <2>1. Reporting' = Reporting \ {t} /\ t \in Reporting /\ UNCHANGED <<queue_full, clears>>
    BY <1>9 DEF Report, Proceed, Reporting, At, EnqueueTypeOK
  <2>2. reports' = reports \cup {seen[t]} /\ seen[t] \notin reports
    BY <1>9 DEF Report, OwnCount, Drops, Counted, At
  <2>3. Cardinality(reports') = ReportsMade + 1
    BY <1>1, <2>2, FS_AddElement DEF ReportsMade
  <2>4. Cardinality(Reporting') = Cardinality(Reporting) - 1
    BY <1>1, <2>1, FS_RemoveElement
  <2> QED BY <1>1, <2>1, <2>3, <2>4 DEF Tickets, ReportsMade
<1>10. CASE WorkerRecv \/ WorkerGone
  BY <1>2, <1>10 DEF WorkerRecv, WorkerGone, Reporting, At
<1> QED BY <1>3, <1>4, <1>5, <1>6, <1>7, <1>8, <1>9, <1>10 DEF EnqueueNext

LEMMA AlarmsStep == EnqueueTypeOK /\ Alarms /\ [EnqueueNext]_enqueueVars => Alarms'
<1> SUFFICES ASSUME EnqueueTypeOK, Alarms, [EnqueueNext]_enqueueVars PROVE Alarms'
  OBVIOUS
<1> DEFINE Refused == At({"count", "peek", "swap", "report"})
<1>1. ASSUME UNCHANGED <<queue_full, refused, reports>>,
             Reporting' = Reporting, Refused' = Refused
      PROVE  Alarms'
  BY <1>1 DEF Alarms
<1>2. CASE UNCHANGED enqueueVars
  BY <1>1, <1>2 DEF enqueueVars, Reporting, At
<1>3. ASSUME NEW t \in Senders, SendOk(t) PROVE Alarms'
  BY <1>1, <1>3 DEF SendOk, Proceed, Reporting, At, EnqueueTypeOK
<1>4. ASSUME NEW t \in Senders, SendRefused(t) PROVE Alarms'
  <2>1. t \in Refused' /\ Reporting' = Reporting /\ UNCHANGED <<queue_full, reports>>
    BY <1>4 DEF SendRefused, Proceed, Reporting, At, EnqueueTypeOK
  <2> QED BY <2>1 DEF Alarms
<1>5. ASSUME NEW t \in Senders, LoadFlag(t) PROVE Alarms'
  BY <1>1, <1>5 DEF LoadFlag, sendHistory, Proceed, Reporting, At, EnqueueTypeOK
<1>6. ASSUME NEW t \in Senders, ClearFlag(t) PROVE Alarms'
  <2>1. ~queue_full' /\ Refused' = Refused /\ UNCHANGED <<refused, reports>>
    BY <1>6 DEF ClearFlag, sendHistory, Proceed, At, EnqueueTypeOK
  <2> QED BY <2>1 DEF Alarms
<1>7. ASSUME NEW t \in Senders, RecordDrop(t) PROVE Alarms'
  BY <1>1, <1>7 DEF RecordDrop, sendHistory, Proceed, Reporting, At, EnqueueTypeOK
<1>8. ASSUME NEW t \in Senders, PeekFlag(t) PROVE Alarms'
  <2>1. UNCHANGED <<queue_full, refused, reports>> /\ Reporting' = Reporting
    BY <1>8 DEF PeekFlag, sendHistory, Proceed, Reporting, At, EnqueueTypeOK
  <2>2. CASE queue_full
    <3>1. reports' # {} \/ Reporting' # {}
      BY <2>1, <2>2 DEF Alarms
    <3>2. Reporting' \subseteq Refused'
      BY DEF Reporting, At
    <3> QED BY <3>1, <3>2 DEF Alarms
  <2>3. CASE ~queue_full
    <3>1. Refused' = Refused
      BY <1>8, <2>3 DEF PeekFlag, Proceed, At, EnqueueTypeOK
    <3> QED BY <2>1, <3>1 DEF Alarms
  <2> QED BY <2>2, <2>3
<1>9. ASSUME NEW t \in Senders, SwapFlag(t) PROVE Alarms'
  <2>1. Reporting' \subseteq Refused'
    BY DEF Reporting, At
  <2>2. UNCHANGED reports
    BY <1>9 DEF SwapFlag
  <2>3. CASE queue_full
    <3>1. Reporting' = Reporting
      BY <1>9, <2>3 DEF SwapFlag, SwapWins, Proceed, Reporting, At, EnqueueTypeOK
    <3> QED BY <2>1, <2>2, <2>3, <3>1 DEF Alarms
  <2>4. CASE ~queue_full
    <3>1. t \in Reporting'
      BY <1>9, <2>4 DEF SwapFlag, SwapWins, Proceed, Reporting, At, EnqueueTypeOK
    <3> QED BY <2>1, <3>1 DEF Alarms
  <2> QED BY <2>3, <2>4
<1>10. ASSUME NEW t \in Senders, Report(t) PROVE Alarms'
  BY <1>10 DEF Report, Alarms
<1>11. CASE WorkerRecv \/ WorkerGone
  BY <1>1, <1>11 DEF WorkerRecv, WorkerGone, sendHistory, Reporting, At
<1> QED BY <1>2, <1>3, <1>4, <1>5, <1>6, <1>7, <1>8, <1>9, <1>10, <1>11 DEF EnqueueNext
-----------------------------------------------------------------------------
(* Theorems about Enqueue *)

EnqueueInv == EnqueueTypeOK /\ Drops /\ Tickets /\ Alarms

LEMMA EnqueueInitInv == EnqueueInit => EnqueueInv
<1> SUFFICES ASSUME EnqueueInit PROVE EnqueueInv
  OBVIOUS
<1>1. EnqueueTypeOK
  BY EnqueueTypeInit
<1>2. Counted = {} /\ Reporting = {} /\ reports = {}
  BY DEF EnqueueInit, Counted, Reporting, At
<1>3. Drops
  BY <1>2 DEF Drops
<1>4. Tickets
  BY <1>2, FS_EmptySet DEF EnqueueInit, Tickets, ReportsMade
<1>5. Alarms
  BY DEF EnqueueInit, Alarms
<1> QED BY <1>1, <1>3, <1>4, <1>5 DEF EnqueueInv

LEMMA EnqueueInvariance == EnqueueSpec => []EnqueueInv
<1>1. EnqueueInv /\ [EnqueueNext]_enqueueVars => EnqueueInv'
  BY EnqueueTypeStep, DropsStep, TicketsStep, AlarmsStep DEF EnqueueInv
<1> QED BY <1>1, EnqueueInitInv, PTL DEF EnqueueSpec

\* However many threads find the queue full at once, there is one report for
\* each time queue_full was set, and each carries a count of its own.
THEOREM ReportsNeverPileUp == EnqueueSpec => []OneReportPerSet
<1>1. EnqueueInv => OneReportPerSet
  <2> SUFFICES ASSUME EnqueueInv PROVE OneReportPerSet
    OBVIOUS
  <2>1. ReportsMade + Cardinality(Reporting) <= clears + 1
    BY Finite DEF EnqueueInv, Tickets, EnqueueTypeOK
  <2>2. Reporting \subseteq Counted
    BY DEF Reporting, Counted, At
  <2> QED BY <2>1, <2>2 DEF OneReportPerSet, EnqueueInv, Drops, Reporting
<1> QED BY <1>1, EnqueueInvariance, PTL

\* A queue that has refused a message has been reported by the time nobody is
\* inside enqueue, whichever thread saw or set queue_full first.
THEOREM RefusalsAreReported == EnqueueSpec => []FullIsReported
<1>1. EnqueueInv => FullIsReported
  BY DEF EnqueueInv, Alarms, FullIsReported, Quiet, At
<1> QED BY <1>1, EnqueueInvariance, PTL
=============================================================================
