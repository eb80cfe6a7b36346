------------------------------- MODULE MCCalls -------------------------------
(***************************************************************************)
(* Values for the constants of Calls: properties that are absent, empty,   *)
(* no object, of a key of their own, of a key the method writes too, and   *)
(* cut off at the only value or at the first of two.                       *)
(* Calls only read what they share, so one calling thread beside every     *)
(* order of three changes meets all that a second caller could.            *)
(***************************************************************************)
EXTENDS Calls

CONSTANTS t1

OneThread == {t1}
SomeArguments == {<<>>, NotAnObject, Serialize(<<>>), Serialize(<< <<"plan", 1>> >>),
                  Serialize(<< <<"user_id", 2>>, <<"plan", 2>> >>),
                  Serialize(<<CutOff>>), Serialize(<<CutOff, <<"plan", 3>> >>)}

\* Events of up to two fields: texts and numbers, a message or not, and the
\* same name twice.
AField(name, as, value) == [name |-> name, as |-> as, value |-> value]
SomeFields(value) ==
    {AField("message", "debug", value), AField("message", "number", value),
     AField("plan", "str", value), AField("count", "number", value)}
SomeEvents ==
    {<<>>} \cup {<<f>> : f \in SomeFields(11)}
    \cup {<<f, g>> : f \in SomeFields(11), g \in SomeFields(12)}
=============================================================================
