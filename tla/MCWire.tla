------------------------------- MODULE MCWire -------------------------------
(***************************************************************************)
(* The wire format for TLC: sets of numbers, UID mappings, patterns of     *)
(* mailbox names and the framing of commands, one at a time.               *)
(***************************************************************************)
EXTENDS NumSet, UIDMapping, ListMatch, Framing

CONSTANT Topics \* which of them

VARIABLE topic

setVars == <<set, ref>>

mappingVars == <<mapping, pairs>>

matchVars == <<name, delim, reference, pattern>>

ByteDelims == {<<>>, <<"/">>, <<"/", "a">>}

SomeReferences == {<<>>, <<"a">>, <<"a", "/">>}

Lit(sync, size) == [sync |-> sync, size |-> size]

Plain == [literals |-> <<>>, append |-> FALSE, tail |-> FALSE]

(* Up to two literals; a first one of two is small. *)
SomeShapes ==
    {Plain}
    \cup {[literals |-> ls, append |-> a, tail |-> t] : a, t \in BOOLEAN,
        ls \in {<<Lit(s, z)>> : s \in BOOLEAN, z \in Sizes}
            \cup {<<Lit(s, "small"), Lit(r, z)>> : s, r \in BOOLEAN, z \in {"small", "medium"}}}

Init ==
    /\ topic \in Topics
    /\ InitSet /\ InitMapping /\ InitMatch /\ InitFraming
    /\ topic # "match" => delim = <<>> /\ reference = <<>>
    /\ topic # "framing" => shape = [c \in 1..MaxCommands |-> Plain]

Next ==
    /\ \/ topic = "set" /\ NextSet /\ UNCHANGED <<mappingVars, matchVars, framingVars>>
       \/ topic = "mapping" /\ NextMapping /\ UNCHANGED <<setVars, matchVars, framingVars>>
       \/ topic = "match" /\ NextMatch /\ UNCHANGED <<setVars, mappingVars, framingVars>>
       \/ topic = "framing" /\ NextFraming /\ UNCHANGED <<setVars, mappingVars, matchVars>>
    /\ UNCHANGED topic

Spec == Init /\ [][Next]_<<topic, setVars, mappingVars, matchVars, framingVars>>
=============================================================================
