------------------------------ MODULE Conversions ------------------------------
(***************************************************************************)
(* The conversions of data, each on its own: what is sent to a board       *)
(* (ConfBits) and what comes from it (TimeStamps).                         *)
(***************************************************************************)
EXTENDS ConfBits, TimeStamps

VARIABLE task  \* which of the two runs

vars == <<task, confvars, timevars>>

Init == task \in {"configure", "decode"} /\ ConfInit /\ TimeInit

Configure == task = "configure" /\ ConfNext /\ UNCHANGED <<task, timevars>>
Decode == task = "decode" /\ TimeNext /\ UNCHANGED <<task, confvars>>

Next == Configure \/ Decode

Spec == Init /\ [][Next]_vars

\* The lengths of the two registers, for the runs.
Lengths == [r \in Registers |-> IF r = "SCR" THEN 6 ELSE 3]
=============================================================================
