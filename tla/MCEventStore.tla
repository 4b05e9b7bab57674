----------------------------- MODULE MCEventStore -----------------------------
(* Values of EventStore's constants for TLC. *)
EXTENDS EventStore

CONSTANTS c1, c2, c3

\* BOUND: three attempts on the event loop, where three commands need no more, and no
\* retry strategy where other commands come between the steps of an append.
ThreeTries == [s \in Stores |-> IF s = "loop" THEN 3 ELSE 1]

\* BOUND: no retry strategy.
OneTry == [s \in Stores |-> 1]

\* Every class has the version that a class has if nothing is said of it.
FirstVersions == [c \in Commands |-> {1}]

\* With an interval of 2, two commands that capture snapshots: one of them up to version
\* 2 and the other up to the end of the stream.
TwoCapture == [c \in Commands |-> CASE c = c1 -> {1} [] c = c2 -> {2} [] OTHER -> {4}]

=============================================================================
