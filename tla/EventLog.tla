------------------------------ MODULE EventLog ------------------------------
(***************************************************************************)
(* What an event stream promises the aggregates that live in it: a log in  *)
(* which the n-th event has version n.  Where appends exclude each other   *)
(* it only grows, one event at a time, and each event was decided by an    *)
(* aggregate whose state was exactly the events before it: none is decided *)
(* on a stale state, none is overwritten, none is skipped.  Where they do  *)
(* not, an event may be decided on another state of n - 1 events, and may  *)
(* take the place of one of its version; the log still has no gap, and     *)
(* never gets shorter.                                                     *)
(***************************************************************************)
EXTENDS Naturals, Sequences

CONSTANT Commands       \* the commands that make aggregates raise events

VARIABLES log,
          exclusive     \* do appends exclude each other? never changes

Version == Nat \ {0}

\* An event as a stream keeps it: its version, the command that raised it and
\* the state (the commands applied so far) the command decided it on.
Event == [version : Version, command : Commands, basis : Seq(Commands)]

\* The state of an aggregate rehydrated from the first n events of s.
History(s, n) == [i \in 1..n |-> s[i].command]

Init == log = <<>> /\ exclusive \in BOOLEAN

Record(c) ==
  /\ log' = Append(log, [version |-> Len(log) + 1,
                         command |-> c,
                         basis   |-> History(log, Len(log))])
  /\ UNCHANGED exclusive

\* Some append that nothing kept from another: it adds the next event, or takes
\* the place of one event.
Race(c) ==
  /\ ~exclusive
  /\ log' \in Seq(Event)
  /\ \E n \in 1..(Len(log) + 1) :
       /\ Len(log') = IF n <= Len(log) THEN Len(log) ELSE n
       /\ \A m \in 1..Len(log') : m # n => log'[m] = log[m]
       /\ log'[n].version = n
       /\ log'[n].command = c
       /\ Len(log'[n].basis) = n - 1
  /\ UNCHANGED exclusive

Next == \E c \in Commands : Record(c) \/ Race(c)

Spec == Init /\ [][Next]_<<log, exclusive>>

=============================================================================
