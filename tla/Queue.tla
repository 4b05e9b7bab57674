------------------------------- MODULE Queue -------------------------------
(***************************************************************************)
(* What a group of consumers promises the publishers of a topic: from the  *)
(* moment the group exists its entries are given out in order, an entry is *)
(* settled only after some handler handled it, unless none wants it, and   *)
(* an entry that is settled is never handled again.  An entry may be       *)
(* handled several times before: at least once, not exactly once.          *)
(***************************************************************************)
EXTENDS Naturals, Sequences

CONSTANTS Kinds,        \* what entries are to the handlers
          Wanted        \* those among them that have a handler

VARIABLES entries,      \* their kinds, in the order they were added in
          open,         \* does the group exist?
          given,        \* how many entries were given out, the skipped ones included
          settled,      \* entries the group is through with
          handled       \* entries that some handler handled

vars == <<entries, open, given, settled, handled>>

Init ==
  /\ entries = <<>>
  /\ open = FALSE
  /\ given = 0
  /\ settled = {}
  /\ handled = {}

Publish ==
  /\ \E kind \in Kinds : entries' = Append(entries, kind)
  /\ UNCHANGED <<open, given, settled, handled>>

\* The entries that are already there are none of the group's business.
Open ==
  /\ ~open
  /\ open' = TRUE
  /\ given' = Len(entries)
  /\ settled' = 1..Len(entries)
  /\ UNCHANGED <<entries, handled>>

\* One consumer is given the next entries.
Give ==
  /\ open
  /\ \E n \in (given + 1)..Len(entries) : given' = n
  /\ UNCHANGED <<entries, open, settled, handled>>

Outstanding == (1..given) \ settled

\* A handler is through with an outstanding entry, for the first time or again.
Handle ==
  /\ \E i \in Outstanding : entries[i] \in Wanted /\ handled' = handled \cup {i}
  /\ UNCHANGED <<entries, open, given, settled>>

Settle ==
  /\ \E i \in Outstanding :
       /\ entries[i] \in Wanted => i \in handled
       /\ settled' = settled \cup {i}
  /\ UNCHANGED <<entries, open, given, handled>>

Next == Publish \/ Open \/ Give \/ Handle \/ Settle

Spec == Init /\ [][Next]_vars

=============================================================================
