------------------------------ MODULE MCDispatch ------------------------------
(* The calls of Dispatch for TLC: main handles an event with two handlers, the    *)
(* first of them sends a command, and the command's handler handles an event.     *)
EXTENDS Dispatch

CONSTANTS first, second, commanded, last

MCHandlersOf ==
  [c \in Callers |-> CASE c = Main      -> <<first, second>>
                       [] c = first     -> <<commanded>>
                       [] c = commanded -> <<last>>
                       [] OTHER         -> <<>>]

=============================================================================
