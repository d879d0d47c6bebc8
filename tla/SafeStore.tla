------------------------------ MODULE SafeStore -----------------------------
(***************************************************************************)
(* What triple redundancy promises to the code that uses it: a set of      *)
(* values that change only between the scrub that opens a turn and the     *)
(* commit that closes it, or with a restart of the processor.              *)
(***************************************************************************)

CONSTANTS
  Region,                 \* the variables in the store
  Value,                  \* Value[r]: what r may hold
  Initial                 \* what they hold after a restart

VARIABLES
  value,                  \* what the store holds
  open                    \* a turn is under way

Holds(f) ==
  /\ f = [r \in Region |-> f[r]]
  /\ \A r \in Region : f[r] \in Value[r]

Init == value = Initial /\ open = FALSE

Open  == ~open /\ open' = TRUE /\ UNCHANGED value
Write == open /\ Holds(value') /\ UNCHANGED open
Close == open /\ open' = FALSE /\ UNCHANGED value

Restart == value' = Initial /\ open' = FALSE

Next == Open \/ Write \/ Close \/ Restart

Spec == Init /\ [][Next]_<<value, open>>
=============================================================================
