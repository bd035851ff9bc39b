-------------------------- MODULE PrinterDirectory --------------------------
(***************************************************************************)
(* What the printer profiles of a node promise: every name stands for at   *)
(* most one address, an edit on the console binds or frees one name and    *)
(* leaves the others alone, and only a configuration of the control plane  *)
(* replaces the whole directory.                                           *)
(***************************************************************************)
EXTENDS Naturals

CONSTANTS
    Name,     \* names, without regard to case and to blanks around them
    Address,
    Nowhere   \* where a name without a printer leads

VARIABLES
    leads,      \* of every name: the address
    edit,       \* the last one of this generation, with its name and address
    generation  \* of the configuration from the control plane

vars == <<leads, edit, generation>>

Init ==
    /\ leads \in [Name -> Address \cup {Nowhere}]
    /\ edit = << >>
    /\ generation = 0

\* A name is bound, or freed; to edit one that leads nowhere may change nothing.
Edit(n, a) ==
    /\ leads' = [leads EXCEPT ![n] = a]
    /\ edit' = <<n, a>>
    /\ UNCHANGED generation

\* Also when a restart goes back to what the control plane had sent.
Replace ==
    /\ leads' \in [Name -> Address \cup {Nowhere}]
    /\ edit' = << >>
    /\ generation' > generation

Next ==
    \/ \E n \in Name, a \in Address \cup {Nowhere} : Edit(n, a)
    \/ Replace

Spec == Init /\ [][Next]_vars
=============================================================================
