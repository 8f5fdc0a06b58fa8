----------------------------- MODULE LabelStore ------------------------------
(***************************************************************************)
(* What the session's label store promises its users                       *)
(* (src/internal/state/store.go): every Update applies its mutation to the *)
(* table the previous one left, whichever process made it, and takes       *)
(* effect at one instant.  A loss of power may take the table back, but    *)
(* only to one it had since it was last flushed, never to half of one.  A  *)
(* table that cannot be read is never replaced.                            *)
(***************************************************************************)
CONSTANTS
    Tables,     \* the tables a state file may hold
    NoEntries,  \* the empty table
    Mutations,  \* what callers of Update may ask for
    Unreadable, \* stands for a table that cannot be read
    Mutate      \* Mutate[m][t]: the table that mutation m makes of t

VARIABLES
    table,     \* the session's tab labels
    unflushed  \* the tables a loss of power may bring back

Init ==
    /\ table \in {NoEntries, Unreadable}
    /\ unflushed = {table}

Update(m) ==
    /\ table # Unreadable
    /\ table' = Mutate[m][table]
    /\ unflushed' = unflushed \cup {table'}

Flush ==
    /\ unflushed' = {table}
    /\ UNCHANGED table

PowerLoss ==
    /\ table' \in unflushed
    /\ unflushed' = {table'}

Next == Flush \/ PowerLoss \/ \E m \in Mutations : Update(m)

Spec == Init /\ [][Next]_<<table, unflushed>>

=============================================================================
