------------------------------ MODULE MCRunner -------------------------------
(***************************************************************************)
(* Small instances of Runner.  Intervals of one and two units are enough   *)
(* for a timer to be reset half-way, to fire while the loop is busy, and   *)
(* to be retimed; the debounce is a unit or none, and each interval may    *)
(* change without the other.                                               *)
(***************************************************************************)
EXTENDS Runner

MCConfigurations == {[poll |-> 1, debounce |-> 1],
                     [poll |-> 2, debounce |-> 1],
                     [poll |-> 2, debounce |-> 0]}

=============================================================================
