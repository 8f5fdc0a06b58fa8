----------------------------- MODULE MCRendering ------------------------------
(***************************************************************************)
(* Every text of up to four graphemes that are not indicators, and of five *)
(* that start and end with a space; indicators where a missing value may   *)
(* stand between them, and where a text is cut next to them or in a row of *)
(* them.                                                                   *)
(***************************************************************************)
EXTENDS Rendering

MCGraphemes == {"letter", "wide", "space", "control", "missing"}

MCRows == UNION {[1..n -> Lone] : n \in 2..5}

MCTexts ==
    UNION {[1..n -> MCGraphemes] : n \in 0..4}
        \cup {<<"space">> \o t \o <<"space">> : t \in [1..3 -> MCGraphemes]}
        \cup {Segmented(t) : t \in [1..3 -> Lone \cup {"letter", "missing"}]}
        \cup {Segmented(<<"wide", "wide", "wide">> \o t) : t \in MCRows}

=============================================================================
