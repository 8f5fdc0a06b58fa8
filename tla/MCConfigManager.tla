--------------------------- MODULE MCConfigManager ----------------------------
(***************************************************************************)
(* Two valid configurations and a broken one, and two goroutines.          *)
(***************************************************************************)
EXTENDS ConfigManager, TLC

CONSTANTS c1, c2, plain, fancy, broken

MCCallers  == {c1, c2}
MCContents == {plain, fancy, broken}
MCValid    == {plain, fancy}

=============================================================================
