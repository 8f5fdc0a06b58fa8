---------------------------- MODULE MCHerdrClient -----------------------------
(***************************************************************************)
(* Two calls that share one slot, a subscription, and Close, called again  *)
(* and again.                                                              *)
(***************************************************************************)
EXTENDS HerdrClient, TLC

CONSTANTS snapshot, rename, stream, quit

MCCallers == {snapshot, rename}
MCStreams == {stream}
MCClosers == {quit}
MCImpatient == {rename}

=============================================================================
