------------------------------ MODULE MCBridge ------------------------------
(* Small programs for EVBridge: two bridges to one peer.                   *)
EXTENDS EVBridge, TLC

CONSTANTS a1, a2

Base == [usage |-> {}, calls |-> 0, mortal |-> FALSE, blocks |-> FALSE, open |-> FALSE]

(* The peer dies while the stones connect, send and are drained.           *)
Dying == [Base EXCEPT !.usage = {"drain"}, !.calls = 1, !.mortal = TRUE]

(* It dies while writes are pending; the application has a reference.      *)
DyingBlocked == [Base EXCEPT !.mortal = TRUE, !.blocks = TRUE, !.open = TRUE]

(* The application closes the connection it shares with the stones.        *)
Sharing ==
  [Base EXCEPT !.usage = {"share", "unshare"}, !.calls = 2, !.blocks = TRUE]

(* Stones are frozen, drained and emptied.                                 *)
Stopping ==
  [Base EXCEPT !.usage = {"freeze", "unfreeze", "drain"}, !.calls = 2, !.blocks = TRUE]

Emptying ==
  [Base EXCEPT !.usage = {"freeze", "unfreeze", "transfer"}, !.calls = 2, !.blocks = TRUE]

AllPrograms == {Dying, DyingBlocked, Sharing, Stopping, Emptying}
=============================================================================
