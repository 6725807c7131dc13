----------------------------- MODULE MCVkUpdates ----------------------------
(***************************************************************************)
(* Small instances of VkUpdates for TLC.                                   *)
(***************************************************************************)
EXTENDS VkUpdates

CONSTANTS anna, boris

(* Two dialogues whose updates alternate, and an update of none. *)
TwoDialogues == <<anna, boris, anna, NoPeer>>

(* A busy dialogue, and another that starts in its midst. *)
BusyDialogue == <<anna, anna, boris, anna>>
=============================================================================
