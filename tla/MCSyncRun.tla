----------------------------- MODULE MCSyncRun -----------------------------
(***************************************************************************)
(* Instance of SyncRun for TLC: runs on "a" with the targets "b" and "c",  *)
(* with RunSize of MCPeerSync.  Both entries of "a" are too large for one  *)
(* push or one response, so a target that holds them cannot be pulled      *)
(* from any more.                                                          *)
(***************************************************************************)
EXTENDS SyncRun, MCPeerSync
=============================================================================
