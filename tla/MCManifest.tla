----------------------------- MODULE MCManifest -----------------------------
(* Instance of Manifest for TLC.                                           *)
EXTENDS Manifest
=============================================================================
