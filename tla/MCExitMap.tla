----------------------------- MODULE MCExitMap -----------------------------
(* The instances of VendorLoader, for ExitMap.                             *)
EXTENDS ExitMap, MCVendorLoader
=============================================================================
