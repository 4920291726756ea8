----------------------------- MODULE MCVpnRekey -----------------------------
(* Instances of VpnRekey for TLC; the bounds are in the configurations.    *)
EXTENDS VpnRekey
=============================================================================
