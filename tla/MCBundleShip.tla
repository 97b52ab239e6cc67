---------------------------- MODULE MCBundleShip ----------------------------
(* A small instance of BundleShip: two bundles that differ in configuration  *)
(* and entries.                                                              *)
EXTENDS BundleShip

SomePack == {[cfg |-> "c1", root |-> "r1"], [cfg |-> "c2", root |-> "r2"]}
=============================================================================
