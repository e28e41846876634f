------------------------------- MODULE MCWatcher ------------------------------
(* Model-checking instances of Watcher: the constants are in the .cfg files. *)
EXTENDS Watcher
=============================================================================
