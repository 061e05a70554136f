---------------------------- MODULE MCSdkWorker -----------------------------
(* Small instances of SdkWorker.  The events that can be serialised are    *)
(* interchangeable: only the order in which they arrive is ever compared.  *)
EXTENDS SdkWorker, TLC

Symmetric == Permutations(Events \ Poison)
=============================================================================
