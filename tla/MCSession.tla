------------------------------ MODULE MCSession ------------------------------
(* Session instantiated for TLC. *)
EXTENDS Session

CONSTANTS opening, load, purge, k1, k2

\* The only load_and_purge and its purge.
MCPurgeOf == [u \in {load} |-> purge]

=============================================================================
