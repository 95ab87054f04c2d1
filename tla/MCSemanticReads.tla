-------------------------- MODULE MCSemanticReads --------------------------
(* Instances of SemanticReads for TLC.                                        *)
EXTENDS SemanticReads

\* Every operation of the read tools.
AllOperations == DOMAIN Plans
\* get_interfaces without an interface to single out.
InterfacesOnly == {"interfaces"}
=============================================================================
