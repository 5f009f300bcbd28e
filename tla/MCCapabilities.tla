-------------------------- MODULE MCCapabilities --------------------------
(* Instances of Capabilities for TLC.                                      *)
EXTENDS Capabilities

CONSTANTS a1, a2, a3

MCAddresses == {a1, a2, a3}
MCObjects == MCAddresses \cup {Static, Buffer}
\* No idiom, each idiom alone, and many at once.
MCLibraries ==
    {{}} \cup {{i} : i \in AllIdioms} \cup {AllIdioms \ {"attach"}}
MCSymmetry == Permutations(MCAddresses)
=============================================================================
