---------------------------- MODULE MCLibraryInit ----------------------------
(* Instances of LibraryInit for TLC.                                        *)
EXTENDS LibraryInit

CONSTANTS t1, t2
=============================================================================
