-------------------------- MODULE MCVmmLifecycle --------------------------
(* VmmLifecycle with the modes of the command line.                        *)
EXTENDS VmmLifecycle

AllModes == {"real", "paging", "linux"}
GuestModes == {"real", "paging"}
=============================================================================
