----------------------------- MODULE MCConsole ------------------------------
(* Small instances of Console for TLC.                                       *)
EXTENDS Console

MCLoads == {"login", "sso", "settings"}
MCDocuments == {AdminPolicy}
=============================================================================
