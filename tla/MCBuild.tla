------------------------------ MODULE MCBuild ------------------------------
(* A build of one of the projects of Projects.tla. *)
EXTENDS BuildInv, Projects, TreeSearch
=============================================================================
