-------------------------- MODULE MCCloudProvisioning --------------------------
(* Small instances of the provisioning queue and the managed data plane.   *)
EXTENDS ManagedDataPlane
===============================================================================
