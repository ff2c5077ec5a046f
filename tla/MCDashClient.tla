---------------------------- MODULE MCDashClient ----------------------------
(* Small instances of DashClient: the cloud and one to four edge servers;   *)
(* the configurations differ in what the environment may do.                *)
EXTENDS DashClient
=============================================================================
