------------------------------- MODULE MCServer -------------------------------
(* Model checking of Server: two sessions are enough for one task to end   *)
(* by itself and another to be aborted, two downloads over a limit of one  *)
(* for a refusal.  The environments differ from one that uses every part   *)
(* in a single setting; only that one meets failures and connections.      *)
EXTENDS Server

PublicUrl(host) ==
  [scheme |-> "https", host |-> host, port |-> "none", rest |-> ""]

FullEnvironment ==
  [s \in Settings |->
     CASE s = "max_connections" -> 2
       [] s \in Stores -> "path"
       [] s \in Flags -> TRUE
       [] OTHER -> Unset]

Values(s) ==
  CASE s = "history_store_scan_limit" -> {0, MaxScan, MaxScan + 1}
    [] s \in Numbers                  -> {0, 2, MaxPermits + 1}
    [] s \in Stores                   -> {Unset, "empty"}
    [] s \in Flags                    -> {FALSE}
    [] s = "websocket_path"           -> {"relative"}
    [] s = "asset_listen_addr"        -> {"loopback", "other"}
    [] s = "asset_public_base_url"    -> {PublicUrl("name"), PublicUrl("unspecified")}
    [] OTHER                          -> {}

MCEnvironments ==
  {FullEnvironment} \cup
  UNION {{[FullEnvironment EXCEPT ![s] = v] : v \in Values(s) \cup {Malformed}} :
           s \in Settings}

\* Configurations other than the full one differ in how they start.
DeviationsOnlyStart ==
  config \in {None, Overridden(FullEnvironment)} \/
    (failures = 0 /\ backlog = <<>> /\ Cardinality(sessions) < 2)
=============================================================================
