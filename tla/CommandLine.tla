---------------------------- MODULE CommandLine ----------------------------
(***************************************************************************)
(* The command line (main.rs), as far as it decides what is scanned: a     *)
(* record with target, port, sni, the scope given to --scan, and flags,    *)
(* the scopes asked for by the legacy flags --protocols-only and so on.    *)
(***************************************************************************)

ScanScope == {"All", "Protocols", "Ciphers", "Cert"}

(* A legacy flag adds to --scan and does not override it. *)
Asked(cli, scope) == scope \in cli.flags \cup {cli.scan}

(* The ScanOptions that main passes to run_scan. *)
OptionsOf(cli) ==
  [target         |-> cli.target,
   port_override  |-> cli.port,
   sni_override   |-> cli.sni,
   protocols_only |-> Asked(cli, "Protocols"),
   ciphers_only   |-> Asked(cli, "Ciphers"),
   cert_only      |-> Asked(cli, "Cert")]
=============================================================================
