----------------------------- MODULE MCRunScan -----------------------------
(***************************************************************************)
(* RunScan for TLC: four rows of the real table, one of each protocol_min  *)
(* and of four different ratings, and every server that can be made of     *)
(* them and of the versions MCVersions.  Of SSLv3 and TLS 1.0, which can   *)
(* use nearly the same suites, a server has at most one.                   *)
(***************************************************************************)
EXTENDS RunScan, CommandLine

CONSTANTS MCVersions,   \* the versions a server may enable
          MCModes       \* the scopes asked for at once, with --scan or a legacy flag

MCTable == <<Tls13Suites[1], Tls12AeadSuites[3], Sha1Suites[1], TripleDesSuites[1]>>

MCServers ==
  [versions : {v \in SUBSET MCVersions : ~({"Ssl3", "Tls10"} \subseteq v)},
   suites : SUBSET Members(MCTable), ordered : BOOLEAN, names : {{"host", "alias"}}]

Host == <<Part("host")>>

(* The command lines: every scope, with and without --sni, and odd targets. *)
Raw(schemes, parts) == [schemes |-> schemes, parts |-> parts]

CommandLines(mode, schemes, parts, port, sni_name) ==
  [scan : ScanScope \cap (mode \cup {"All"}), flags : {mode},
   target : {Raw(schemes, parts)}, port : {port}, sni : {sni_name}]

MCOptions ==
  {OptionsOf(cli) : cli \in
     UNION {CommandLines(m, <<"https">>, Host, {}, name) : <<m, name>> \in MCModes \X {{}, {"alias"}}}
       \cup CommandLines({"Protocols", "Ciphers"}, <<"https", "http">>, Host \o <<PortPart(8443)>>, {}, {})
       \cup CommandLines({"Protocols", "Ciphers"}, <<>>, Host \o <<Part("word")>>, {8443}, {})
       \cup CommandLines({}, <<>>, Host \o <<Part("word")>>, {}, {})
       \cup CommandLines({}, <<>>, <<Part("["), Part(""), PortPart(1)>>, {}, {})
       \cup CommandLines({}, <<"http", "https">>, Host, {}, {})}
=============================================================================
