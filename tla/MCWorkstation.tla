---------------------------- MODULE MCWorkstation ----------------------------
(***************************************************************************)
(* Two processes and two key names.  With Kubo on the path, every command  *)
(* but the forced reinstallation; without it, setups that install Kubo, on *)
(* one configuration.                                                      *)
(***************************************************************************)
EXTENDS Workstation

MCOneTopic ==
  /\ \A p \in Procs :
       IF kubo.onPath
       THEN Cmd(p).op = "setup" => ~Cmd(p).force
       ELSE Cmd(p).op = "none" \/ (Cmd(p).op = "setup" /\ Cmd(p).create \in {"", SetupKey})
  /\ kubo.onPath \/ ( /\ file.network = "injective-mainnet" /\ Load.evm_rpc = file.network
                     /\ DOMAIN index[""] \subseteq {SetupKey})
=============================================================================
