------------------------------ MODULE MCSystem ------------------------------
(***************************************************************************)
(* Small instances of the modules about what 2Wings keeps on the machine   *)
(* and runs from it: the strategies, the engine's files, its own installer,*)
(* the DNS settings, the hosts file, and the launcher of the engine, with  *)
(* two callers, two strategies and two process ids (an engine and its      *)
(* successor, or an orphan and a new one).  They share nothing; one run    *)
(* takes each in turn, the strategies twice: with releases and the ipset   *)
(* list, and with one release and both filters.                            *)
(***************************************************************************)
EXTENDS Engine, StrategyStore, EngineFiles, AppUpdate, Dns, Hosts, TLC

CONSTANTS gui, daemon

VARIABLE component

MCNameRank == 9 :> 2 @@ 10 :> 1

\* A network card, a VPN that is left alone and a card without connection.
MCInfo == [a \in Adapters |->
    [excluded |-> a = "vpn", fragment |-> FALSE, connection |-> TRUE,
     pnp |-> IF a = "usb" THEN "physical" ELSE "other", ordinary |-> a # "vpn"]]
MCOrder == <<"lan", "vpn">>
MCProviders == [p \in {"both"} |-> [f \in Families |-> IF f = "IPv4" THEN <<"s1", "s2">> ELSE <<"s6">>]]
MCFound == [a \in Adapters |-> [f \in Families |->
    CASE a = "lan" -> <<"u1", "r1", "u2", "u3">>
      [] a = "vpn" -> <<"r1">>
      [] OTHER -> <<>>]]
MCCustom == <<"u1", "u1">>

MCHostsFound == <<Line("user", "own"), Blank>>
MCDefault == <<Blank>>

keptVars == <<svars, fileVars, updateVars, dnsVars, hostsVars>>

SystemVars == <<vars, keptVars, component>>

SystemInit ==
    /\ Init /\ StoreInit /\ FilesInit /\ UpdateInit /\ DnsInit /\ HostsInit
    /\ component \in {"store", "filters", "files", "update", "dns", "hosts", "engine"}
    /\ component = "filters" => active = 9
    /\ component \notin {"store", "filters"} => active = None
    /\ component # "store" => latest = 9
    /\ component # "engine" => Alive = {} /\ mon.pc = "off"

SystemNext ==
    /\ component' = component
    /\ \/ /\ component \in {"store", "filters"} /\ StoreNext
          /\ IF component = "store" THEN UNCHANGED <<game, flag>> ELSE UNCHANGED net
          /\ UNCHANGED <<vars, fileVars, updateVars, dnsVars, hostsVars>>
       \/ component = "files" /\ FilesNext /\ UNCHANGED <<vars, svars, updateVars, dnsVars, hostsVars>>
       \/ component = "update" /\ UpdateNext /\ UNCHANGED <<vars, svars, fileVars, dnsVars, hostsVars>>
       \/ component = "dns" /\ DnsNext /\ UNCHANGED <<vars, svars, fileVars, updateVars, hostsVars>>
       \/ component = "hosts" /\ HostsNext /\ UNCHANGED <<vars, svars, fileVars, updateVars, dnsVars>>
       \/ component = "engine" /\ Next /\ UNCHANGED keptVars

SystemSpec == SystemInit /\ [][SystemNext]_SystemVars
=============================================================================
