--------------------------------- MODULE Dns ---------------------------------
(***************************************************************************)
(* modules/dns: the DNS servers of the network adapters.  The DNS page     *)
(* (ui/pages/dns.py) writes them from a job, the daemon's cleanup thread   *)
(* takes a closed service off them; they are two processes that share only *)
(* the registry.                                                           *)
(*                                                                         *)
(* A call to SetInterfaceDnsSettings is one step and may fail.  Reading a  *)
(* list is one step, too.  DoH is set by the same call as the servers.     *)
(***************************************************************************)
EXTENDS Naturals, Sequences, SequencesExt, Places

CONSTANTS
    Adapters,
    Info,        \* what Windows says of an adapter: the attributes that decide if it is listed
    AdapterOrder,\* the order of the listing
    Retired,     \* RETIRED_SERVERS
    Providers,   \* for each name of the drop-down its servers of each family
    Custom,      \* the servers a user types
    Ipv6,        \* load_state found IPv6
    Found        \* the servers set at the start

(* Of the servers offered none is retired. *)
ASSUME DnsAssumption ==
    /\ "__all__" \notin Adapters /\ AdapterOrder \in Seq(Adapters) /\ Ipv6 \in BOOLEAN
    /\ Found \in [Adapters -> [{"IPv4", "IPv6"} -> Seq(STRING)]]
    /\ Custom \in Seq(STRING) /\ Providers \in [DOMAIN Providers -> [{"IPv4", "IPv6"} -> Seq(STRING)]]
    /\ \A p \in DOMAIN Providers, f \in {"IPv4", "IPv6"} :
          \A i \in DOMAIN Providers[p][f] : Providers[p][f][i] \notin Retired

VARIABLES
    ns,          \* the registry: NameServer of each adapter and family
    page,        \* the DNS page: what is selected, and what it shows as applied
    dnsJob,      \* its background job
    cleanup      \* clean_adapters: what is left to look at and what it has read

dnsVars == <<ns, page, dnsJob, cleanup>>
Families == {"IPv4", "IPv6"}
All == "__all__"
Automatic == "__auto__"
Typed == "__custom__"

(* Virtual adapters, those of VPNs and debuggers are left alone.           *)
SupportedAdapter(a) ==
    /\ ~Info[a].excluded
    /\ \/ Info[a].pnp = "physical"
       \/ Info[a].pnp = "other" /\ Info[a].ordinary
RegistryAdapter(a) == ~Info[a].excluded /\ ~Info[a].fragment

(* WMI first; if it fails the registry; if it names none the native list.  *)
RegistryConnections == {a \in Adapters : Info[a].connection}
NativeAdapters == {a \in Adapters : ~Info[a].excluded /\ Info[a].ordinary}
Listing(source) ==
    CASE source = "wmi" -> {a \in RegistryConnections : SupportedAdapter(a)}
      [] source = "native" /\ RegistryConnections # {} -> {a \in RegistryConnections : RegistryAdapter(a)}
      [] source = "native" /\ RegistryConnections = {} -> NativeAdapters
Sources == {"wmi", "native"}
Ordered(nics) == Picked(AdapterOrder, {i \in DOMAIN AdapterOrder : AdapterOrder[i] \in nics})

(* The first of equal ones. *)
Normalized(servers) ==
    Picked(servers, {i \in DOMAIN servers : \A k \in 1 .. i - 1 : servers[k] # servers[i]})
First(n, s) == SubSeq(s, 1, IF Len(s) < n THEN Len(s) ELSE n)
FirstTwo(servers) == First(2, servers)
(* resolve_apply_adapters: one that is gone is replaced by the first.      *)
Targets(selected, nics) ==
    CASE selected = All -> Ordered(nics)
      [] selected \in nics -> <<selected>>
      [] selected \notin nics \cup {All} -> First(1, Ordered(nics))

SetServers(a, f, servers) == ns' = [ns EXCEPT ![a][f] = Normalized(servers)]

(* The writes of apply_auto, apply_custom and apply_provider, in order.    *)
BothFamilies == <<"IPv4", "IPv6">>
Slots(nics, families) ==
    LET n == Len(families) IN
    [i \in 1 .. Len(nics) * n |-> <<nics[((i - 1) \div n) + 1], families[((i - 1) % n) + 1]>>]
DnsWrites(slots, servers) ==
    [i \in DOMAIN slots |-> [adapter |-> slots[i][1], family |-> slots[i][2], servers |-> servers[slots[i][2]]]]

AutoWrites(nics) == DnsWrites(Slots(nics, BothFamilies), [f \in Families |-> <<>>])
CustomWrites(nics) == DnsWrites(Slots(nics, <<"IPv4">>), [f \in Families |-> FirstTwo(Custom)])
ProviderWrites(nics, p) ==
    LET set == {i \in DOMAIN BothFamilies :
                  LET f == BothFamilies[i] IN Providers[p][f] # <<>> /\ (f = "IPv6" => Ipv6)}
    IN  DnsWrites(Slots(nics, Picked(BothFamilies, set)), [f \in Families |-> FirstTwo(Providers[p][f])])
Writes(choice, nics) ==
    CASE choice = Automatic -> AutoWrites(nics)
      [] choice = Typed -> CustomWrites(nics)
      [] OTHER -> ProviderWrites(nics, choice)

Selections == {Automatic, Typed} \cup DOMAIN Providers
Snapshot == <<page.adapter, page.choice>>
NoJob == [kind |-> "none", of |-> <<>>, targets |-> <<>>, writes |-> <<>>, failed |-> {}]
NothingApplied == <<>>
-----------------------------------------------------------------------------
(* The page.  Only its buttons are disabled while a job runs. *)

OnAdapterChange(a) ==
    /\ page' = [page EXCEPT !.adapter = a, !.applied = NothingApplied]
    /\ UNCHANGED <<ns, dnsJob, cleanup>>

OnDnsChoiceChange(c) ==
    /\ page' = [page EXCEPT !.choice = c]
    /\ UNCHANGED <<ns, dnsJob, cleanup>>

ApplyDns(source) ==
    LET nics == Targets(page.adapter, Listing(source)) IN
    /\ dnsJob.kind = "none" /\ page.applied # Snapshot
    /\ dnsJob' = [kind |-> "apply", of |-> Snapshot, targets |-> nics,
               writes |-> Writes(page.choice, nics), failed |-> {}]
    /\ UNCHANGED <<ns, page, cleanup>>

ResetDns(source) ==
    LET nics == Targets(page.adapter, Listing(source)) IN
    /\ dnsJob.kind = "none"
    /\ dnsJob' = [kind |-> "reset", of |-> <<page.adapter, Automatic>>, targets |-> nics,
               writes |-> AutoWrites(nics), failed |-> {}]
    /\ UNCHANGED <<ns, page, cleanup>>

WriteServers(ok) ==
    LET w == Head(dnsJob.writes) IN
    /\ dnsJob.writes # <<>>
    /\ IF ok THEN SetServers(w.adapter, w.family, w.servers) ELSE ns' = ns
    /\ dnsJob' = [dnsJob EXCEPT !.writes = Tail(@), !.failed = IF ok THEN @ ELSE @ \cup {w.adapter}]
    /\ UNCHANGED <<page, cleanup>>

(* One adapter without an error is a success. *)
Succeeded == \E i \in DOMAIN dnsJob.targets : dnsJob.targets[i] \notin dnsJob.failed
ShownChoice == IF dnsJob.kind = "reset" THEN Automatic ELSE page.choice
JobDone ==
    /\ dnsJob.kind # "none" /\ dnsJob.writes = <<>>
    /\ dnsJob' = NoJob
    /\ page' = IF ~Succeeded THEN page
               ELSE [page EXCEPT !.choice = ShownChoice, !.applied = <<page.adapter, ShownChoice>>]
    /\ UNCHANGED <<ns, cleanup>>
-----------------------------------------------------------------------------
(* clean_adapters *)

(* Deviation: only a list that begins with a retired server is changed. *)
KeptFirst(servers) == IF servers # <<>> /\ servers[1] \in Retired THEN Tail(servers) ELSE servers

Kept(servers) == Picked(servers, {i \in DOMAIN servers : servers[i] \notin Retired})

BeginCleanup(source) ==
    /\ cleanup.todo = "no"
    /\ cleanup' = [cleanup EXCEPT !.todo = "run", !.left = Slots(Ordered(Listing(source)), BothFamilies)]
    /\ UNCHANGED <<ns, page, dnsJob>>

ReadServers ==
    LET slot == Head(cleanup.left)
        current == ns[slot[1]][slot[2]]
    IN  /\ cleanup.todo = "run" /\ cleanup.left # <<>>
        /\ cleanup' = IF Len(Kept(current)) = Len(current)
                      THEN [cleanup EXCEPT !.left = Tail(@), !.clean = @ \cup {slot}]
                      ELSE [cleanup EXCEPT !.todo = "write", !.read = current]
        /\ UNCHANGED <<ns, page, dnsJob>>

WriteKept(ok) ==
    LET slot == Head(cleanup.left) IN
    /\ cleanup.todo = "write"
    /\ IF ok THEN SetServers(slot[1], slot[2], FirstTwo(Kept(cleanup.read))) ELSE ns' = ns
    /\ cleanup' = [cleanup EXCEPT !.todo = "run", !.left = Tail(@), !.read = <<>>,
                                  !.clean = IF ok THEN @ \cup {slot} ELSE @]
    /\ UNCHANGED <<page, dnsJob>>

DnsInit ==
    /\ ns = Found
    /\ page = [adapter |-> All, choice |-> Automatic, applied |-> NothingApplied]
    /\ dnsJob = NoJob
    /\ cleanup = [todo |-> "no", left |-> <<>>, read |-> <<>>, clean |-> {}]

DnsNext ==
    \/ \E a \in Adapters \cup {All} : OnAdapterChange(a)
    \/ \E c \in Selections : OnDnsChoiceChange(c)
    \/ \E source \in Sources : ApplyDns(source) \/ ResetDns(source) \/ BeginCleanup(source)
    \/ \E ok \in BOOLEAN : WriteServers(ok) \/ WriteKept(ok)
    \/ JobDone \/ ReadServers

DnsSpec == DnsInit /\ [][DnsNext]_dnsVars
-----------------------------------------------------------------------------
(* A retired server never comes back: what the cleanup has looked at holds *)
(* none, whatever the page writes between its reading and its writing, and *)
(* adapters that are not listed keep what they have.                       *)
RetiredGone ==
    /\ \A slot \in cleanup.clean : \A r \in Retired : ~Contains(ns[slot[1]][slot[2]], r)
    /\ \A a \in Adapters : Info[a].excluded => ns[a] = Found[a]

=============================================================================
