------------------------------- MODULE Fw2k -------------------------------
(***************************************************************************)
(* The Windows 2000 firewall, src/src/fw2k.c.  A machine has one of two    *)
(* methods.  The packet filter ("pf") blocks the listed ports on each      *)
(* network address the program has bound it to, while the program runs.    *)
(* TCP/IP filtering ("tcpip") lets in the listed TCP ports only; it is     *)
(* written to the registry and is in force from the next boot on.          *)
(*                                                                         *)
(* The list and the switch are in three places: the program's memory, its  *)
(* registry key, and the filter itself.  An operation changes the first    *)
(* and then, in steps the program can be ended between, the other two.     *)
(* The signature of the address table is the set of addresses it is        *)
(* computed from.                                                          *)
(***************************************************************************)
EXTENDS Integers, Sequences, FiniteSets

CONSTANTS
  Tcp, Udp,     \* rules: TCP ports and UDP ports
  Block,        \* the rules of k_block
  MaxPorts,     \* FW2K_MAXPORTS
  Addrs,        \* network addresses, numbered in the table's order
  MaxIf,        \* FW2K_MAXIF
  TickEvery,    \* timer ticks between two looks at the addresses, 10 in the code
  Ifaces,       \* subkeys of Tcpip\Parameters\Interfaces
  MaxOps,       \* bound: operations on the firewall's page
  MaxMoves,     \* bound: changes of the machine's addresses
  MaxFaults     \* bound: times the address table cannot be read

ASSUME FwAssumption ==
  /\ Block \subseteq Tcp \cup Udp /\ IsFiniteSet(Tcp \cup Udp) /\ Cardinality(Block) <= MaxPorts
  /\ Addrs \subseteq Int /\ MaxPorts \in Nat /\ MaxIf \in Nat /\ TickEvery \in Nat \ {0}
  /\ MaxOps \in Nat /\ MaxMoves \in Nat /\ MaxFaults \in Nat

Rules == Tcp \cup Udp

VARIABLES
  method,           \* g_method, a fact about the machine
  up,               \* the program is "down", "up", or "leaving": uninstalled
  todo,             \* steps the operation in progress has left
  enabled, ports,   \* g_enabled, g_ports
  regEn, regPorts,  \* the values Enabled and Ports: {} when absent
  addrs,            \* the machine's addresses
  bound, filter,    \* addresses in g_if, and the rules bound to them
  sig, tick, err,   \* g_addrsig, g_tick, g_err # 0
  flag, lists,      \* EnableSecurityFilters, TCPAllowedPorts ({}: permit all)
  live,             \* flag and lists as they were at the boot
  reboot,           \* g_reboot
  slips,            \* what has gone wrong and not been made good (history)
  ops, moves, faults

config == <<enabled, ports>>
saved == <<regEn, regPorts>>
pf == <<bound, filter, sig, tick>>
tcpip == <<flag, lists, reboot>>
world == <<method, addrs, live, moves, ops>>
vars == <<method, up, todo, enabled, ports, regEn, regPorts, addrs, bound, filter, sig, tick,
          err, flag, lists, live, reboot, slips, ops, moves, faults>>

\* What an operation may have left to do, from any of its steps on.
Plans ==
  IF method = "pf"
  THEN {<<>>, <<"bind">>, <<"Ports">>, <<"Ports", "bind">>, <<"Enabled", "Ports">>,
        <<"Enabled", "Ports", "bind">>, <<"bind", "Enabled", "Ports">>}
  ELSE {<<>>, <<"lists">>, <<"flag", "lists">>, <<"Ports">>, <<"Ports", "flag", "lists">>,
        <<"Enabled", "Ports">>, <<"Enabled", "Ports", "flag", "lists">>,
        <<"lists", "Enabled", "Ports">>, <<"flag", "lists", "Enabled", "Ports">>}
PortLists == {p \in SUBSET Rules : Cardinality(p) <= MaxPorts}

TypeOK ==
  /\ method \in {"pf", "tcpip"} /\ up \in {"down", "up", "leaving"}
  /\ todo \in Plans /\ (up = "up" \/ (up = "leaving" /\ method = "tcpip") \/ todo = <<>>)
  /\ enabled \in BOOLEAN /\ ports \in PortLists
  /\ regEn \in {{}, {TRUE}, {FALSE}} /\ regPorts \in {{}} \cup {{p} : p \in PortLists}
  /\ addrs \subseteq Addrs /\ bound \subseteq Addrs /\ filter \subseteq Rules /\ sig \subseteq Addrs
  /\ tick \in 0..TickEvery - 1 /\ err \in BOOLEAN /\ reboot \in BOOLEAN /\ flag \in BOOLEAN
  /\ lists \in [Ifaces -> SUBSET SUBSET Rules]
  /\ slips \subseteq {"save", "write", "cut", "restart"}
  /\ ops \in 0..MaxOps /\ moves \in 0..MaxMoves /\ faults \in 0..MaxFaults

Init ==
  /\ method \in {"pf", "tcpip"} /\ up = "down" /\ todo = <<>>
  /\ enabled = FALSE /\ ports = {} /\ regEn = {} /\ regPorts = {}
  /\ addrs \in SUBSET Addrs /\ bound = {} /\ filter = {}
  /\ sig = {} /\ tick = 0 /\ err = FALSE
  /\ flag = FALSE /\ lists = [i \in Ifaces |-> {}] /\ live = <<flag, lists>>
  /\ reboot = FALSE /\ slips = {} /\ ops = 0 /\ moves = 0 /\ faults = 0

\* fw2k_defaults: the packet filter lists what it blocks, TCP/IP filtering
\* what it allows.
Defaults == IF method = "pf" THEN Block ELSE {}

\* What load_config would read now.
LoadedEnabled == IF regEn = {} THEN method = "pf" ELSE TRUE \in regEn
LoadedPorts == IF regPorts = {} THEN Defaults ELSE UNION regPorts

\* apply and save_config as steps.
Apply == IF method = "pf" THEN <<"bind">> ELSE <<"flag", "lists">>
Save == <<"Enabled", "Ports">>

\* The addresses get_addrs has room for.
Seen == {a \in addrs : Cardinality({b \in addrs : b < a}) < MaxIf}

\* What tcpip_write gives every interface.
Allowed == IF enabled THEN {ports \cap Tcp} ELSE {}

At(step) == todo # <<>> /\ Head(todo) = step
Idle == up = "up" /\ todo = <<>>

-----------------------------------------------------------------------------
\* load_config, then the packet filter is bound; TCP/IP filtering is in force
\* already.
Start ==
  /\ up = "down" /\ up' = "up"
  /\ enabled' = LoadedEnabled /\ ports' = LoadedPorts
  /\ todo' = IF method = "pf" THEN <<"bind">> ELSE <<>>
  /\ sig' = {} /\ tick' = 0 /\ err' = FALSE /\ reboot' = FALSE
  /\ slips' = (slips \ {"save"}) \cup (IF "save" \in slips THEN {"cut"} ELSE {})
                                 \cup (IF live # <<flag, lists>> THEN {"restart"} ELSE {})
  /\ UNCHANGED <<saved, bound, filter, flag, lists, faults, world>>

Operation(steps) ==
  /\ Idle /\ ops < MaxOps
  /\ todo' = steps /\ ops' = ops + 1
  /\ UNCHANGED <<method, up, saved, addrs, live, moves, pf, err, tcpip, slips, faults>>

\* The page's first button.
SetEnabled ==
  /\ Operation(Apply \o Save)
  /\ enabled' = ~enabled /\ UNCHANGED ports

AddPort ==
  /\ Cardinality(ports) < MaxPorts
  /\ Operation(Save \o Apply)
  /\ \E r \in Rules \ ports : ports' = ports \cup {r}
  /\ UNCHANGED enabled

RemovePort ==
  /\ Operation(Save \o Apply)
  /\ \E r \in ports : ports' = ports \ {r}
  /\ UNCHANGED enabled

RestoreDefaults ==
  /\ Operation(Save \o Apply)
  /\ ports' = Defaults /\ UNCHANGED enabled

\* save_config: a key that cannot be opened leaves both values as they were,
\* and nobody is told.
SaveEnabled ==
  /\ At("Enabled")
  /\ \/ regEn' = {enabled} /\ todo' = Tail(todo) /\ UNCHANGED slips
     \/ todo' = Tail(Tail(todo)) /\ slips' = slips \cup {"save"} /\ UNCHANGED regEn
  /\ UNCHANGED <<up, config, regPorts, pf, err, tcpip, faults, world>>

\* Variant: a list without a port is not saved.
SavePortsListed ==
  /\ At("Ports")
  /\ regPorts' = IF ports = {} THEN regPorts ELSE {ports}
  /\ todo' = Tail(todo) /\ slips' = slips \ {"save"}
  /\ UNCHANGED <<up, config, regEn, pf, err, tcpip, faults, world>>

SavePorts ==
  /\ At("Ports")
  /\ regPorts' = {ports} /\ todo' = Tail(todo) /\ slips' = slips \ {"save"}
  /\ UNCHANGED <<up, config, regEn, pf, err, tcpip, faults, world>>

\* Variant: an address that fails is passed over and not noted.
RebindQuietly ==
  /\ sig' = Seen /\ UNCHANGED faults
  /\ IF enabled /\ ports # {} THEN bound' \in SUBSET sig' ELSE bound' = {}
  /\ err' = FALSE /\ filter' = ports

\* pf_apply: all is taken down, then each address is bound, or fails.
Rebind ==
  /\ \/ sig' = Seen /\ UNCHANGED faults
     \/ faults < MaxFaults /\ faults' = faults + 1 /\ sig' = {}
  /\ IF enabled /\ ports # {}
     THEN /\ bound' \in SUBSET sig'
          /\ err' = (bound' # sig')
     ELSE bound' = {} /\ err' = FALSE
  /\ filter' = ports

Bind ==
  /\ At("bind")
  /\ Rebind /\ todo' = Tail(todo)
  /\ UNCHANGED <<up, config, saved, tick, tcpip, slips, world>>

\* tcpip_write up to the list of interfaces.
WriteFlag ==
  /\ At("flag")
  /\ \/ flag' = enabled /\ todo' = Tail(todo) /\ err' = FALSE /\ UNCHANGED slips
     \/ todo' = Tail(Tail(todo)) /\ err' = TRUE /\ slips' = slips \cup {"write"} /\ UNCHANGED flag
  /\ UNCHANGED <<up, config, saved, pf, lists, reboot, faults, world>>

\* Variant: no restart is asked for.
WriteListsLive ==
  /\ At("lists") /\ todo' = Tail(todo)
  /\ lists' = [i \in Ifaces |-> Allowed]
  /\ slips' = slips \ {"restart", "write", "cut"}
  /\ UNCHANGED <<up, config, saved, pf, flag, reboot, err, faults, world>>

\* An interface whose key cannot be opened is passed over.
WriteLists ==
  /\ At("lists") /\ todo' = Tail(todo)
  /\ \/ \E W \in SUBSET Ifaces :
          /\ lists' = [i \in Ifaces |-> IF i \in W THEN Allowed ELSE lists[i]]
          /\ slips' = (slips \ (IF W = Ifaces THEN {"restart", "write", "cut"} ELSE {"restart"}))
                        \cup (IF W = Ifaces THEN {} ELSE {"write"})
          /\ reboot' = TRUE /\ UNCHANGED err
     \/ err' = TRUE /\ slips' = slips \cup {"write"} /\ UNCHANGED <<lists, reboot>>
  /\ UNCHANGED <<up, config, saved, pf, flag, faults, world>>

\* Between two looks the timer only counts.
TickCount ==
  /\ Idle /\ method = "pf" /\ enabled /\ tick + 1 < TickEvery
  /\ tick' = tick + 1
  /\ UNCHANGED <<up, todo, config, saved, bound, filter, sig, err, tcpip, slips, faults, world>>

\* Variant: only an address that is new counts, not one that has gone.
TickLookOnce ==
  /\ Idle /\ method = "pf" /\ enabled /\ tick + 1 >= TickEvery
  /\ tick' = 0
  /\ IF sig = {} THEN Rebind ELSE UNCHANGED <<bound, filter, sig, err, faults>>
  /\ UNCHANGED <<up, todo, config, saved, tcpip, slips, world>>

\* Every tenth tick the addresses are compared with those last bound.
TickLook ==
  /\ Idle /\ method = "pf" /\ enabled /\ tick + 1 >= TickEvery
  /\ tick' = 0
  /\ IF Seen # sig THEN Rebind ELSE UNCHANGED <<bound, filter, sig, err, faults>>
  /\ UNCHANGED <<up, todo, config, saved, tcpip, slips, world>>

\* The look when the table cannot be read: its signature is that of no address.
TickBlind ==
  /\ Idle /\ method = "pf" /\ enabled /\ tick + 1 >= TickEvery /\ faults < MaxFaults
  /\ tick' = 0
  /\ IF sig # {} THEN Rebind ELSE faults' = faults + 1 /\ UNCHANGED <<bound, filter, sig, err>>
  /\ UNCHANGED <<up, todo, config, saved, tcpip, slips, world>>

-----------------------------------------------------------------------------
Ended == bound' = {} /\ todo' = <<>>

\* fw2k_stop, in WM_DESTROY.
Stop ==
  /\ Idle /\ up' = "down" /\ Ended
  /\ UNCHANGED <<config, saved, filter, sig, tick, err, tcpip, slips, faults, world>>

\* The program is ended from outside, and the system takes its filters down.
Crash ==
  /\ up = "up" /\ up' = "down" /\ Ended
  /\ slips' = IF todo = <<>> THEN slips ELSE slips \cup {"cut"}
  /\ UNCHANGED <<config, saved, filter, sig, tick, err, tcpip, faults, world>>

\* fw2k_restore_permit_all in the process the uninstaller starts; the
\* uninstaller then deletes the program's key.
Uninstall ==
  /\ up = "down" /\ up' = "leaving"
  /\ enabled' = FALSE /\ regEn' = {} /\ regPorts' = {}
  /\ todo' = IF method = "tcpip" THEN Apply ELSE <<>>
  /\ UNCHANGED <<ports, pf, err, tcpip, slips, faults, world>>

\* Windows starts: TCP/IP filtering is in force as the registry has it.
Boot ==
  /\ up # "up" /\ todo = <<>>
  /\ live' = <<flag, lists>> /\ slips' = slips \ {"restart"}
  /\ UNCHANGED <<method, up, todo, config, saved, addrs, pf, err, tcpip, ops, moves, faults>>

\* The machine gets or loses an address.
Move ==
  /\ moves < MaxMoves /\ moves' = moves + 1
  /\ \E a \in Addrs : addrs' = IF a \in addrs THEN addrs \ {a} ELSE addrs \cup {a}
  /\ UNCHANGED <<method, up, todo, config, saved, pf, err, tcpip, live, slips, ops, faults>>

Page == SetEnabled \/ AddPort \/ RemovePort \/ RestoreDefaults
Step == SaveEnabled \/ SavePorts \/ Bind \/ WriteFlag \/ WriteLists
Tick == TickCount \/ TickLook \/ TickBlind

Next == Start \/ Page \/ Step \/ Tick \/ Stop \/ Crash \/ Uninstall \/ Boot \/ Move

\* The window's thread goes on with what it is doing, and its timer fires.
Spec == Init /\ [][Next]_vars /\ WF_vars(Step) /\ WF_vars(Tick)

-----------------------------------------------------------------------------

\* Between operations, what filters is what the page lists.  What is bound carries
\* the listed rules, and each address last seen is bound or an error has been kept.
\* TCP/IP filtering in the registry is the list, unless a key could not be opened, or
\* the program was ended in mid-operation or unsaved: neither is made good by
\* starting again, only by the next operation on the page.
FiltersAsListed ==
  Idle =>
    /\ bound # {} => enabled /\ filter = ports
    /\ method = "pf" /\ enabled /\ ports # {} => bound = sig \/ err
    /\ method = "tcpip" /\ slips \cap {"write", "cut"} = {} =>
         flag = enabled /\ \A i \in Ifaces : lists[i] = IF enabled THEN {ports \cap Tcp} ELSE {}

\* Wherever the program is ended, what the next start loads differs from what
\* it had in memory by the one choice being made at most, and not at all
\* between operations, unless the key could not be written.
OneChoiceBehind ==
  up = "up" /\ "save" \notin slips =>
    /\ LoadedEnabled = enabled \/ LoadedPorts = ports
    /\ todo = <<>> => LoadedEnabled = enabled /\ LoadedPorts = ports

\* When the page shows TCP/IP filtering on and asks for no restart, it is in
\* force; unless the program was started again since the change: g_reboot does
\* not outlive it.
OnIsInForce ==
  Idle /\ method = "tcpip" /\ enabled /\ ~reboot /\ slips = {} =>
    live = <<TRUE, [i \in Ifaces |-> {ports \cap Tcp}]>>

\* The strengthening that makes these inductive.  Whatever of an operation is no longer
\* to come has been done: the filter is bound to the list, TCP/IP filtering is the
\* list, the switch and the list are saved, each with the failures that excuse it; and
\* while the program is down, what it will load is what TCP/IP filtering was written for.
ToCome == {todo[n] : n \in DOMAIN todo}
BoundAsListed ==
  /\ bound # {} => method = "pf" /\ up = "up"
  /\ up = "up" /\ "bind" \notin ToCome =>
       /\ bound # {} => enabled /\ filter = ports
       /\ method = "pf" /\ enabled /\ ports # {} => bound = sig \/ err
WrittenAsListed ==
  method = "tcpip" =>
    /\ up = "up" /\ "flag" \notin ToCome =>
         \/ flag = enabled
         \/ "lists" \notin ToCome /\ slips \cap {"write", "cut"} # {}
    /\ up = "up" /\ "lists" \notin ToCome /\ slips \cap {"write", "cut"} = {} =>
         \A i \in Ifaces : lists[i] = Allowed
    /\ up = "down" /\ slips \cap {"write", "cut", "save"} = {} =>
         /\ flag = LoadedEnabled
         /\ \A i \in Ifaces : lists[i] = IF LoadedEnabled THEN {LoadedPorts \cap Tcp} ELSE {}
SavedInTurn ==
  /\ up = "up" /\ "Ports" \in ToCome /\ "Enabled" \notin ToCome => regEn = {enabled}
  /\ up = "up" /\ "save" \notin slips =>
       /\ LoadedEnabled = enabled \/ LoadedPorts = ports
       /\ "Enabled" \notin ToCome => LoadedEnabled = enabled
       /\ "Ports" \notin ToCome => LoadedPorts = ports
InForceAsWritten ==
  /\ up = "up" /\ ~reboot /\ slips \cap {"restart", "write", "cut"} = {}
  /\ "lists" \in ToCome => "flag" \in ToCome
  => live = <<flag, lists>>
IndInv == TypeOK /\ BoundAsListed /\ WrittenAsListed /\ SavedInTurn /\ InForceAsWritten

\* An address the machine has is bound, or lost again, or an error is shown,
\* as long as the firewall stays on: fw2k_tick notices.
NewAddressIsBound ==
  \A a \in Addrs :
    (Idle /\ method = "pf" /\ enabled /\ ports # {} /\ a \in Seen)
      ~> (a \in bound \/ a \notin Seen \/ err \/ up # "up" \/ ~enabled \/ ports = {})
=============================================================================
