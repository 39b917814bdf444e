--------------------------- MODULE UdePortsProofs ---------------------------
(***************************************************************************)
(* Proofs about the ports and the references of UdePorts, for any set of   *)
(* clients and any number of ports.                                        *)
(***************************************************************************)
EXTENDS UdePorts, FiniteSetTheorems, TLAPS

\* The ports in use, and what else was counted: the plug-ins that failed, and the
\* devices that were given no port.
UsedPorts == {p \in Port : vusbs[p] \in Client}
Portless == {c \in Client : life[c] = "failed" \/ (life[c] = "live" /\ port[c] = -1)}

\* The types, but for the bounds of n_used_ports, which follow from the count.
PortTypes ==
  /\ vusbs \in [Slot -> Client \cup {NoClient, Creating}]
  /\ n_used_ports \in Int
  /\ svusb \in [Client -> Slot]
  /\ life \in [Client -> {"none", "live", "deleted", "failed"}]
  /\ invalid \in [Client -> BOOLEAN]
  /\ refcnt \in [Client -> Nat]
  /\ port \in [Client -> Slot]
  /\ read \in [Client -> Client \cup {NoClient}]
  /\ cancelled \subseteq Client
  /\ work \in [Client -> Nat] /\ lost \in [Client -> Nat]
  /\ cancels \in 0 .. MaxCancels

CallbackTypes ==
  /\ hc \in {"idle", "creating", "io", "plugout", "invalid", "shutdown"}
  /\ hc_client \in Client \cup {NoClient}
  /\ hc_vusb \in Client \cup {NoClient} /\ hc_shut \in Client \cup {NoClient}
  /\ hc_port \in Slot
  /\ hc_todo \subseteq Port
  /\ pool \in {"intact", "overwritten", "stopped"}

\* The callback that runs holds what its step says, and nothing else.
CallbackHolds ==
  /\ hc # "creating" => hc_port = -1
  /\ hc \in {"io", "creating"} => hc_client \in Client
  /\ hc_vusb # NoClient <=> hc \in {"io", "invalid"}
  /\ hc_shut # NoClient => hc \in {"plugout", "invalid", "shutdown"}
  /\ hc = "shutdown" => hc_shut # NoClient

\* plugin_vusb has the port and its client to itself until it leaves.
PlugInOwns ==
  hc = "creating" =>
    life[hc_client] = "none" /\ vusbs[hc_port] = Creating /\ n_used_ports < NMax

\* A device that was plugged out had a port, and what is in front of the table exists.
Placed ==
  /\ \A v \in Client : invalid[v] => port[v] \in Port /\ life[v] # "none"
  /\ \A v \in Client : vusbs[-1] = v => life[v] = "live" /\ port[v] = -1

\* The count, and that what has no port can be counted.
Counted ==
  /\ IsFiniteSet(Portless)
  /\ n_used_ports = Cardinality(UsedPorts) + Cardinality(Portless)
  /\ n_used_ports <= NMax

TableInv == PortTable /\ Placed

PortInv ==
  /\ PortTypes /\ CallbackTypes /\ CallbackHolds /\ PlugInOwns
  /\ TableInv /\ HeldIsCounted /\ Counted
\* There are finitely many ports, numbered from 0, and the names differ.
LEMMA Ports ==
  /\ IsFiniteSet(Port) /\ Port \subseteq Nat /\ -1 \notin Port /\ NMax \in Nat
  /\ Slot = Port \cup {-1} /\ Port \subseteq Slot /\ -1 \in Slot
  /\ NoClient \notin Client /\ Creating \notin Client /\ NoClient # Creating
<1>1. NMax \in Nat
  BY ConstantsAssumption DEF NMax
<1>2. IsFiniteSet(0 .. NMax - 1)
  BY <1>1, FS_Interval
<1> QED BY <1>1, <1>2, ConstantsAssumption DEF Port, Slot

LEMMA UsedIsFinite == IsFiniteSet(UsedPorts) /\ Cardinality(UsedPorts) \in Nat
  BY Ports, FS_Subset, FS_CardinalityType DEF UsedPorts

\* The bounds of n_used_ports follow from the count.
LEMMA TypeFromInv == PortInv => TypeOK
  <1> SUFFICES ASSUME PortInv PROVE TypeOK
    OBVIOUS
  <1>1. Cardinality(UsedPorts) \in Nat /\ Cardinality(Portless) \in Nat
    BY UsedIsFinite, FS_CardinalityType DEF PortInv, Counted
  <1>2. n_used_ports \in 0 .. NMax
    BY <1>1, Ports DEF PortInv, Counted
  <1> QED BY <1>2 DEF PortInv, TypeOK, PortTypes, CallbackTypes

\* get_vusb returns a device that exists.
LEMMA FoundIsLive ==
  ASSUME TableInv, NEW p \in Slot, NEW v, Found(p, v)
  PROVE  v \in Client /\ life[v] = "live" /\ port[v] = p
  BY Ports DEF TableInv, PortTable, Placed, Found

\* What put_vusb does to the table, the count and the devices.
LEMMA PutKeeps ==
  ASSUME PortTypes, TableInv, HeldIsCounted, Counted, NEW v \in Client, Holds(v) > 0,
         Put(v), UNCHANGED <<port, invalid>>
  PROVE  /\ TableInv' /\ Counted'
         /\ vusbs' \in [Slot -> Client \cup {NoClient, Creating}]
         /\ n_used_ports' \in Int /\ n_used_ports' <= n_used_ports
         /\ life' \in [Client -> {"none", "live", "deleted", "failed"}]
         /\ refcnt' \in [Client -> Nat]
         /\ \A c \in Client : /\ c # v => life'[c] = life[c] /\ refcnt'[c] = refcnt[c]
                              /\ life[c] = "none" => life'[c] = "none"
         /\ refcnt'[v] = refcnt[v] - 1
         /\ refcnt'[v] > 0 => life'[v] = "live"
         /\ \A p \in Slot : vusbs[p] = Creating => vusbs'[p] = Creating
<1>1. life[v] = "live" /\ refcnt[v] = Holds(v) /\ refcnt[v] \in Nat /\ refcnt[v] > 0
  BY DEF HeldIsCounted, PortTypes
<1>2. /\ refcnt' \in [Client -> Nat]
      /\ refcnt'[v] = refcnt[v] - 1
      /\ \A c \in Client : c # v => refcnt'[c] = refcnt[c]
  BY <1>1 DEF Put, PortTypes
<1>4. CASE LastPut(v)
  <2>i. port[v] \in Port /\ vusbs[port[v]] = v
    BY <1>1, <1>4 DEF TableInv, PortTable, Placed, LastPut, PortTypes
  <2>1. /\ vusbs' = [vusbs EXCEPT ![port[v]] = NoClient]
        /\ n_used_ports' = n_used_ports - 1
        /\ life' = [life EXCEPT ![v] = "deleted"]
        /\ refcnt'[v] = 0
    BY <1>2, <1>4 DEF Put, LastPut
  <2>2. TableInv'
    <3>1. PortTable'
      BY <2>1, <1>1, <2>i, Ports DEF PortTypes, TableInv, PortTable
    <3>2. vusbs'[-1] = vusbs[-1] /\ vusbs[-1] # v
      BY <2>1, <2>i, Ports DEF PortTypes, TableInv, Placed
    <3>3. \A c \in Client : life'[c] = IF c = v THEN "deleted" ELSE life[c]
      BY <2>1 DEF PortTypes
    <3>4. Placed'
      BY <3>2, <3>3 DEF TableInv, Placed
    <3> QED BY <3>1, <3>4 DEF TableInv
  <2>3. UsedPorts' = UsedPorts \ {port[v]} /\ port[v] \in UsedPorts
    BY <2>1, <2>i, Ports DEF UsedPorts, PortTypes
  <2>4. Portless' = Portless
    BY <2>1, <1>1, <2>i, Ports DEF Portless, PortTypes
  <2>5. Cardinality(UsedPorts') = Cardinality(UsedPorts) - 1
    BY <2>3, UsedIsFinite, FS_RemoveElement
  <2>6. Cardinality(Portless) \in Nat
    BY FS_CardinalityType DEF Counted
  <2>7. Counted'
    BY <2>1, <2>4, <2>5, <2>6, UsedIsFinite, Ports DEF Counted, PortTypes
  <2>8. /\ vusbs' \in [Slot -> Client \cup {NoClient, Creating}]
        /\ n_used_ports' \in Int /\ n_used_ports' <= n_used_ports
        /\ life' \in [Client -> {"none", "live", "deleted", "failed"}]
    <3>1. n_used_ports' \in Int /\ n_used_ports' <= n_used_ports
      BY <2>1 DEF PortTypes
    <3>2. vusbs' \in [Slot -> Client \cup {NoClient, Creating}]
      BY <2>1 DEF PortTypes
    <3>3. life' \in [Client -> {"none", "live", "deleted", "failed"}]
      BY <2>1 DEF PortTypes
    <3> QED BY <3>1, <3>2, <3>3
  <2>9. \A c \in Client : /\ c # v => life'[c] = life[c]
                          /\ life[c] = "none" => life'[c] = "none"
    BY <2>1, <1>1 DEF PortTypes
  <2>10. \A p \in Slot : vusbs[p] = Creating => vusbs'[p] = Creating
    BY <2>1, <2>i, Ports DEF PortTypes
  <2> QED BY <1>2, <2>1, <2>2, <2>7, <2>8, <2>9, <2>10
<1>5. CASE ~LastPut(v)
  <2>1. UNCHANGED <<vusbs, n_used_ports, life>>
    BY <1>5 DEF Put
  <2>2. UsedPorts' = UsedPorts /\ Portless' = Portless
    BY <2>1 DEF UsedPorts, Portless
  <2> QED BY <1>1, <1>2, <2>1, <2>2
          DEF PortTypes, TableInv, PortTable, Placed, Counted
<1> QED BY <1>4, <1>5

\* A step that leaves the table, the devices' lives and the count alone.
LEMMA TableKept ==
  ASSUME TableInv, Counted, UNCHANGED <<vusbs, n_used_ports, life, port, invalid>>
  PROVE  TableInv' /\ Counted'
<1>1. UsedPorts' = UsedPorts /\ Portless' = Portless
  BY DEF UsedPorts, Portless
<1> QED BY <1>1 DEF TableInv, PortTable, Placed, Counted

\* What get_vusb does to the device it returns.
LEMMA GetCounts ==
  ASSUME PortTypes, NEW v \in Client, Get(v)
  PROVE  /\ refcnt' \in [Client -> Nat]
         /\ refcnt'[v] = refcnt[v] + 1
         /\ \A c \in Client : c # v => refcnt'[c] = refcnt[c]
  BY DEF PortTypes, Get

LEMMA PortStep == PortInv /\ [Next]_vars => PortInv'
<1> SUFFICES ASSUME PortInv, [Next]_vars PROVE PortInv'
  OBVIOUS
<1>i. /\ PortTypes /\ CallbackTypes /\ CallbackHolds /\ PlugInOwns
      /\ TableInv /\ HeldIsCounted /\ Counted
  BY DEF PortInv
<1> USE <1>i, Ports
<1>1. ASSUME NEW c \in Client, PlugIn(c) \/ PlugInNoPort(c) PROVE PortInv'
  <2>1. PICK p \in Slot : /\ vusbs' = [vusbs EXCEPT ![p] = Creating] /\ hc_port' = p
                          /\ p \in Port => vusbs[p] = NoClient
    <3>1. CASE PlugIn(c)
      <4>1. PICK p \in FreePorts(c) : vusbs' = [vusbs EXCEPT ![p] = Creating] /\ hc_port' = p
        BY <3>1 DEF PlugIn
      <4>2. p \in Port /\ vusbs[p] = NoClient
        BY <4>1, ConstantsAssumption DEF FreePorts, FirstPort, Port
      <4> QED BY <4>1, <4>2
    <3>2. CASE PlugInNoPort(c)
      BY <3>2 DEF PlugInNoPort
    <3> QED BY <1>1, <3>1, <3>2
  <2>2. UNCHANGED <<n_used_ports, svusb, life, invalid, refcnt, port, read, cancelled,
                    cancels, work, lost, hc_vusb, hc_shut, hc_todo>>
        /\ hc = "idle" /\ hc' = "creating" /\ hc_client' = c /\ life[c] = "none"
        /\ n_used_ports # NMax
    BY <1>1 DEF PlugIn, PlugInNoPort, devices, reads, items, PortsLeft
  <2>3. pool' \in {"intact", "overwritten", "stopped"}
    BY <1>1 DEF PlugIn, PlugInNoPort, CallbackTypes
  <2>4. PortTypes' /\ CallbackTypes'
    BY <2>1, <2>2, <2>3 DEF PortTypes, CallbackTypes
  <2>5. CallbackHolds'
    BY <2>1, <2>2 DEF CallbackHolds, CallbackTypes
  <2>6. PlugInOwns'
    BY <2>1, <2>2 DEF PlugInOwns, PortTypes, Counted
  <2>7. TableInv'
    <3>1. PortTable'
      BY <2>1, <2>2 DEF TableInv, PortTable, PortTypes
    <3>2. Placed'
      BY <2>1, <2>2 DEF TableInv, Placed, PortTypes
    <3> QED BY <3>1, <3>2 DEF TableInv
  <2>8. HeldIsCounted'
    BY <2>1, <2>2 DEF HeldIsCounted, Holds
  <2>9. UsedPorts' = UsedPorts /\ Portless' = Portless
    BY <2>1, <2>2 DEF UsedPorts, Portless, PortTypes
  <2>10. Counted'
    BY <2>9, <2>2 DEF Counted
  <2> QED BY <2>4, <2>5, <2>6, <2>7, <2>8, <2>10 DEF PortInv
<1>2. CASE Stop
  <2>1. /\ UNCHANGED <<ports, devices, reads, items, callback>> /\ pool' = "stopped"
    BY <1>2 DEF Stop
  <2>2. TableInv' /\ Counted'
    BY <2>1, TableKept DEF ports, devices
  <2> QED BY <2>1, <2>2 DEF PortInv, PortTypes, CallbackTypes, CallbackHolds, PlugInOwns,
          HeldIsCounted, Holds, ports, devices, reads, items, callback
<1>3. CASE PlugInDone
  <2>1. hc_client \in Client /\ hc_port \in Slot /\ life[hc_client] = "none"
        /\ vusbs[hc_port] = Creating /\ n_used_ports < NMax /\ hc = "creating"
    BY <1>3 DEF PlugInDone, CallbackHolds, CallbackTypes, PlugInOwns
  <2>2. /\ vusbs' = [vusbs EXCEPT ![hc_port] = hc_client]
        /\ svusb' = [svusb EXCEPT ![hc_client] = hc_port]
        /\ port' = [port EXCEPT ![hc_client] = hc_port]
        /\ life' = [life EXCEPT ![hc_client] = "live"]
        /\ n_used_ports' = n_used_ports + 1
        /\ hc' = "idle" /\ hc_client' = NoClient /\ hc_port' = -1
        /\ UNCHANGED <<invalid, refcnt, read, cancelled, cancels, work, lost, hc_vusb,
                       hc_shut, hc_todo, pool>>
    BY <1>3 DEF PlugInDone, PlugInLeave, CountPort, reads, items
  <2>3. PortTypes' /\ CallbackTypes'
    BY <2>1, <2>2 DEF PortTypes, CallbackTypes
  <2>4. CallbackHolds' /\ PlugInOwns'
    BY <2>1, <2>2 DEF CallbackHolds, PlugInOwns, PortTypes
  <2>5. TableInv'
    <3>1. \A p \in Slot : vusbs[p] # hc_client
      BY <2>1 DEF TableInv, PortTable, Placed
    <3>2. PortTable'
      BY <2>1, <2>2, <3>1 DEF TableInv, PortTable, PortTypes
    <3>3. ~invalid[hc_client]
      BY <2>1 DEF TableInv, Placed
    <3>4. Placed'
      BY <2>1, <2>2, <3>1, <3>3 DEF TableInv, Placed, PortTypes
    <3> QED BY <3>2, <3>4 DEF TableInv
  <2>6. HeldIsCounted'
    BY <2>1, <2>2 DEF HeldIsCounted, Holds, PortTypes
  <2>7. Cardinality(Portless) \in Nat
    BY FS_CardinalityType DEF Counted
  <2>8. ASSUME hc_port \in Port PROVE Counted'
    <3>1. UsedPorts' = UsedPorts \cup {hc_port} /\ hc_port \notin UsedPorts
      BY <2>1, <2>2, <2>8 DEF UsedPorts, PortTypes
    <3>2. Portless' = Portless
      BY <2>1, <2>2, <2>8 DEF Portless, PortTypes
    <3>3. Cardinality(UsedPorts') = Cardinality(UsedPorts) + 1
      BY <3>1, UsedIsFinite, FS_AddElement
    <3>4. /\ n_used_ports' = Cardinality(UsedPorts') + Cardinality(Portless')
          /\ n_used_ports' <= NMax
      BY <2>1, <2>2, <2>7, <3>2, <3>3, UsedIsFinite DEF Counted, PortTypes
    <3> QED BY <3>2, <3>4 DEF Counted
  <2>9. ASSUME hc_port = -1 PROVE Counted'
    <3>1. UsedPorts' = UsedPorts
      BY <2>1, <2>2, <2>9 DEF UsedPorts, PortTypes
    <3>2. Portless' = Portless \cup {hc_client} /\ hc_client \notin Portless
      BY <2>1, <2>2, <2>9 DEF Portless, PortTypes
    <3>3. IsFiniteSet(Portless') /\ Cardinality(Portless') = Cardinality(Portless) + 1
      BY <3>2, FS_AddElement DEF Counted
    <3>4. /\ n_used_ports' = Cardinality(UsedPorts') + Cardinality(Portless')
          /\ n_used_ports' <= NMax
      BY <2>1, <2>2, <2>7, <3>1, <3>3, UsedIsFinite DEF Counted, PortTypes
    <3> QED BY <3>3, <3>4 DEF Counted
  <2>10. hc_port \in Port \/ hc_port = -1
    BY <2>1
  <2>11. Counted'
    BY <2>8, <2>9, <2>10
  <2> QED BY <2>3, <2>4, <2>5, <2>6, <2>11 DEF PortInv
<1>4. CASE PlugInFailed
  <2>1. hc_client \in Client /\ hc_port \in Slot /\ life[hc_client] = "none"
        /\ vusbs[hc_port] = Creating /\ n_used_ports < NMax /\ hc = "creating"
    BY <1>4 DEF PlugInFailed, CallbackHolds, CallbackTypes, PlugInOwns
  <2>2. /\ vusbs' = [vusbs EXCEPT ![hc_port] = NoClient]
        /\ life' = [life EXCEPT ![hc_client] = "failed"]
        /\ n_used_ports' = n_used_ports + 1
        /\ hc' = "idle" /\ hc_client' = NoClient /\ hc_port' = -1
        /\ UNCHANGED <<svusb, port, invalid, refcnt, read, cancelled, cancels, work, lost,
                       hc_vusb, hc_shut, hc_todo, pool>>
    BY <1>4 DEF PlugInFailed, PlugInLeave, CountPort, reads, items
  <2>3. PortTypes' /\ CallbackTypes'
    BY <2>1, <2>2 DEF PortTypes, CallbackTypes
  <2>4. CallbackHolds' /\ PlugInOwns'
    BY <2>1, <2>2 DEF CallbackHolds, PlugInOwns, PortTypes
  <2>5. TableInv'
    <3>1. PortTable'
      BY <2>1, <2>2 DEF TableInv, PortTable, PortTypes
    <3>2. Placed'
      BY <2>1, <2>2 DEF TableInv, Placed, PortTypes
    <3> QED BY <3>1, <3>2 DEF TableInv
  <2>6. HeldIsCounted'
    BY <2>1, <2>2 DEF HeldIsCounted, Holds, PortTypes
  <2>7. UsedPorts' = UsedPorts
    BY <2>1, <2>2 DEF UsedPorts, PortTypes
  <2>8. Portless' = Portless \cup {hc_client} /\ hc_client \notin Portless
    BY <2>1, <2>2 DEF Portless, PortTypes
  <2>9. IsFiniteSet(Portless') /\ Cardinality(Portless') = Cardinality(Portless) + 1
    BY <2>8, FS_AddElement DEF Counted
  <2>10. Cardinality(Portless) \in Nat
    BY FS_CardinalityType DEF Counted
  <2>11. Counted'
    BY <2>1, <2>2, <2>7, <2>9, <2>10, UsedIsFinite DEF Counted, PortTypes
  <2> QED BY <2>3, <2>4, <2>5, <2>6, <2>11 DEF PortInv
<1>5. ASSUME NEW c \in Client, IoEnter(c) PROVE PortInv'
  <2>1. /\ UNCHANGED <<vusbs, n_used_ports, svusb, life, invalid, port, read, cancelled,
                       cancels, work, lost, hc_shut, hc_port, hc_todo, pool>>
        /\ hc = "idle" /\ hc' = "io" /\ hc_client' = c
    BY <1>5 DEF IoEnter, ports, reads, items
  <2>2. PICK v \in Client : Found(svusb[c], v) /\ Get(v) /\ hc_vusb' = v
    BY <1>5 DEF IoEnter
  <2>3. life[v] = "live"
    BY <2>1, <2>2, FoundIsLive DEF PortTypes
  <2>4. TableInv' /\ Counted'
    BY <2>1, TableKept
  <2>5. PortTypes' /\ CallbackTypes'
    BY <2>1, <2>2, GetCounts DEF PortTypes, CallbackTypes
  <2>6. CallbackHolds' /\ PlugInOwns'
    BY <2>1, <2>2 DEF CallbackHolds, PlugInOwns
  <2>7. HeldIsCounted'
    BY <2>1, <2>2, <2>3, GetCounts DEF HeldIsCounted, Holds, PortTypes, CallbackHolds
  <2> QED BY <2>4, <2>5, <2>6, <2>7 DEF PortInv
<1>6. CASE IoLeave
  <2>1. /\ hc = "io" /\ hc_vusb \in Client /\ hc_client \in Client
        /\ hc' = "idle" /\ hc_client' = NoClient /\ hc_vusb' = NoClient /\ Put(hc_vusb)
        /\ UNCHANGED <<svusb, invalid, port, cancelled, cancels, work, lost, hc_shut,
                       hc_port, hc_todo, pool>>
    BY <1>6 DEF IoLeave, items, CallbackHolds, CallbackTypes
  <2>2. Holds(hc_vusb) > 0
    BY <2>1 DEF Holds, PortTypes
  <2>3. read' = read \/ read' = [read EXCEPT ![hc_client] = hc_vusb]
    BY <1>6 DEF IoLeave
  <2>4. PortTypes' /\ CallbackTypes' /\ TableInv' /\ Counted'
    BY <2>1, <2>2, <2>3, PutKeeps DEF PortTypes, CallbackTypes
  <2>6. CallbackHolds' /\ PlugInOwns'
    BY <2>1 DEF CallbackHolds, PlugInOwns
  <2>7. HeldIsCounted'
    BY <2>1, <2>2, PutKeeps DEF HeldIsCounted, Holds, PortTypes
  <2> QED BY <2>4, <2>6, <2>7 DEF PortInv
<1>7. ASSUME NEW c \in Client, CancelRead(c) PROVE PortInv'
  <2>1. UNCHANGED <<vusbs, n_used_ports, svusb, life, invalid, refcnt, port, read, work,
                    lost, hc, hc_client, hc_vusb, hc_shut, hc_port, hc_todo, pool>>
    BY <1>7 DEF CancelRead, ports, devices, items, callback
  <2>2. /\ cancelled' = cancelled \cup {c} /\ read[c] # NoClient
        /\ cancels < MaxCancels /\ cancels' = cancels + 1
    BY <1>7 DEF CancelRead
  <2>3. TableInv' /\ Counted'
    BY <2>1, TableKept
  <2>4. PortTypes'
    BY <2>1, <2>2, ConstantsAssumption DEF PortTypes
  <2> QED BY <2>1, <2>2, <2>3, <2>4 DEF PortInv, CallbackTypes, CallbackHolds,
          PlugInOwns, HeldIsCounted, Holds
<1>8. ASSUME NEW c \in Client, ReqReadCancelled(c) PROVE PortInv'
  <2>1. /\ UNCHANGED <<vusbs, n_used_ports, svusb, life, invalid, port, cancels, hc,
                       hc_client, hc_vusb, hc_shut, hc_port, hc_todo, pool>>
        /\ hc = "idle" /\ c \in cancelled
        /\ cancelled' = cancelled \ {c}
        /\ read' = [read EXCEPT ![c] = NoClient]
    BY <1>8 DEF ReqReadCancelled, ports, callback
  <2>2. svusb[c] \in Slot
    BY DEF PortTypes
  <2>3. TableInv' /\ Counted'
    BY <2>1, TableKept
  <2>4. CallbackTypes' /\ CallbackHolds' /\ PlugInOwns'
    BY <2>1 DEF CallbackTypes, CallbackHolds, PlugInOwns, PortTypes
  <2>5. CASE UNCHANGED <<refcnt, items>>
    BY <2>1, <2>3, <2>4, <2>5 DEF PortInv, PortTypes, HeldIsCounted, Holds, items
  <2>6. ASSUME NEW v \in Client, Found(svusb[c], v), Get(v),
               \/ work' = [work EXCEPT ![v] = work[v] + 1] /\ UNCHANGED lost
               \/ lost' = [lost EXCEPT ![v] = lost[v] + 1] /\ UNCHANGED work
        PROVE  PortInv'
    <3>1. life[v] = "live"
      BY <2>2, <2>6, FoundIsLive
    <3>2. PortTypes'
      BY <2>1, <2>6, GetCounts DEF PortTypes
    <3>3. work'[v] + lost'[v] = work[v] + lost[v] + 1
          /\ \A x \in Client : x # v => work'[x] = work[x] /\ lost'[x] = lost[x]
      BY <2>6 DEF PortTypes
    <3>4. HeldIsCounted'
      <4> SUFFICES ASSUME NEW x \in Client
                   PROVE  (refcnt[x] = Holds(x) /\ (Holds(x) > 0 => life[x] = "live"))'
        BY DEF HeldIsCounted
      <4>1. CASE x = v
        <5>1. Holds(v)' = Holds(v) + 1
          BY <2>1, <3>2, <3>3 DEF Holds, PortTypes
        <5> QED BY <4>1, <5>1, <2>1, <2>6, <3>1, GetCounts DEF HeldIsCounted
      <4>2. CASE x # v
        BY <4>2, <2>1, <2>6, <3>3, GetCounts DEF HeldIsCounted, Holds
      <4> QED BY <4>1, <4>2
    <3> QED BY <2>3, <2>4, <3>2, <3>4 DEF PortInv
  <2> QED BY <1>8, <2>5, <2>6 DEF ReqReadCancelled
<1>9. ASSUME NEW v \in Client, AsyncPut(v) PROVE PortInv'
  <2>1. /\ work[v] > 0 /\ work' = [work EXCEPT ![v] = work[v] - 1] /\ Put(v)
        /\ UNCHANGED <<svusb, invalid, port, read, cancelled, cancels, lost, hc, hc_client,
                       hc_vusb, hc_shut, hc_port, hc_todo, pool>>
    BY <1>9 DEF AsyncPut, reads, callback
  <2>2. Holds(v) > 0
    BY <2>1 DEF Holds, PortTypes
  <2>3. PortTypes' /\ CallbackTypes' /\ TableInv' /\ Counted'
    BY <2>1, <2>2, PutKeeps DEF PortTypes, CallbackTypes
  <2>4. CallbackHolds'
    BY <2>1 DEF CallbackHolds
  <2>5. PlugInOwns'
    BY <2>1, <2>2, PutKeeps DEF PlugInOwns, PortTypes, CallbackHolds, CallbackTypes
  <2>6. HeldIsCounted'
    <3>1. work'[v] = work[v] - 1 /\ \A x \in Client : x # v => work'[x] = work[x]
      BY <2>1 DEF PortTypes
    <3>2. Holds(v)' = Holds(v) - 1
      BY <2>1, <3>1 DEF Holds, PortTypes
    <3>3. \A x \in Client : x # v => Holds(x)' = Holds(x)
      BY <2>1, <3>1 DEF Holds
    <3> QED BY <2>1, <2>2, <3>2, <3>3, PutKeeps DEF HeldIsCounted, PortTypes
  <2> QED BY <2>3, <2>4, <2>5, <2>6 DEF PortInv
<1>10. ASSUME NEW P \in {Port} \cup {{p} : p \in Port}, PlugOut(P) PROVE PortInv'
  <2>1. /\ UNCHANGED <<vusbs, n_used_ports, svusb, life, invalid, refcnt, port, read,
                       cancelled, cancels, work, lost, hc_client, hc_vusb, hc_shut, hc_port, pool>>
        /\ hc = "idle" /\ hc' = "plugout" /\ hc_todo' \subseteq P /\ P \subseteq Port
    BY <1>10 DEF PlugOut, ports, devices, reads, items
  <2>2. TableInv' /\ Counted'
    BY <2>1, TableKept
  <2> QED BY <2>1, <2>2 DEF PortInv, PortTypes, CallbackTypes, CallbackHolds, PlugInOwns,
          HeldIsCounted, Holds
<1>11. ASSUME NEW c \in Client, Shutdown(c) PROVE PortInv'
  <2>1. /\ UNCHANGED <<vusbs, n_used_ports, svusb, life, invalid, port, read, cancelled,
                       cancels, work, lost, hc_vusb, hc_port, pool>>
        /\ hc = "idle" /\ hc' \in {"plugout", "shutdown"} /\ hc_client' = c
    BY <1>11 DEF Shutdown, ports, reads, items
  <2>2. PICK v \in Client :
          /\ Found(svusb[c], v) /\ Get(v) /\ hc_shut' = v
          /\ hc_todo' = IF port[v] = -1 THEN {p \in Port : ~NotFound(p)} ELSE {port[v]}
    BY <1>11 DEF Shutdown
  <2>3. life[v] = "live" /\ hc_todo' \subseteq Port
    <3>1. svusb[c] \in Slot /\ port[v] \in Slot
      BY DEF PortTypes
    <3>2. life[v] = "live"
      BY <2>2, <3>1, FoundIsLive
    <3> QED BY <2>2, <3>1, <3>2
  <2>4. TableInv' /\ Counted'
    BY <2>1, TableKept
  <2>5. PortTypes' /\ CallbackTypes'
    BY <2>1, <2>2, <2>3, GetCounts DEF PortTypes, CallbackTypes
  <2>6. CallbackHolds' /\ PlugInOwns'
    BY <2>1, <2>2 DEF CallbackHolds, PlugInOwns
  <2>7. HeldIsCounted'
    BY <2>1, <2>2, <2>3, GetCounts DEF HeldIsCounted, Holds, PortTypes, CallbackHolds
  <2> QED BY <2>4, <2>5, <2>6, <2>7 DEF PortInv
<1>12. CASE PlugOutVusb
  <2>1. /\ UNCHANGED <<vusbs, n_used_ports, svusb, life, port, cancelled, cancels, work,
                       lost, hc_client, hc_shut, hc_port, pool>>
        /\ hc = "plugout" /\ hc' = "invalid"
    BY <1>12 DEF PlugOutVusb, ports, items
  <2>2. PICK p \in hc_todo, v \in Client :
          /\ Found(p, v) /\ Get(v)
          /\ invalid' = [invalid EXCEPT ![v] = TRUE]
          /\ read' = [c \in Client |-> IF read[c] = v THEN NoClient ELSE read[c]]
          /\ hc_vusb' = v
          /\ hc_todo' = hc_todo \ {p}
    BY <1>12 DEF PlugOutVusb
  <2>3. life[v] = "live" /\ port[v] \in Port
    BY <2>1, <2>2, FoundIsLive DEF CallbackTypes
  <2>4. TableInv' /\ Counted'
    <3>1. UsedPorts' = UsedPorts /\ Portless' = Portless
      BY <2>1 DEF UsedPorts, Portless
    <3>2. PortTable' /\ Counted'
      BY <2>1, <3>1 DEF TableInv, PortTable, Counted
    <3>3. Placed'
      BY <2>1, <2>2, <2>3 DEF TableInv, Placed, PortTypes
    <3> QED BY <3>2, <3>3 DEF TableInv
  <2>5. PortTypes' /\ CallbackTypes'
    BY <2>1, <2>2, <2>3, GetCounts DEF PortTypes, CallbackTypes
  <2>6. CallbackHolds' /\ PlugInOwns'
    BY <2>1, <2>2 DEF CallbackHolds, PlugInOwns, PortTypes
  <2>7. HeldIsCounted'
    <3>1. hc_vusb = NoClient
      BY <2>1 DEF CallbackHolds
    <3>2. Holds(v)' = Holds(v) + 1
      BY <2>1, <2>2, <3>1 DEF Holds, PortTypes
    <3>3. \A x \in Client : x # v => Holds(x)' = Holds(x)
      BY <2>1, <2>2, <3>1 DEF Holds
    <3>4. Holds(v) \in Nat
      BY DEF HeldIsCounted, PortTypes
    <3> QED BY <2>1, <2>2, <2>3, <3>2, <3>3, <3>4, GetCounts DEF HeldIsCounted, PortTypes
  <2> QED BY <2>4, <2>5, <2>6, <2>7 DEF PortInv
<1>13. CASE PlugOutPut
  <2>1. /\ hc = "invalid" /\ hc_vusb \in Client /\ hc_vusb' = NoClient /\ Put(hc_vusb)
        /\ UNCHANGED <<svusb, invalid, port, read, cancelled, cancels, work, lost,
                       hc_client, hc_shut, hc_port, hc_todo, pool>>
    BY <1>13 DEF PlugOutPut, reads, items, CallbackHolds, CallbackTypes
  <2>2. /\ hc' \in {"shutdown", "plugout", "idle"}
        /\ hc' = "shutdown" => hc_shut # NoClient
        /\ hc' = "idle" => hc_shut = NoClient
    <3>1. CASE hc_todo # {}
      BY <1>13, <3>1 DEF PlugOutPut
    <3>2. CASE hc_todo = {} /\ hc_shut # NoClient
      BY <1>13, <3>2 DEF PlugOutPut
    <3>3. CASE hc_todo = {} /\ hc_shut = NoClient
      BY <1>13, <3>3 DEF PlugOutPut
    <3> QED BY <3>1, <3>2, <3>3
  <2>3. Holds(hc_vusb) > 0
    BY <2>1 DEF Holds, PortTypes
  <2>4. PortTypes' /\ CallbackTypes' /\ TableInv' /\ Counted'
    BY <2>1, <2>2, <2>3, PutKeeps DEF PortTypes, CallbackTypes
  <2>5. CallbackHolds' /\ PlugInOwns'
    BY <2>1, <2>2 DEF CallbackHolds, PlugInOwns
  <2>6. HeldIsCounted'
    BY <2>1, <2>3, PutKeeps DEF HeldIsCounted, Holds, PortTypes
  <2> QED BY <2>4, <2>5, <2>6 DEF PortInv
<1>14. CASE ShutdownPut
  <2>1. /\ hc = "shutdown" /\ hc_shut \in Client /\ hc_shut' = NoClient /\ Put(hc_shut)
        /\ hc' = "idle" /\ hc_client' = NoClient
        /\ UNCHANGED <<svusb, invalid, port, read, cancelled, cancels, work, lost, hc_vusb,
                       hc_port, hc_todo, pool>>
    BY <1>14 DEF ShutdownPut, reads, items, CallbackHolds, CallbackTypes
  <2>2. Holds(hc_shut) > 0
    BY <2>1 DEF Holds, PortTypes
  <2>3. PortTypes' /\ CallbackTypes' /\ TableInv' /\ Counted'
    BY <2>1, <2>2, PutKeeps DEF PortTypes, CallbackTypes
  <2>4. CallbackHolds' /\ PlugInOwns'
    BY <2>1 DEF CallbackHolds, PlugInOwns
  <2>5. HeldIsCounted'
    <3>1. hc_vusb = NoClient
      BY <2>1 DEF CallbackHolds
    <3>2. PICK v \in Client : v = hc_shut
      BY <2>1
    <3>3. Holds(v)' = Holds(v) - 1
      BY <2>1, <3>1, <3>2 DEF Holds, PortTypes
    <3>4. \A x \in Client : x # v => Holds(x)' = Holds(x)
      BY <2>1, <3>1, <3>2 DEF Holds
    <3> QED BY <2>1, <2>2, <3>2, <3>3, <3>4, PutKeeps DEF HeldIsCounted, PortTypes
  <2> QED BY <2>3, <2>4, <2>5 DEF PortInv
<1>15. CASE UNCHANGED vars
  <2>1. TableInv' /\ Counted'
    BY <1>15, TableKept DEF vars, ports, devices
  <2> QED BY <1>15, <2>1 DEF PortInv, PortTypes, CallbackTypes, CallbackHolds, PlugInOwns,
          HeldIsCounted, Holds, vars, ports, devices, reads, items, callback
<1> QED
  BY <1>1, <1>2, <1>3, <1>4, <1>5, <1>6, <1>7, <1>8, <1>9, <1>10, <1>11, <1>12, <1>13,
     <1>14, <1>15 DEF Next, Callback

\* The invariant holds throughout.
LEMMA PortInvariant == Spec => []PortInv
<1>1. Init => PortInv
  <2> SUFFICES ASSUME Init PROVE PortInv
    OBVIOUS
  <2>1. UsedPorts = {} /\ Portless = {}
    BY Ports DEF Init, UsedPorts, Portless
  <2>2. Counted
    BY <2>1, FS_EmptySet, Ports DEF Counted, Init
  <2>3. PortTypes /\ CallbackTypes
    BY ConstantsAssumption, Ports DEF Init, PortTypes, CallbackTypes
  <2>4. TableInv /\ HeldIsCounted
    BY Ports DEF Init, TableInv, PortTable, Placed, HeldIsCounted, Holds
  <2> QED BY <2>2, <2>3, <2>4 DEF Init, PortInv, CallbackHolds, PlugInOwns
<1> QED BY <1>1, PortStep, PTL DEF Spec

\* Type correctness of the ports: n_used_ports never exceeds the number of ports nor
\* falls below zero, and no reference count does.
THEOREM PortsTypeCorrect == Spec => []TypeOK
  BY PortInvariant, TypeFromInv, PTL

\* The reference count of a vusb is the number of its users, and a vusb in use
\* exists, for any number of clients, ports and cancelled reads.
THEOREM NoUseAfterDelete == Spec => []HeldIsCounted
<1>1. PortInv => HeldIsCounted
  BY DEF PortInv
<1> QED BY <1>1, PortInvariant, PTL

\* The table of ports and the devices agree, for any number of clients and ports.
THEOREM TableAgrees == Spec => []PortTable
<1>1. PortInv => PortTable
  BY DEF PortInv, TableInv
<1> QED BY <1>1, PortInvariant, PTL

\* n_used_ports is the number of ports in use, of devices without one and of plug-ins
\* that failed, also where there are infinitely many clients.
THEOREM CountIsRight == Spec => []PortsCounted
<1>1. PortInv => PortsCounted
  BY DEF PortInv, Counted, PortsCounted, UsedPorts, Portless
<1> QED BY <1>1, PortInvariant, PTL
=============================================================================
