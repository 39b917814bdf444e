------------------------------ MODULE UdePorts ------------------------------
(***************************************************************************)
(* The ports of the UDE driver driver/vhci_ude and the life of the virtual *)
(* devices (vusb) on them: vhci_plugin.c, vhci_plugout.c, vhci_vusb.c and  *)
(* vhci_ioctl.c.                                                           *)
(*                                                                         *)
(* A client (the attacher) opens the controller, plugs one device in and   *)
(* reads and writes through the same file object, which remembers the      *)
(* device by its port number only (ctx_safe_vusb).  Client and vusb go by  *)
(* one name here.  All callbacks of the controller's queue are serialized  *)
(* by the framework; a work item that drops a reference (async_put_vusb)   *)
(* is not, and runs between any two critical sections of vhci->spin_lock.  *)
(* What reading, writing and aborting do to the URBs is in UdeUrb.         *)
(***************************************************************************)
EXTENDS Integers, FiniteSets

CONSTANTS
  Client,     \* clients, and the devices they plug in
  NoClient,   \* no client, the NULL vusb
  Creating,   \* VUSB_CREATING
  Usb30,      \* clients whose device is a USB 3.0 device
  N20, N30,   \* MAX_HUB_20PORTS, MAX_HUB_30PORTS
  MaxCancels  \* bound: how many reads may be cancelled

ASSUME ConstantsAssumption ==
  /\ NoClient \notin Client /\ Creating \notin Client /\ NoClient # Creating
  /\ Usb30 \subseteq Client
  /\ N20 \in Nat \ {0} /\ N30 \in Nat \ {0}
  /\ MaxCancels \in Nat

NMax == N20 + N30      \* vhci->n_max_ports
Port == 0 .. NMax - 1
Slot == Port \cup {-1} \* indexes of vhci->vusbs; -1 is the memory in front of it

VARIABLES
  vusbs,          \* what is on a port
  n_used_ports,
  svusb,          \* the port a client's file object names, (ULONG)-1 at first
  life,           \* a vusb: "none", "live", "deleted", or "failed" to be created
  invalid, refcnt, port,   \* vusb->invalid, vusb->refcnt, vusb->port
  read,           \* the vusb on which a client's read waits
  cancelled,      \* clients whose read is being cancelled
  work,           \* work items that will put the vusb
  lost,           \* references that nobody will drop
  cancels,        \* cancelled reads so far
  hc,             \* the callback of the controller's queue that is running
  hc_client,      \* whose request it is
  hc_vusb, hc_shut,    \* the vusb that it holds, and that a shutdown holds
  hc_port,        \* the port it is about to use
  hc_todo,        \* ports it has still to plug out
  pool            \* the memory of the driver: "intact", "overwritten" in front of
                  \* vusbs, or so that the machine has "stopped"

ports == <<vusbs, n_used_ports, svusb>>
devices == <<life, invalid, refcnt, port>>
reads == <<read, cancelled, cancels>>
items == <<work, lost>>
callback == <<hc, hc_client, hc_vusb, hc_shut, hc_port, hc_todo>>
vars == <<ports, devices, reads, items, callback, pool>>

TypeOK ==
  /\ vusbs \in [Slot -> Client \cup {NoClient, Creating}]
  /\ n_used_ports \in 0 .. NMax
  /\ svusb \in [Client -> Slot]
  /\ life \in [Client -> {"none", "live", "deleted", "failed"}]
  /\ invalid \in [Client -> BOOLEAN]
  /\ refcnt \in [Client -> Nat]
  /\ port \in [Client -> Slot]
  /\ read \in [Client -> Client \cup {NoClient}]
  /\ cancelled \subseteq Client
  /\ work \in [Client -> Nat] /\ lost \in [Client -> Nat]
  /\ cancels \in 0 .. MaxCancels
  /\ hc \in {"idle", "creating", "io", "plugout", "invalid", "shutdown"}
  /\ hc_client \in Client \cup {NoClient}
  /\ hc_vusb \in Client \cup {NoClient} /\ hc_shut \in Client \cup {NoClient}
  /\ hc_port \in Slot
  /\ hc_todo \subseteq Port
  /\ pool \in {"intact", "overwritten", "stopped"}

Init ==
  /\ vusbs = [p \in Slot |-> NoClient]
  /\ n_used_ports = 0
  /\ svusb = [c \in Client |-> -1]
  /\ life = [c \in Client |-> "none"]
  /\ invalid = [c \in Client |-> FALSE]
  /\ refcnt = [c \in Client |-> 0]
  /\ port = [c \in Client |-> -1]
  /\ read = [c \in Client |-> NoClient] /\ cancelled = {}
  /\ work = [c \in Client |-> 0] /\ lost = [c \in Client |-> 0]
  /\ cancels = 0
  /\ hc = "idle" /\ hc_client = NoClient /\ hc_vusb = NoClient
  /\ hc_shut = NoClient /\ hc_port = -1 /\ hc_todo = {}
  /\ pool = "intact"
-----------------------------------------------------------------------------
(* References: vhci_vusb.c                                                  *)

\* get_vusb(port) returns v.
Found(p, v) == v \in Client /\ vusbs[p] = v /\ ~invalid[v]
NotFound(p) == \A v \in Client : ~Found(p, v)

Get(v) == refcnt' = [refcnt EXCEPT ![v] = refcnt[v] + 1]

\* Mutant: the first one to leave after the plug-out deletes the device.
MutLastPut(v) == invalid[v]

\* Mutant: a put from a work item does not delete the device.
MutQuietPut(v) == refcnt[v] = 1 /\ invalid[v] /\ work[v] = 0

\* put_vusb drops the last reference of a device that was plugged out.
LastPut(v) == refcnt[v] = 1 /\ invalid[v]

Put(v) ==
  /\ refcnt' = [refcnt EXCEPT ![v] = refcnt[v] - 1]
  /\ IF LastPut(v)
       THEN /\ vusbs' = [vusbs EXCEPT ![port[v]] = NoClient]
            /\ n_used_ports' = n_used_ports - 1
            /\ life' = [life EXCEPT ![v] = "deleted"]
       ELSE UNCHANGED <<vusbs, n_used_ports, life>>

\* async_put_vusb
AsyncPut(v) ==
  /\ work[v] > 0
  /\ work' = [work EXCEPT ![v] = work[v] - 1]
  /\ Put(v)
  /\ UNCHANGED <<svusb, invalid, port, reads, lost, callback, pool>>
-----------------------------------------------------------------------------
(* Plugging in: ioctl_plugin_vusb, plugin_vusb                              *)

\* get_free_port: USB 3.0 devices go to the last ports only.
FirstPort(c) == IF c \in Usb30 THEN N20 ELSE 0

\* Mutant: a device that is being plugged out leaves its port at once.
MutFreePorts(c) ==
  {p \in FirstPort(c) .. NMax - 1 : \A v \in Client : ~Found(p, v)}

FreePorts(c) == {p \in FirstPort(c) .. NMax - 1 : vusbs[p] = NoClient}

PortsLeft == n_used_ports # NMax

PlugIn(c) ==
  /\ hc = "idle"
  /\ life[c] = "none"
  /\ PortsLeft
  /\ \E p \in FreePorts(c) :
       /\ \A q \in FreePorts(c) : p <= q
       /\ vusbs' = [vusbs EXCEPT ![p] = Creating]
       /\ hc_port' = p
  /\ hc' = "creating" /\ hc_client' = c
  /\ UNCHANGED <<n_used_ports, svusb, devices, reads, items, hc_vusb, hc_shut,
                 hc_todo, pool>>

\* get_free_port has found no port and returns -1.  plugin_vusb goes on with it as an
\* index, into the memory in front of vusbs.
PlugInNoPort(c) ==
  /\ hc = "idle"
  /\ life[c] = "none"
  /\ PortsLeft
  /\ FreePorts(c) = {}
  /\ vusbs' = [vusbs EXCEPT ![-1] = Creating]
  /\ pool' = "overwritten"
  /\ hc' = "creating" /\ hc_client' = c /\ hc_port' = -1
  /\ UNCHANGED <<n_used_ports, svusb, devices, reads, items, hc_vusb, hc_shut,
                 hc_todo>>

\* What is overwritten there belongs to the allocator, and (ULONG)-1 as an index is
\* the same memory in a 32-bit build only: the machine may stop at any time.
Stop ==
  /\ pool = "overwritten"
  /\ pool' = "stopped"
  /\ UNCHANGED <<ports, devices, reads, items, callback>>

\* Mutant: forgets to count the port.
MutCountPort == UNCHANGED n_used_ports

\* n_used_ports++, whether or not the device could be created
CountPort == n_used_ports' = n_used_ports + 1

PlugInLeave ==
  /\ CountPort
  /\ hc' = "idle" /\ hc_client' = NoClient /\ hc_port' = -1
  /\ UNCHANGED <<invalid, refcnt, reads, items, hc_vusb, hc_shut, hc_todo, pool>>

\* vusb_plugin and setup_vusb have succeeded.
PlugInDone ==
  /\ hc = "creating"
  /\ vusbs' = [vusbs EXCEPT ![hc_port] = hc_client]
  /\ svusb' = [svusb EXCEPT ![hc_client] = hc_port]
  /\ port' = [port EXCEPT ![hc_client] = hc_port]
  /\ life' = [life EXCEPT ![hc_client] = "live"]
  /\ PlugInLeave

\* The device could not be created, set up or plugged in.
PlugInFailed ==
  /\ hc = "creating"
  /\ vusbs' = [vusbs EXCEPT ![hc_port] = NoClient]
  /\ life' = [life EXCEPT ![hc_client] = "failed"]
  /\ UNCHANGED <<svusb, port>>
  /\ PlugInLeave
-----------------------------------------------------------------------------
(* Reading and writing: io_read, io_write, req_read_cancelled               *)

\* A client reads and writes when its plug-in has succeeded.
PluggedIn(c) == life[c] \in {"live", "deleted"}

\* Whatever device is on the client's port is the one that is used.
IoEnter(c) ==
  /\ hc = "idle"
  /\ PluggedIn(c) /\ read[c] = NoClient
  /\ \E v \in Client : Found(svusb[c], v) /\ Get(v) /\ hc_vusb' = v
  /\ hc' = "io" /\ hc_client' = c
  /\ UNCHANGED <<ports, life, invalid, port, reads, items, hc_shut, hc_port,
                 hc_todo, pool>>

\* A read that finds nothing to send waits, if no other read does.
IoLeave ==
  /\ hc = "io"
  /\ Put(hc_vusb)
  /\ \/ UNCHANGED read
     \/ /\ \A c \in Client : read[c] # hc_vusb
        /\ read' = [read EXCEPT ![hc_client] = hc_vusb]
  /\ hc' = "idle" /\ hc_client' = NoClient /\ hc_vusb' = NoClient
  /\ UNCHANGED <<svusb, invalid, port, cancelled, cancels, items, hc_shut, hc_port,
                 hc_todo, pool>>

CancelRead(c) ==
  /\ cancels < MaxCancels
  /\ read[c] # NoClient /\ c \notin cancelled
  /\ cancelled' = cancelled \cup {c}
  /\ cancels' = cancels + 1
  /\ UNCHANGED <<ports, devices, read, items, callback, pool>>

\* The reference is dropped by a work item; without memory for one, never.
ReqReadCancelled(c) ==
  /\ hc = "idle"
  /\ c \in cancelled
  /\ cancelled' = cancelled \ {c}
  /\ read' = [read EXCEPT ![c] = NoClient]
  /\ \/ NotFound(svusb[c]) /\ UNCHANGED <<refcnt, items>>
     \/ \E v \in Client :
          /\ Found(svusb[c], v)
          /\ Get(v)
          /\ \/ work' = [work EXCEPT ![v] = work[v] + 1] /\ UNCHANGED lost
             \/ lost' = [lost EXCEPT ![v] = lost[v] + 1] /\ UNCHANGED work
  /\ UNCHANGED <<ports, life, invalid, port, cancels, callback, pool>>
-----------------------------------------------------------------------------
(* Plugging out: ioctl_plugout_vusb, ioctl_shutdown_vusb, vusb_plugout      *)

\* One port, or with a negative port number all of them.
PlugOut(P) ==
  /\ hc = "idle"
  /\ hc_todo' = {p \in P : ~NotFound(p)}
  /\ hc_todo' # {}
  /\ hc' = "plugout"
  /\ UNCHANGED <<ports, devices, reads, items, hc_client, hc_vusb, hc_shut, hc_port, pool>>

\* A client that ends shuts its device down: the device on its port, or all devices
\* if that one has none.
Shutdown(c) ==
  /\ hc = "idle"
  /\ PluggedIn(c)
  /\ \E v \in Client :
       /\ Found(svusb[c], v)
       /\ Get(v)
       /\ hc_shut' = v
       /\ hc_todo' = IF port[v] = -1 THEN {p \in Port : ~NotFound(p)} ELSE {port[v]}
  /\ hc' = IF hc_todo' = {} THEN "shutdown" ELSE "plugout"
  /\ hc_client' = c
  /\ UNCHANGED <<ports, life, invalid, port, reads, items, hc_vusb, hc_port, pool>>

\* plugout_vusb, or a turn of the loop of plugout_all_vusbs: get_vusb, then
\* vusb_plugout invalidates the device and completes the read that waits on it.
PlugOutVusb ==
  /\ hc = "plugout"
  /\ \E p \in hc_todo, v \in Client :
       /\ \A q \in hc_todo : p <= q
       /\ Found(p, v)
       /\ Get(v)
       /\ invalid' = [invalid EXCEPT ![v] = TRUE]
       /\ read' = [c \in Client |-> IF read[c] = v THEN NoClient ELSE read[c]]
       /\ hc_vusb' = v
       /\ hc_todo' = hc_todo \ {p}
  /\ hc' = "invalid"
  /\ UNCHANGED <<ports, life, port, cancelled, cancels, items, hc_client, hc_shut,
                 hc_port, pool>>

PlugOutPut ==
  /\ hc = "invalid"
  /\ Put(hc_vusb)
  /\ hc_vusb' = NoClient
  /\ hc' = CASE hc_todo # {} -> "plugout"
              [] hc_todo = {} /\ hc_shut # NoClient -> "shutdown"
              [] OTHER -> "idle"
  /\ UNCHANGED <<svusb, invalid, port, reads, items, hc_client, hc_shut, hc_port,
                 hc_todo, pool>>

\* A shutdown has a second reference to drop.
ShutdownPut ==
  /\ hc = "shutdown"
  /\ Put(hc_shut)
  /\ hc' = "idle" /\ hc_client' = NoClient /\ hc_shut' = NoClient
  /\ UNCHANGED <<svusb, invalid, port, reads, items, hc_vusb, hc_port, hc_todo, pool>>
-----------------------------------------------------------------------------
Callback ==
  \/ PlugInDone \/ PlugInFailed
  \/ IoLeave
  \/ PlugOutVusb \/ PlugOutPut \/ ShutdownPut

Running == pool # "stopped"

Next ==
  /\ Running
  /\ \/ \E c \in Client :
          \/ PlugIn(c) \/ PlugInNoPort(c) \/ Shutdown(c)
          \/ IoEnter(c) \/ CancelRead(c) \/ ReqReadCancelled(c)
          \/ AsyncPut(c)
     \/ \E P \in {Port} \cup {{p} : p \in Port} : PlugOut(P)
     \/ Callback
     \/ Stop

Spec == Init /\ [][Next]_vars

\* A callback goes on and a work item runs in the end, unless the machine stops.
Fairness ==
  WF_vars(Running /\ Callback) /\ \A v \in Client : WF_vars(Running /\ AsyncPut(v))

FairSpec == Spec /\ Fairness
-----------------------------------------------------------------------------
(* Properties                                                               *)

Holds(v) ==
  (IF hc_vusb = v THEN 1 ELSE 0) + (IF hc_shut = v THEN 1 ELSE 0) + work[v] + lost[v]

\* refcnt is a "reference count to prevent from removal while being used"
\* (vhci_dev.h:40): it is the number of callbacks and work items that use the
\* vusb, and a vusb that is used exists.
HeldIsCounted ==
  \A v \in Client : refcnt[v] = Holds(v) /\ (Holds(v) > 0 => life[v] = "live")

\* The table of ports and the devices agree: a device that exists is on its own
\* port, if it has one, and on no other, and a port names no device that was deleted.
PortTable ==
  \A v \in Client, p \in Port : vusbs[p] = v <=> life[v] = "live" /\ port[v] = p

\* n_used_ports is the number of ports in use, of the devices that were given no
\* port and of the plug-ins that failed: each failed plug-in leaves it one too high
\* for ever, and it is never too low.
PortsCounted ==
  n_used_ports = Cardinality({p \in Port : vusbs[p] \in Client})
    + Cardinality({c \in Client : life[c] = "failed" \/ (life[c] = "live" /\ port[c] = -1)})

\* A device that was plugged out is deleted and its port is free again, when
\* the work items that still hold it have run, no reference was lost and the
\* machine has not stopped.
PluggedOutIsDeleted ==
  \A v \in Client : invalid[v] /\ lost[v] = 0 ~> life[v] = "deleted" \/ ~Running

\* The client whose device is gone is "already detached" (vhci_ioctl.c:176): its
\* shutdown plugs out no device of another client.
ShutdownIsOwn ==
  hc = "shutdown" => hc_shut = hc_client

\* That get_free_port returns no port will "Never happen" (vhci_plugin.c:282).
AlwaysAPort ==
  hc = "creating" => hc_port \in Port
=============================================================================
