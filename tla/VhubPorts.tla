----------------------------- MODULE VhubPorts -----------------------------
(***************************************************************************)
(* The virtual root hub of the WDM driver driver/vhci: which virtual USB   *)
(* devices (vpdos) it has, on which ports, and what the PnP manager is     *)
(* told about them.                                                        *)
(*                                                                         *)
(* A client opens the host controller and plugs a device in                *)
(* (vhci_plugin.c); closing the file unplugs it (vhci.c), and so do the    *)
(* unplug request, an ejection and a query for removal.  The hub keeps its *)
(* list and its counters under vhub->Mutex (vhci_vhub.c); the PnP manager  *)
(* asks for the plugged devices (vhci_pnp_relations.c), starts, stops and  *)
(* removes them (vhci_pnp.c, vhci_pnp_remove.c).                           *)
(*                                                                         *)
(* One step is one critical section of vhub->Mutex, or the code between    *)
(* two of them.  What removal does to URBs and reads is in VhciUrb.        *)
(* n_refs is counted up and down and read by nobody; it is left out.  The  *)
(* hub itself is not removed.                                              *)
(***************************************************************************)
EXTENDS Integers, FiniteSets

CONSTANTS
  Vpdo,        \* device objects that may be created; none is used twice
  NoVpdo,      \* the NULL vpdo
  Fo,          \* file objects of the host controller
  NoFo,        \* the NULL file object
  Client,      \* threads that send IOCTL_USBIP_VHCI_UNPLUG_HARDWARE
  NMaxPorts,   \* vhub->n_max_ports
  Stoppable,   \* devices that the PnP manager may stop to rebalance resources
  Parties      \* who may be there: sets of file objects and clients

ASSUME ConstantsAssumption ==
  /\ IsFiniteSet(Vpdo)
  /\ NoVpdo \notin Vpdo /\ NoFo \notin Fo
  /\ Client \cap Fo = {}
  /\ NMaxPorts \in Nat
  /\ Stoppable \subseteq Vpdo
  /\ Parties \subseteq SUBSET (Client \cup Fo)

Ports == 0 .. NMaxPorts - 1

PnpState == {"NotStarted", "Started", "StopPending", "Stopped", "RemovePending",
             "SurpriseRemovePending", "Deleted"}

VARIABLES
  head_vpdo, n_vpdos, n_vpdos_plugged,  \* the vhub; the list as a set
  at,         \* the place of each vpdo in that list, 0 for none
  port, plugged, fo,                    \* the vpdos
  DevicePnPState, PreviousPnPState,
  obj,        \* the device object: not there yet, there, or deleted
  FsContext,  \* the vpdo of each file object
  closed,     \* file objects that have been closed, or were never opened, and
              \* clients that are not there
  pl,         \* vhci_plugin_vpdo that makes a vpdo: its step, the file object it
              \* is for and the port it has chosen
  cl,         \* cleanup_vpdo of a file: its step and the vpdo it has read from
              \* FsContext
  rm,         \* the end of invalidate_vpdo: its step and the file object it has
              \* read from the vpdo
  un,         \* vhci_unplug_port of a client or of a cleanup: its step, the port
              \* it looks for or the vpdo it has found
  node,       \* what the PnP manager knows of a vpdo
  invalid,    \* IoInvalidateDeviceRelations was called
  shared      \* history: two devices of the hub have had one port

hub == <<head_vpdo, n_vpdos, n_vpdos_plugged, at, shared>>
pnp == <<DevicePnPState, PreviousPnPState>>
files == <<FsContext, closed, cl, rm>>
vars == <<hub, port, plugged, fo, pnp, obj, files, pl, un, node, invalid>>

Idle == <<"idle", NoVpdo>>
NoPlugin == <<"idle", NoFo, 0>>
NoRemoval == <<"idle", NoFo>>

TypeOK ==
  /\ head_vpdo \subseteq Vpdo
  /\ n_vpdos \in Nat /\ n_vpdos_plugged \in Nat
  /\ at \in [Vpdo -> Nat]
  /\ port \in [Vpdo -> Nat]
  /\ plugged \in [Vpdo -> BOOLEAN]
  /\ fo \in [Vpdo -> Fo \cup {NoFo}]
  /\ DevicePnPState \in [Vpdo -> PnpState]
  /\ PreviousPnPState \in [Vpdo -> PnpState]
  /\ obj \in [Vpdo -> {"none", "live", "deleted"}]
  /\ FsContext \in [Fo -> Vpdo \cup {NoVpdo}]
  /\ closed \subseteq Client \cup Fo
  /\ pl \in [Vpdo -> {NoPlugin} \cup ({"created", "claimed", "initialized"} \X Fo \X Nat)]
  /\ cl \in [Fo -> {Idle} \cup ({"fo", "context", "test"} \X Vpdo)]
  /\ rm \in [Vpdo -> {NoRemoval} \cup ({"context", "fo", "delete"} \X (Fo \cup {NoFo}))]
  /\ un \in [Client \cup Fo -> {Idle} \cup ({"find"} \X Nat) \cup ({"mark"} \X Vpdo)]
  /\ node \in [Vpdo -> {"unknown", "present", "failed", "missing", "removing",
                        "gone"}]
  /\ invalid \in BOOLEAN /\ shared \in BOOLEAN

Init ==
  /\ head_vpdo = {} /\ n_vpdos = 0 /\ n_vpdos_plugged = 0
  /\ at = [v \in Vpdo |-> 0]
  /\ port = [v \in Vpdo |-> 0]
  /\ plugged = [v \in Vpdo |-> FALSE]
  /\ fo = [v \in Vpdo |-> NoFo]
  /\ DevicePnPState = [v \in Vpdo |-> "NotStarted"]
  /\ PreviousPnPState = [v \in Vpdo |-> "NotStarted"]
  /\ obj = [v \in Vpdo |-> "none"]
  /\ FsContext = [f \in Fo |-> NoVpdo]
  /\ \E P \in Parties : closed = (Client \cup Fo) \ P
  /\ pl = [v \in Vpdo |-> NoPlugin]
  /\ cl = [f \in Fo |-> Idle]
  /\ rm = [v \in Vpdo |-> NoRemoval]
  /\ un = [t \in Client \cup Fo |-> Idle]
  /\ node = [v \in Vpdo |-> "unknown"]
  /\ invalid = FALSE /\ shared = FALSE
-----------------------------------------------------------------------------
(* The hub: vhci_vhub.c                                                     *)

\* find_vpdo returns v for port p: the first one in the list.
FindVpdo(p, v) ==
  /\ v \in head_vpdo /\ port[v] = p
  /\ \A w \in head_vpdo : port[w] = p => at[v] <= at[w]

\* vhub_get_empty_port returns p.
EmptyPort(p) ==
  /\ \A v \in head_vpdo : port[v] # p
  /\ \A q \in Ports : q < p => \E v \in head_vpdo : port[v] = q

\* Mutant: the new device is not counted as plugged.
MutAttachVpdo(v) ==
  /\ head_vpdo' = head_vpdo \cup {v}
  /\ at' = [at EXCEPT ![v] = n_vpdos + 1]
  /\ n_vpdos' = n_vpdos + 1
  /\ shared' = (shared \/ \E w \in head_vpdo : port[w] = port[v])
  /\ UNCHANGED n_vpdos_plugged

\* vhub_attach_vpdo
AttachVpdo(v) ==
  /\ head_vpdo' = head_vpdo \cup {v}
  /\ at' = [at EXCEPT ![v] = n_vpdos + 1]
  /\ n_vpdos' = n_vpdos + 1
  /\ n_vpdos_plugged' = IF plugged[v] THEN n_vpdos_plugged + 1
                                      ELSE n_vpdos_plugged
  /\ shared' = (shared \/ \E w \in head_vpdo : port[w] = port[v])

\* vhub_detach_vpdo
DetachVpdo(v) ==
  /\ head_vpdo' = head_vpdo \ {v}
  /\ at' = [w \in Vpdo |-> IF w = v THEN 0 ELSE
                              IF at[w] > at[v] THEN at[w] - 1 ELSE at[w]]
  /\ n_vpdos' = n_vpdos - 1
  /\ UNCHANGED <<n_vpdos_plugged, shared>>

\* Mutant: does not call the PnP manager.
MutMarkUnpluggedQuietly(V) ==
  /\ plugged' = [v \in Vpdo |-> plugged[v] /\ v \notin V]
  /\ n_vpdos_plugged' = n_vpdos_plugged - Cardinality({v \in V : plugged[v]})
  /\ UNCHANGED <<head_vpdo, n_vpdos, at, shared, invalid>>

\* mark_unplugged_vpdo, for every vpdo of V
MarkUnplugged(V) ==
  LET U == {v \in V : plugged[v]} IN
  /\ plugged' = [v \in Vpdo |-> plugged[v] /\ v \notin V]
  /\ n_vpdos_plugged' = n_vpdos_plugged - Cardinality(U)
  /\ invalid' = (invalid \/ U # {})
  /\ UNCHANGED <<head_vpdo, n_vpdos, at, shared>>
-----------------------------------------------------------------------------
(* Plug-in: vhci_plugin_vpdo                                                *)

PluggingIn(v) == pl[v] # NoPlugin

\* The port is chosen and the device object created, one of those that are left:
\* which of them is a matter of names.
PluginCreate(v, f) ==
  /\ obj[v] = "none" /\ f \notin closed
  /\ v = (CHOOSE w \in Vpdo : obj[w] = "none")
  /\ \E p \in Ports : EmptyPort(p) /\ pl' = [pl EXCEPT ![v] = <<"created", f, p>>]
  /\ obj' = [obj EXCEPT ![v] = "live"]
  /\ UNCHANGED <<hub, port, plugged, fo, pnp, files, un, node, invalid>>

\* The file object takes one vpdo; "you can't plugin again".
PluginClaim(v) ==
  /\ pl[v][1] = "created"
  /\ LET f == pl[v][2] IN
     \/ /\ FsContext[f] = NoVpdo
        /\ FsContext' = [FsContext EXCEPT ![f] = v]
        /\ pl' = [pl EXCEPT ![v] = <<"claimed", f, pl[v][3]>>]
        /\ UNCHANGED obj
     \/ /\ FsContext[f] # NoVpdo
        /\ obj' = [obj EXCEPT ![v] = "deleted"]
        /\ pl' = [pl EXCEPT ![v] = NoPlugin]
        /\ UNCHANGED FsContext
  /\ UNCHANGED <<hub, port, plugged, fo, pnp, closed, cl, rm, un, node, invalid>>

\* The fields of the vpdo are set, vhci_init_vpdo up to vhub_attach_vpdo.
PluginInit(v) ==
  /\ pl[v][1] = "claimed"
  /\ port' = [port EXCEPT ![v] = pl[v][3]]
  /\ fo' = [fo EXCEPT ![v] = pl[v][2]]
  /\ plugged' = [plugged EXCEPT ![v] = TRUE]
  /\ pl' = [pl EXCEPT ![v] = <<"initialized", pl[v][2], pl[v][3]>>]
  /\ UNCHANGED <<hub, pnp, obj, files, un, node, invalid>>

\* vhub_attach_vpdo, and the PnP manager is called.
PluginAttach(v) ==
  /\ pl[v][1] = "initialized"
  /\ AttachVpdo(v)
  /\ invalid' = TRUE
  /\ pl' = [pl EXCEPT ![v] = NoPlugin]
  /\ UNCHANGED <<port, plugged, fo, pnp, obj, files, un, node>>

Plugin(v) == PluginClaim(v) \/ PluginInit(v) \/ PluginAttach(v)
-----------------------------------------------------------------------------
(* Unplugging: vhci_unplug_port, cleanup_vpdo                               *)

\* IOCTL_USBIP_VHCI_UNPLUG_HARDWARE for a port where there is a device:
\* vhub_find_vpdo
UnplugPort(t, p) ==
  /\ un[t] = Idle /\ t \notin closed
  /\ \E v \in Vpdo : FindVpdo(p, v) /\ un' = [un EXCEPT ![t] = <<"mark", v>>]
  /\ UNCHANGED <<hub, port, plugged, fo, pnp, obj, files, pl, node, invalid>>

\* ... and for all of them: vhub_mark_unplugged_all_vpdos
UnplugAll(t) ==
  /\ un[t] = Idle /\ t \notin closed
  /\ MarkUnplugged(head_vpdo)
  /\ UNCHANGED <<port, fo, pnp, obj, files, pl, un, node>>

\* vhub_find_vpdo, for a cleanup
UnplugFind(t) ==
  /\ un[t][1] = "find"
  /\ \/ \E v \in Vpdo : /\ FindVpdo(un[t][2], v)
                        /\ un' = [un EXCEPT ![t] = <<"mark", v>>]
     \/ /\ \A v \in head_vpdo : port[v] # un[t][2]
        /\ un' = [un EXCEPT ![t] = Idle]
  /\ UNCHANGED <<hub, port, plugged, fo, pnp, obj, files, pl, node, invalid>>

\* vhub_mark_unplugged_vpdo
UnplugMark(t) ==
  /\ un[t][1] = "mark"
  /\ MarkUnplugged({un[t][2]})
  /\ un' = [un EXCEPT ![t] = Idle]
  /\ UNCHANGED <<port, fo, pnp, obj, files, pl, node>>

\* The last handle of a file is closed: cleanup_vpdo reads FsContext.  The
\* clients wait for their plug-in before they close.
Cleanup(f) ==
  /\ f \notin closed
  /\ \A v \in Vpdo : pl[v][2] # f
  /\ closed' = closed \cup {f}
  /\ cl' = [cl EXCEPT ![f] = IF FsContext[f] = NoVpdo THEN Idle
                                                     ELSE <<"fo", FsContext[f]>>]
  /\ UNCHANGED <<hub, port, plugged, fo, pnp, obj, FsContext, rm, pl, un, node,
                 invalid>>

\* The device forgets the file ...
CleanupFo(f) ==
  /\ cl[f][1] = "fo"
  /\ fo' = [fo EXCEPT ![cl[f][2]] = NoFo]
  /\ cl' = [cl EXCEPT ![f] = <<"context", cl[f][2]>>]
  /\ UNCHANGED <<hub, port, plugged, pnp, obj, FsContext, closed, rm, pl, un, node,
                 invalid>>

\* ... then the file the device ...
CleanupContext(f) ==
  /\ cl[f][1] = "context"
  /\ FsContext' = [FsContext EXCEPT ![f] = NoVpdo]
  /\ cl' = [cl EXCEPT ![f] = <<"test", cl[f][2]>>]
  /\ UNCHANGED <<hub, port, plugged, fo, pnp, obj, closed, rm, pl, un, node, invalid>>

\* Mutant: the device stays plugged in.
MutCleanupTest(f) ==
  /\ cl[f][1] = "test"
  /\ cl' = [cl EXCEPT ![f] = Idle]
  /\ UNCHANGED <<hub, port, plugged, fo, pnp, obj, FsContext, closed, rm, pl, un, node,
                 invalid>>

\* ... and it is unplugged, by its port, if it looks plugged in without the lock.
CleanupTest(f) ==
  /\ cl[f][1] = "test"
  /\ LET v == cl[f][2] IN
     un' = [un EXCEPT ![f] = IF plugged[v] THEN <<"find", port[v]>> ELSE Idle]
  /\ cl' = [cl EXCEPT ![f] = Idle]
  /\ UNCHANGED <<hub, port, plugged, fo, pnp, obj, FsContext, closed, rm, pl, node,
                 invalid>>

\* The rest of cleanup_vpdo, which holds no lock.
CleanupVpdo(f) == CleanupFo(f) \/ CleanupContext(f) \/ CleanupTest(f)
-----------------------------------------------------------------------------
(* PnP: vhci_pnp.c, vhci_pnp_relations.c, vhci_pnp_remove.c.  When the PnP  *)
(* manager sends which request is external.                                 *)

\* SET_NEW_PNP_STATE
SetNewPnpState(v, s) ==
  /\ PreviousPnPState' = [PreviousPnPState EXCEPT ![v] = DevicePnPState[v]]
  /\ DevicePnPState' = [DevicePnPState EXCEPT ![v] = s]

\* RESTORE_PREVIOUS_PNP_STATE
RestorePnpState(v) ==
  /\ DevicePnPState' = [DevicePnPState EXCEPT ![v] = PreviousPnPState[v]]
  /\ UNCHANGED PreviousPnPState

\* The PnP manager knows the device and has not given it up.
Present(v) == node[v] = "present"

\* get_bus_relations_vhub: the plugged devices are reported; one that is no
\* longer among them is missing.
GetBusRelations ==
  /\ invalid
  /\ invalid' = FALSE
  /\ node' = [v \in Vpdo |->
                IF v \in head_vpdo /\ plugged[v]
                  THEN IF node[v] = "unknown" THEN "present" ELSE node[v]
                  ELSE IF node[v] = "present" THEN "missing" ELSE node[v]]
  /\ UNCHANGED <<hub, port, plugged, fo, pnp, obj, files, pl, un>>

\* pnp_start_device: start_vpdo or the driver above may fail.
Start(v) ==
  /\ Present(v) /\ DevicePnPState[v] \in {"NotStarted", "Stopped"}
  /\ \/ SetNewPnpState(v, "Started") /\ UNCHANGED node
     \/ node' = [node EXCEPT ![v] = "failed"] /\ UNCHANGED pnp
  /\ UNCHANGED <<hub, port, plugged, fo, obj, files, pl, un, invalid>>

\* pnp_query_stop_device, pnp_stop_device, pnp_cancel_stop_device
Stop(v) ==
  /\ \/ /\ Present(v) /\ v \in Stoppable /\ DevicePnPState[v] = "Started"
        /\ SetNewPnpState(v, "StopPending")
     \/ /\ DevicePnPState[v] = "StopPending"
        /\ SetNewPnpState(v, "Stopped") \/ RestorePnpState(v)
  /\ UNCHANGED <<hub, port, plugged, fo, obj, files, pl, un, node, invalid>>

\* pnp_query_remove_device: "vpdo cannot be removed"
QueryRemove(v) ==
  /\ Present(v) /\ DevicePnPState[v] \in {"Started", "NotStarted"}
  /\ MarkUnplugged({v})
  /\ SetNewPnpState(v, "RemovePending")
  /\ UNCHANGED <<port, fo, obj, files, pl, un, node>>

\* pnp_cancel_remove_device
CancelRemove(v) ==
  /\ DevicePnPState[v] = "RemovePending"
  /\ RestorePnpState(v)
  /\ UNCHANGED <<hub, port, plugged, fo, obj, files, pl, un, node, invalid>>

\* process_pnp_vpdo, IRP_MN_EJECT
Eject(v) ==
  /\ Present(v)
  /\ MarkUnplugged({v})
  /\ UNCHANGED <<port, fo, pnp, obj, files, pl, un, node>>

\* pnp_surprise_removal, of a device that had been started
SurpriseRemoval(v) ==
  /\ node[v] \in {"missing", "failed"}
  /\ DevicePnPState[v] \in {"Started", "Stopped"}
  /\ SetNewPnpState(v, "SurpriseRemovePending")
  /\ UNCHANGED <<hub, port, plugged, fo, obj, files, pl, un, node, invalid>>

\* pnp_remove_device and invalidate_vpdo, up to vhub_detach_vpdo
Remove(v) ==
  /\ node[v] \in {"present", "missing", "failed"}
  /\ \/ DevicePnPState[v] \in {"RemovePending", "SurpriseRemovePending"}
     \/ DevicePnPState[v] = "NotStarted" /\ ~Present(v)
  /\ SetNewPnpState(v, "Deleted")
  /\ DetachVpdo(v)
  /\ node' = [node EXCEPT ![v] = "removing"]
  /\ UNCHANGED <<port, plugged, fo, obj, files, pl, un, invalid>>

\* The end of invalidate_vpdo, which holds no lock either: is there a file?
InvalidateTest(v) ==
  /\ node[v] = "removing" /\ rm[v] = NoRemoval
  /\ rm' = [rm EXCEPT ![v] = <<IF fo[v] = NoFo THEN "delete" ELSE "context", fo[v]>>]
  /\ UNCHANGED <<hub, port, plugged, fo, pnp, obj, FsContext, closed, cl, pl, un, node,
                 invalid>>

\* Mutant: the file object keeps the vpdo.
MutInvalidateContext(v) ==
  /\ rm[v][1] = "context"
  /\ rm' = [rm EXCEPT ![v] = <<"fo", rm[v][2]>>]
  /\ UNCHANGED <<hub, port, plugged, fo, pnp, obj, FsContext, closed, cl, pl, un, node,
                 invalid>>

\* The file forgets the device.  vpdo->fo may be NULL again by now: a build that
\* reads it a second time stops the machine here (FoNotLost), one that has kept it
\* goes on like this.
InvalidateContext(v) ==
  /\ rm[v][1] = "context"
  /\ FsContext' = [FsContext EXCEPT ![rm[v][2]] = NoVpdo]
  /\ rm' = [rm EXCEPT ![v] = <<"fo", rm[v][2]>>]
  /\ UNCHANGED <<hub, port, plugged, fo, pnp, obj, closed, cl, pl, un, node, invalid>>

\* The device forgets the file.
InvalidateFo(v) ==
  /\ rm[v][1] = "fo"
  /\ fo' = [fo EXCEPT ![v] = NoFo]
  /\ rm' = [rm EXCEPT ![v] = <<"delete", rm[v][2]>>]
  /\ UNCHANGED <<hub, port, plugged, pnp, obj, FsContext, closed, cl, pl, un, node,
                 invalid>>

\* The rest of remove_device, with IoDeleteDevice
RemoveDevice(v) ==
  /\ rm[v][1] = "delete"
  /\ obj' = [obj EXCEPT ![v] = "deleted"]
  /\ node' = [node EXCEPT ![v] = "gone"]
  /\ rm' = [rm EXCEPT ![v] = NoRemoval]
  /\ UNCHANGED <<hub, port, plugged, fo, pnp, FsContext, closed, cl, pl, un, invalid>>

\* A removal that the PnP manager has begun goes on to its end.
Removal(v) ==
  \/ SurpriseRemoval(v) \/ Remove(v) \/ RemoveDevice(v)
  \/ InvalidateTest(v) \/ InvalidateContext(v) \/ InvalidateFo(v)
-----------------------------------------------------------------------------
Next ==
  \/ \E v \in Vpdo :
       \/ \E f \in Fo : PluginCreate(v, f)
       \/ Plugin(v)
       \/ Start(v) \/ Stop(v) \/ QueryRemove(v) \/ CancelRemove(v) \/ Eject(v)
       \/ Removal(v)
  \/ \E t \in Client : UnplugAll(t) \/ \E p \in Ports : UnplugPort(t, p)
  \/ \E t \in Client \cup Fo : UnplugFind(t) \/ UnplugMark(t)
  \/ \E f \in Fo : Cleanup(f) \/ CleanupVpdo(f)
  \/ GetBusRelations

Spec == Init /\ [][Next]_vars

(***************************************************************************)
(* The PnP manager asks for the bus relations once they are invalid,       *)
(* decides what it has queried and carries a removal through.  Nobody has  *)
(* to plug in, unplug or close; a thread inside the driver may stop.       *)
(***************************************************************************)
Fairness ==
  /\ \A v \in Vpdo : /\ WF_vars(Removal(v))
                     /\ WF_vars(Stop(v) /\ DevicePnPState[v] = "StopPending")
  /\ WF_vars(GetBusRelations)

FairSpec == Spec /\ Fairness
-----------------------------------------------------------------------------
(* Properties                                                               *)

Plugged == {v \in head_vpdo : plugged[v]}

\* The buffer that get_bus_relations_vhub allocates for n_vpdos_plugged devices
\* has room for all it writes, those that are plugged in, whatever order devices
\* are plugged in, unplugged twice and removed while still plugged in.
RelationsFit == Cardinality(Plugged) <= n_vpdos_plugged

\* "unique port number of the device on the bus" (vhci_dev.h:156): no two devices
\* of the hub have the same port.  Not so: of two clients that plug in at the same
\* time both may choose a port before either has taken it.
UniquePort ==
  \A v, w \in head_vpdo : port[v] = port[w] => v = w

\* A device does not outlive its client: while it is plugged in its file is open,
\* or cleanup_vpdo is about to unplug it, whatever removals write to the same
\* fields meanwhile.  It is found by its port and not through the file: that is
\* why nothing is said once two devices have had one port (UniquePort).
ClosedIsUnplugged ==
  ~shared =>
    \A v \in Plugged :
      fo[v] = NoFo => \E f \in Fo : \/ un[f] \in {<<"find", port[v]>>, <<"mark", v>>}
                                    \/ cl[f] \in {<<"context", v>>, <<"test", v>>}

\* Requests that come through a file never meet a device object that was deleted,
\* though plug-in, cleanup and removal write FsContext and fo one after the other
\* without a lock: the removal has taken the device from the file first.  The one
\* exception is a file that is being closed, between the two writes of
\* cleanup_vpdo: the removal does not find it any more.
ContextLive ==
  \A f \in Fo : FsContext[f] # NoVpdo /\ cl[f][1] # "context" =>
    /\ obj[FsContext[f]] = "live"
    /\ ~PluggingIn(FsContext[f]) => fo[FsContext[f]] = f

\* cleanup_vpdo works on a device object that is there.  Not so: the removal does
\* not wait for it.
CleanupOnLive == \A f \in Fo : cl[f] # Idle => obj[cl[f][2]] = "live"

\* vpdo->fo, tested by invalidate_vpdo, is not NULL when it is used.  Not so: the
\* cleanup of the file clears it in between.
FoNotLost == \A v \in Vpdo : rm[v][1] = "context" => fo[v] # NoFo

\* The cleanup of a file unplugs no device of another client.  Not so: its own
\* device may be removed, and the port taken, before it looks at the port.
CleanupHitsOwn ==
  \A f \in closed \cap Fo, g \in Fo \ closed :
    un[f][1] = "mark" => FsContext[g] # un[f][2]

\* Every way of unplugging makes the PnP manager ask again, so that a device it
\* knows is removed and its port becomes free.
PortFreed ==
  \A v \in Vpdo : Present(v) /\ ~plugged[v] ~> v \notin head_vpdo
=============================================================================
