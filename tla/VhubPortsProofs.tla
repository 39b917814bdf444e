-------------------------- MODULE VhubPortsProofs --------------------------
(***************************************************************************)
(* Proofs about VhubPorts, for any number of devices, files, clients and   *)
(* ports.                                                                  *)
(*                                                                         *)
(* RelationsFit is not inductive: detaching a device does not touch        *)
(* n_vpdos_plugged.  The counter is exactly the number of devices that     *)
(* have been put into the list and not been marked since, those that have  *)
(* left the list included (Counts).  That needs to know that nobody marks  *)
(* a device before it is in the list (Fresh).                              *)
(***************************************************************************)
EXTENDS VhubPorts, FiniteSetTheorems, TLAPS

\* TypeOK but for the two counters, whose type follows from Counts.
Types ==
  /\ head_vpdo \subseteq Vpdo
  /\ at \in [Vpdo -> Nat]
  /\ port \in [Vpdo -> Nat]
  /\ plugged \in [Vpdo -> BOOLEAN]
  /\ fo \in [Vpdo -> Fo \cup {NoFo}]
  /\ DevicePnPState \in [Vpdo -> PnpState]
  /\ PreviousPnPState \in [Vpdo -> PnpState]
  /\ obj \in [Vpdo -> {"none", "live", "deleted"}]
  /\ FsContext \in [Fo -> Vpdo \cup {NoVpdo}]
  /\ closed \subseteq Client \cup Fo
  /\ pl \in [Vpdo -> {NoPlugin} \cup ({"created", "claimed", "initialized"} \X Fo \X Nat)]
  /\ cl \in [Fo -> {Idle} \cup ({"fo", "context", "test"} \X Vpdo)]
  /\ rm \in [Vpdo -> {NoRemoval} \cup ({"context", "fo", "delete"} \X (Fo \cup {NoFo}))]
  /\ un \in [Client \cup Fo -> {Idle} \cup ({"find"} \X Nat) \cup ({"mark"} \X Vpdo)]
  /\ node \in [Vpdo -> {"unknown", "present", "failed", "missing", "removing",
                        "gone"}]
  /\ invalid \in BOOLEAN /\ shared \in BOOLEAN

\* A device that is not in the list yet: nobody else knows of it.
NotYet(v) == obj[v] = "none" \/ PluggingIn(v)

Fresh ==
  \A v \in Vpdo :
    /\ NotYet(v) => /\ v \notin head_vpdo
                    /\ node[v] = "unknown" /\ rm[v] = NoRemoval
                    /\ \A t \in Client \cup Fo : un[t] # <<"mark", v>>
    /\ obj[v] = "none" => pl[v] = NoPlugin
    /\ obj[v] = "none" \/ pl[v][1] \in {"created", "claimed"} => ~plugged[v]

\* What the PnP manager may remove is in the list.
Known ==
  \A v \in Vpdo : node[v] \in {"present", "missing", "failed"} => v \in head_vpdo

\* Devices that have been counted as plugged and not been marked since.
Counted == {v \in Vpdo : plugged[v] /\ ~NotYet(v)}

Counts ==
  /\ n_vpdos = Cardinality(head_vpdo)
  /\ n_vpdos_plugged = Cardinality(Counted)

HubInv == Types /\ Fresh /\ Known /\ Counts

\* The list and the counted devices are finitely many, so the counters are
\* natural numbers.
LEMMA Finite ==
  ASSUME Types, Counts
  PROVE  /\ IsFiniteSet(head_vpdo) /\ IsFiniteSet(Counted)
         /\ n_vpdos \in Nat /\ n_vpdos_plugged \in Nat
<1>1. head_vpdo \subseteq Vpdo /\ Counted \subseteq Vpdo
  BY DEF Types, Counted
<1>2. IsFiniteSet(Vpdo)
  BY ConstantsAssumption
<1>3. IsFiniteSet(head_vpdo) /\ IsFiniteSet(Counted)
  BY <1>1, <1>2, FS_Subset
<1> QED
  BY <1>3, FS_CardinalityType DEF Counts

\* The hub starts empty: vhci_pnp_add.c.
LEMMA InitHubInv == Init => HubInv
<1> SUFFICES ASSUME Init PROVE HubInv
  OBVIOUS
<1>1. Types
  BY DEF Init, Types, PnpState, NoPlugin, NoRemoval, Idle
<1>2. Fresh /\ Known
  BY DEF Init, Fresh, Known, NotYet, PluggingIn, NoPlugin, NoRemoval, Idle
<1>3. head_vpdo = {} /\ Counted = {}
  BY DEF Init, Counted
<1>4. Counts
  BY <1>3, FS_EmptySet DEF Init, Counts
<1> QED
  BY <1>1, <1>2, <1>4 DEF HubInv

\* What a step of a plug-in finds in its locals.
LEMMA PluginLocals ==
  ASSUME Types, NEW v \in Vpdo, pl[v] # NoPlugin
  PROVE  /\ pl[v][1] \in {"created", "claimed", "initialized"}
         /\ pl[v][2] \in Fo /\ pl[v][3] \in Nat
         /\ pl[v] = <<pl[v][1], pl[v][2], pl[v][3]>>
<1>1. pl[v] \in {"created", "claimed", "initialized"} \X Fo \X Nat
  BY DEF Types
<1> QED
  BY <1>1

\* A plug-in that is at some step is not idle.
LEMMA PluginStep ==
  ASSUME NEW v \in Vpdo, pl[v][1] \in {"created", "claimed", "initialized"}
  PROVE  PluggingIn(v)
BY DEF PluggingIn, NoPlugin

\* What a step of a cleanup finds in its locals.
LEMMA CleanupLocals ==
  ASSUME Types, NEW f \in Fo, cl[f] # Idle
  PROVE  /\ cl[f][1] \in {"fo", "context", "test"} /\ cl[f][2] \in Vpdo
         /\ cl[f] = <<cl[f][1], cl[f][2]>>
<1>1. cl[f] \in {"fo", "context", "test"} \X Vpdo
  BY DEF Types
<1> QED
  BY <1>1

\* A cleanup that is at some step is not idle.
LEMMA CleanupStep ==
  ASSUME NEW f \in Fo, cl[f][1] \in {"fo", "context", "test"}
  PROVE  cl[f] # Idle
BY DEF Idle

\* What a step of a removal finds in its locals.
LEMMA RemovalLocals ==
  ASSUME Types, NEW v \in Vpdo, rm[v][1] \in {"context", "fo", "delete"}
  PROVE  rm[v] # NoRemoval /\ rm[v][2] \in Fo \cup {NoFo}
<1>1. rm[v] # NoRemoval
  BY DEF NoRemoval
<1>2. rm[v] \in {"context", "fo", "delete"} \X (Fo \cup {NoFo})
  BY <1>1 DEF Types
<1> QED
  BY <1>1, <1>2

\* The fields keep their types.
LEMMA TypesStep ==
  ASSUME Types, n_vpdos \in Nat, [Next]_vars
  PROVE  Types'
<1>1. CASE UNCHANGED vars
  BY <1>1 DEF Types, vars, hub, pnp, files
<1>2. ASSUME NEW v \in Vpdo, NEW f \in Fo, PluginCreate(v, f)
      PROVE  Types'
  <2>1. PICK p \in Ports : pl' = [pl EXCEPT ![v] = <<"created", f, p>>]
    BY <1>2 DEF PluginCreate
  <2>2. p \in Nat
    BY ConstantsAssumption DEF Ports
  <2>3. pl' \in [Vpdo -> {NoPlugin} \cup ({"created", "claimed", "initialized"} \X Fo \X Nat)]
    BY <2>1, <2>2 DEF Types
  <2> QED
    BY <1>2, <2>3 DEF PluginCreate, Types, hub, pnp, files
<1>3. ASSUME NEW v \in Vpdo, Plugin(v)
      PROVE  Types'
  <2>1. pl[v] # NoPlugin
    BY <1>3, PluginStep DEF Plugin, PluginClaim, PluginInit, PluginAttach, PluggingIn
  <2>2. pl[v][2] \in Fo /\ pl[v][3] \in Nat
    BY <2>1, PluginLocals
  <2>3. pl' \in [Vpdo -> {NoPlugin} \cup ({"created", "claimed", "initialized"} \X Fo \X Nat)]
    BY <1>3, <2>2 DEF Plugin, PluginClaim, PluginInit, PluginAttach, Types
  <2>4. CASE PluginClaim(v)
    BY SMTT(30), <2>2, <2>3, <2>4 DEF PluginClaim, Types, hub, pnp, files
  <2>5. CASE PluginInit(v)
    BY <2>2, <2>3, <2>5 DEF PluginInit, Types, hub, pnp, files
  <2>6. CASE PluginAttach(v)
    BY <2>3, <2>6 DEF PluginAttach, AttachVpdo, Types, pnp, files
  <2> QED
    BY <1>3, <2>4, <2>5, <2>6 DEF Plugin
<1>4. ASSUME NEW v \in Vpdo, Start(v) \/ Stop(v) \/ CancelRemove(v)
      PROVE  Types'
  BY SMTT(30), <1>4 DEF Start, Stop, CancelRemove, SetNewPnpState, RestorePnpState, Types,
              PnpState, hub, pnp, files
<1>5. ASSUME NEW v \in Vpdo, QueryRemove(v) \/ Eject(v)
      PROVE  Types'
  <2>1. CASE QueryRemove(v)
    <3>1. plugged' \in [Vpdo -> BOOLEAN] /\ invalid' \in BOOLEAN
      BY <2>1 DEF QueryRemove, MarkUnplugged
    <3> QED
      BY <2>1, <3>1 DEF QueryRemove, MarkUnplugged, SetNewPnpState, Types, PnpState,
                        files
  <2>2. CASE Eject(v)
    BY <2>2 DEF Eject, MarkUnplugged, Types, pnp, files
  <2> QED
    BY <1>5, <2>1, <2>2
<1>6. ASSUME NEW v \in Vpdo, Removal(v)
      PROVE  Types'
  <2>1. CASE SurpriseRemoval(v)
    BY <2>1 DEF SurpriseRemoval, SetNewPnpState, Types, PnpState, hub, files
  <2>2. CASE Remove(v)
    <3>1. at' \in [Vpdo -> Nat]
      BY <2>2 DEF Remove, DetachVpdo, Types
    <3> QED
      BY <2>2, <3>1 DEF Remove, DetachVpdo, SetNewPnpState, Types, PnpState, files
  <2>3. CASE RemoveDevice(v)
    BY <2>3 DEF RemoveDevice, Types, hub, pnp
  <2>4. CASE InvalidateTest(v)
    BY <2>4 DEF InvalidateTest, Types, hub, pnp
  <2>5. CASE InvalidateContext(v)
    <3>1. rm[v][2] \in Fo \cup {NoFo}
      BY <2>5, RemovalLocals DEF InvalidateContext
    <3> QED
      BY <2>5, <3>1 DEF InvalidateContext, Types, hub, pnp
  <2>6. CASE InvalidateFo(v)
    <3>1. rm[v][2] \in Fo \cup {NoFo}
      BY <2>6, RemovalLocals DEF InvalidateFo
    <3> QED
      BY <2>6, <3>1 DEF InvalidateFo, Types, hub, pnp
  <2> QED
    BY <1>6, <2>1, <2>2, <2>3, <2>4, <2>5, <2>6 DEF Removal
<1>7. ASSUME NEW t \in Client \cup Fo,
             UnplugAll(t) \/ (\E p \in Ports : UnplugPort(t, p)) \/ UnplugFind(t)
             \/ UnplugMark(t)
      PROVE  Types'
  <2>1. CASE UnplugAll(t)
    BY <2>1 DEF UnplugAll, MarkUnplugged, Types, pnp, files
  <2>2. CASE \E p \in Ports : UnplugPort(t, p)
    <3>1. un' \in [Client \cup Fo -> {Idle} \cup ({"find"} \X Nat) \cup ({"mark"} \X Vpdo)]
      BY <2>2 DEF UnplugPort, Types
    <3> QED
      BY <2>2, <3>1 DEF UnplugPort, Types, hub, pnp, files
  <2>3. CASE UnplugFind(t)
    <3>1. un' \in [Client \cup Fo -> {Idle} \cup ({"find"} \X Nat) \cup ({"mark"} \X Vpdo)]
      BY <2>3 DEF UnplugFind, Types
    <3> QED
      BY <2>3, <3>1 DEF UnplugFind, Types, hub, pnp, files
  <2>4. CASE UnplugMark(t)
    BY <2>4 DEF UnplugMark, MarkUnplugged, Types, pnp, files
  <2> QED
    BY <1>7, <2>1, <2>2, <2>3, <2>4
<1>8. ASSUME NEW f \in Fo, Cleanup(f) \/ CleanupVpdo(f)
      PROVE  Types'
  <2>1. CASE Cleanup(f)
    BY <2>1 DEF Cleanup, Types, hub, pnp
  <2>2. ASSUME CleanupVpdo(f)
        PROVE  cl[f][2] \in Vpdo
    BY <2>2, CleanupStep, CleanupLocals DEF CleanupVpdo, CleanupFo, CleanupContext, CleanupTest
  <2>3. CASE CleanupFo(f)
    BY <2>2, <2>3 DEF CleanupVpdo, CleanupFo, Types, hub, pnp
  <2>4. CASE CleanupContext(f)
    BY <2>2, <2>4 DEF CleanupVpdo, CleanupContext, Types, hub, pnp
  <2>5. CASE CleanupTest(f)
    <3>1. un' \in [Client \cup Fo -> {Idle} \cup ({"find"} \X Nat) \cup ({"mark"} \X Vpdo)]
      BY <2>2, <2>5 DEF CleanupVpdo, CleanupTest, Types
    <3> QED
      BY <2>5, <3>1 DEF CleanupTest, Types, hub, pnp
  <2> QED
    BY <1>8, <2>1, <2>3, <2>4, <2>5 DEF CleanupVpdo
<1>9. CASE GetBusRelations
  BY <1>9 DEF GetBusRelations, Types, hub, pnp, files
<1> QED
  BY <1>1, <1>2, <1>3, <1>4, <1>5, <1>6, <1>7, <1>8, <1>9 DEF Next

\* What mark_unplugged_vpdo does to the counter, for devices in the list or once
\* in it.
LEMMA MarkCounts ==
  ASSUME HubInv, NEW V \in SUBSET Vpdo, \A v \in V : ~NotYet(v),
         MarkUnplugged(V), UNCHANGED <<obj, pl>>
  PROVE  Counts'
<1> DEFINE U == {v \in V : plugged[v]}
<1>1. /\ IsFiniteSet(Counted) /\ n_vpdos_plugged = Cardinality(Counted)
      /\ n_vpdos' = n_vpdos /\ head_vpdo' = head_vpdo
      /\ n_vpdos_plugged' = n_vpdos_plugged - Cardinality(U)
  BY Finite DEF HubInv, Counts, MarkUnplugged
<1>2. Counted \cap U = U
  BY DEF Counted
<1>3. \A v \in Vpdo : NotYet(v)' <=> NotYet(v)
  BY DEF NotYet, PluggingIn
<1>4. Counted' = Counted \ U
  BY <1>3 DEF Counted, MarkUnplugged
<1>5. Cardinality(Counted \ U) = Cardinality(Counted) - Cardinality(Counted \cap U)
  BY <1>1, FS_Difference
<1>6. n_vpdos_plugged' = Cardinality(Counted')
  BY <1>1, <1>2, <1>4, <1>5
<1> QED
  BY <1>1, <1>6 DEF HubInv, Counts

\* A step that leaves the list, the marks and the plug-ins alone.
LEMMA QuietCounts ==
  ASSUME HubInv, UNCHANGED <<hub, plugged, obj, pl>>
  PROVE  Counts'
BY DEF HubInv, Counts, Counted, NotYet, PluggingIn, hub

\* Fresh and Known survive a step that gives nobody a new device to mark.
LEMMA QuietKnowledge ==
  ASSUME HubInv, UNCHANGED <<head_vpdo, obj, pl, node, rm>>,
         \A v \in Vpdo : plugged'[v] => plugged[v],
         \A t \in Client \cup Fo, v \in Vpdo :
           un'[t] = <<"mark", v>> => un[t] = <<"mark", v>> \/ v \in head_vpdo
  PROVE  Fresh' /\ Known'
BY DEF HubInv, Fresh, Known, NotYet, PluggingIn

\* The steps of vhci_plugin_vpdo after the port is chosen: the device becomes
\* known, and is counted, only when it is put into the list.
LEMMA PluginKeeps ==
  ASSUME HubInv, NEW v \in Vpdo, Plugin(v)
  PROVE  Fresh' /\ Known' /\ Counts'
<1>1. PluggingIn(v) /\ NotYet(v)
  BY PluginStep DEF Plugin, PluginClaim, PluginInit, PluginAttach, NotYet
<1>2. pl[v] # NoPlugin
  BY <1>1 DEF PluggingIn
<1>3. /\ v \notin head_vpdo /\ node[v] = "unknown" /\ obj[v] # "none" /\ rm[v] = NoRemoval
      /\ \A t \in Client \cup Fo : un[t] # <<"mark", v>>
  BY <1>1, <1>2 DEF HubInv, Fresh
<1>4. v \notin Counted
  BY <1>1 DEF Counted
<1>5. \A s, f, p : s \in {"created", "claimed", "initialized"} => <<s, f, p>> # NoPlugin
  BY DEF NoPlugin
<1>6. CASE PluginClaim(v)
  <2>1. \A w \in Vpdo : w # v => /\ NotYet(w)' <=> NotYet(w)
                                 /\ pl'[w] = pl[w] /\ obj'[w] = obj[w]
    BY <1>6 DEF PluginClaim, NotYet, PluggingIn, HubInv, Types
  <2>2. plugged' = plugged /\ ~plugged[v]
    BY <1>6 DEF PluginClaim, HubInv, Fresh
  <2>3. obj'[v] # "none"
    BY <1>3, <1>6 DEF PluginClaim, HubInv, Types
  <2>4. /\ head_vpdo' = head_vpdo /\ node' = node /\ un' = un /\ rm' = rm
        /\ UNCHANGED hub
    BY <1>6 DEF PluginClaim, hub
  <2>5. Fresh' /\ Known'
    BY <1>3, <2>1, <2>2, <2>3, <2>4 DEF HubInv, Fresh, Known
  <2>6. Counted' = Counted
    BY <2>1, <2>2 DEF Counted
  <2> QED
    BY <2>4, <2>5, <2>6 DEF HubInv, Counts, hub
<1>7. CASE PluginInit(v)
  <2>1. /\ pl' = [pl EXCEPT ![v] = <<"initialized", pl[v][2], pl[v][3]>>]
        /\ plugged' = [plugged EXCEPT ![v] = TRUE]
        /\ obj' = obj /\ head_vpdo' = head_vpdo /\ node' = node /\ un' = un /\ rm' = rm
        /\ UNCHANGED hub
    BY <1>7 DEF PluginInit, hub, files
  <2>2. pl'[v] = <<"initialized", pl[v][2], pl[v][3]>>
    BY <2>1 DEF HubInv, Types
  <2>3. pl'[v][1] = "initialized" /\ pl'[v] # NoPlugin
    BY <2>2, <1>5
  <2>4. \A w \in Vpdo : w # v => /\ NotYet(w)' <=> NotYet(w)
                                 /\ pl'[w] = pl[w] /\ plugged'[w] = plugged[w]
    BY <2>1 DEF NotYet, PluggingIn, HubInv, Types
  <2>5. Fresh' /\ Known'
    BY <1>3, <2>1, <2>3, <2>4 DEF HubInv, Fresh, Known
  <2>6. NotYet(v)'
    BY <2>3 DEF NotYet, PluggingIn
  <2>7. Counted' = Counted
    BY <1>4, <2>4, <2>6 DEF Counted
  <2> QED
    BY <2>1, <2>5, <2>7 DEF HubInv, Counts, hub
<1>8. CASE PluginAttach(v)
  <2>1. /\ pl' = [pl EXCEPT ![v] = NoPlugin]
        /\ plugged' = plugged /\ obj' = obj /\ node' = node /\ un' = un /\ rm' = rm
        /\ head_vpdo' = head_vpdo \cup {v}
        /\ n_vpdos' = n_vpdos + 1
        /\ n_vpdos_plugged' = IF plugged[v] THEN n_vpdos_plugged + 1
                                            ELSE n_vpdos_plugged
    BY <1>8 DEF PluginAttach, AttachVpdo, files
  <2>2. \A w \in Vpdo : w # v => (NotYet(w)' <=> NotYet(w)) /\ pl'[w] = pl[w]
    BY <2>1 DEF NotYet, PluggingIn, HubInv, Types
  <2>3. pl'[v] = NoPlugin /\ ~NotYet(v)'
    BY <1>3, <2>1 DEF NotYet, PluggingIn, HubInv, Types
  <2>4. NoPlugin[1] = "idle"
    BY DEF NoPlugin
  <2>5. Fresh' /\ Known'
    BY <1>3, <2>1, <2>2, <2>3, <2>4 DEF HubInv, Fresh, Known
  <2>6. Counted' = IF plugged[v] THEN Counted \cup {v} ELSE Counted
    BY <1>4, <2>1, <2>2, <2>3 DEF Counted
  <2>7. IsFiniteSet(head_vpdo) /\ IsFiniteSet(Counted)
    BY Finite DEF HubInv
  <2>8. /\ Cardinality(head_vpdo \cup {v}) = Cardinality(head_vpdo) + 1
        /\ Cardinality(Counted \cup {v}) = Cardinality(Counted) + 1
    BY <1>3, <1>4, <2>7, FS_AddElement
  <2> QED
    BY <2>1, <2>5, <2>6, <2>8 DEF HubInv, Counts
<1> QED
  BY <1>6, <1>7, <1>8 DEF Plugin

\* Every step keeps the invariant, one case per action.
LEMMA HubStep == HubInv /\ [Next]_vars => HubInv'
<1> SUFFICES ASSUME HubInv, [Next]_vars PROVE HubInv'
  OBVIOUS
<1>0. Types'
  BY Finite, TypesStep DEF HubInv
<1>1. CASE UNCHANGED vars
  BY <1>0, <1>1, QuietCounts, QuietKnowledge DEF HubInv, vars, hub, files
<1>2. ASSUME NEW v \in Vpdo, NEW f \in Fo, PluginCreate(v, f)
      PROVE  HubInv'
  <2>1. PICK p \in Ports : pl' = [pl EXCEPT ![v] = <<"created", f, p>>]
    BY <1>2 DEF PluginCreate
  <2>2. /\ obj[v] = "none" /\ obj' = [obj EXCEPT ![v] = "live"]
        /\ UNCHANGED hub /\ head_vpdo' = head_vpdo
        /\ plugged' = plugged /\ node' = node /\ un' = un /\ rm' = rm
    BY <1>2 DEF PluginCreate, hub, files
  <2>3. pl'[v] # NoPlugin /\ obj'[v] = "live"
    BY <2>1, <2>2 DEF NoPlugin, HubInv, Types
  <2>4. NotYet(v) /\ NotYet(v)'
    BY <2>2, <2>3 DEF NotYet, PluggingIn
  <2>5. \A w \in Vpdo : w # v => /\ NotYet(w)' <=> NotYet(w)
                                 /\ pl'[w] = pl[w] /\ obj'[w] = obj[w]
    BY <2>1, <2>2 DEF NotYet, PluggingIn, HubInv, Types
  <2>6. Fresh' /\ Known'
    BY <2>2, <2>3, <2>4, <2>5 DEF HubInv, Fresh, Known
  <2>7. Counted' = Counted
    BY <2>2, <2>4, <2>5 DEF Counted
  <2> QED
    BY <1>0, <2>2, <2>6, <2>7 DEF HubInv, Counts, hub
<1>3. ASSUME NEW v \in Vpdo, Plugin(v)
      PROVE  HubInv'
  BY <1>0, <1>3, PluginKeeps DEF HubInv
<1>4. ASSUME NEW v \in Vpdo, Start(v)
      PROVE  HubInv'
  <2>1. UNCHANGED <<hub, plugged, obj, pl, un, rm>> /\ head_vpdo' = head_vpdo
    BY <1>4 DEF Start, hub, files
  <2>2. Counts'
    BY <2>1, QuietCounts
  <2>3. Fresh' /\ Known'
    BY <1>4, <2>1 DEF Start, Present, HubInv, Types, Fresh, Known, NotYet, PluggingIn
  <2> QED
    BY <1>0, <2>2, <2>3 DEF HubInv
<1>5. ASSUME NEW v \in Vpdo, Stop(v) \/ CancelRemove(v) \/ SurpriseRemoval(v)
      PROVE  HubInv'
  <2>1. UNCHANGED <<hub, plugged, obj, pl, un, node, rm>> /\ head_vpdo' = head_vpdo
    BY <1>5 DEF Stop, CancelRemove, SurpriseRemoval, hub, files
  <2> QED
    BY <1>0, <2>1, QuietCounts, QuietKnowledge DEF HubInv
<1>6. ASSUME NEW v \in Vpdo, QueryRemove(v) \/ Eject(v)
      PROVE  HubInv'
  <2>1. MarkUnplugged({v}) /\ node[v] = "present" /\ UNCHANGED <<obj, pl, un, node, rm>>
    BY <1>6 DEF QueryRemove, Eject, Present, files
  <2>2. ~NotYet(v)
    BY <2>1 DEF HubInv, Fresh
  <2>3. Counts'
    BY <2>1, <2>2, MarkCounts
  <2>4. head_vpdo' = head_vpdo /\ \A w \in Vpdo : plugged'[w] => plugged[w]
    BY <2>1 DEF MarkUnplugged
  <2> QED
    BY <1>0, <2>1, <2>3, <2>4, QuietKnowledge DEF HubInv
<1>7. ASSUME NEW v \in Vpdo, Remove(v)
      PROVE  HubInv'
  <2>1. /\ v \in head_vpdo /\ head_vpdo' = head_vpdo \ {v}
        /\ n_vpdos' = n_vpdos - 1 /\ n_vpdos_plugged' = n_vpdos_plugged
        /\ node' = [node EXCEPT ![v] = "removing"]
        /\ plugged' = plugged /\ obj' = obj /\ pl' = pl /\ un' = un /\ rm' = rm
    BY <1>7 DEF Remove, DetachVpdo, HubInv, Known, files
  <2>2. ~NotYet(v)
    BY <2>1 DEF HubInv, Fresh
  <2>3. \A w \in Vpdo : NotYet(w)' <=> NotYet(w)
    BY <2>1 DEF NotYet, PluggingIn
  <2>4. Fresh' /\ Known'
    BY <2>1, <2>2, <2>3 DEF HubInv, Types, Fresh, Known
  <2>5. Counted' = Counted
    BY <2>1, <2>3 DEF Counted
  <2>6. Cardinality(head_vpdo \ {v}) = Cardinality(head_vpdo) - 1
    BY <2>1, Finite, FS_RemoveElement DEF HubInv
  <2> QED
    BY <1>0, <2>1, <2>4, <2>5, <2>6 DEF HubInv, Counts
<1>8. ASSUME NEW v \in Vpdo, RemoveDevice(v)
      PROVE  HubInv'
  <2>1. /\ node' = [node EXCEPT ![v] = "gone"]
        /\ obj' = [obj EXCEPT ![v] = "deleted"]
        /\ rm' = [rm EXCEPT ![v] = NoRemoval]
        /\ plugged' = plugged /\ pl' = pl /\ un' = un
        /\ UNCHANGED hub /\ head_vpdo' = head_vpdo
    BY <1>8 DEF RemoveDevice, hub
  <2>2. ~NotYet(v)
    BY <1>8, RemovalLocals DEF RemoveDevice, HubInv, Fresh
  <2>3. \A w \in Vpdo : NotYet(w)' <=> NotYet(w)
    BY <2>1, <2>2 DEF NotYet, PluggingIn, HubInv, Types
  <2>4. Fresh' /\ Known'
    BY <2>1, <2>2, <2>3 DEF HubInv, Types, Fresh, Known
  <2>5. Counted' = Counted
    BY <2>1, <2>3 DEF Counted
  <2> QED
    BY <1>0, <2>1, <2>4, <2>5 DEF HubInv, Counts, hub
<1>14. ASSUME NEW v \in Vpdo, InvalidateTest(v)
       PROVE  HubInv'
  <2>1. /\ UNCHANGED <<hub, plugged, obj, pl, un, node>> /\ head_vpdo' = head_vpdo
        /\ node[v] = "removing" /\ \A w \in Vpdo : rm'[w] # NoRemoval => w = v \/ rm[w] # NoRemoval
    BY <1>14 DEF InvalidateTest, hub, HubInv, Types
  <2>2. Fresh' /\ Known'
    BY <2>1 DEF HubInv, Fresh, Known, NotYet, PluggingIn
  <2> QED
    BY <1>0, <2>1, <2>2, QuietCounts DEF HubInv
<1>15. ASSUME NEW v \in Vpdo, InvalidateContext(v) \/ InvalidateFo(v)
       PROVE  HubInv'
  <2>1. /\ UNCHANGED <<hub, plugged, obj, pl, un, node>> /\ head_vpdo' = head_vpdo
        /\ rm[v] # NoRemoval /\ \A w \in Vpdo : rm'[w] # NoRemoval => rm[w] # NoRemoval
    BY <1>15, RemovalLocals DEF InvalidateContext, InvalidateFo, hub, HubInv, Types
  <2>2. Fresh' /\ Known'
    BY <2>1 DEF HubInv, Fresh, Known, NotYet, PluggingIn
  <2> QED
    BY <1>0, <2>1, <2>2, QuietCounts DEF HubInv
<1>9. ASSUME NEW t \in Client \cup Fo, UnplugAll(t)
      PROVE  HubInv'
  <2>1. MarkUnplugged(head_vpdo) /\ UNCHANGED <<obj, pl, un, node, rm>>
    BY <1>9 DEF UnplugAll, files
  <2>2. head_vpdo \in SUBSET Vpdo /\ \A w \in head_vpdo : ~NotYet(w)
    BY DEF HubInv, Types, Fresh
  <2>3. Counts'
    BY <2>1, <2>2, MarkCounts
  <2>4. head_vpdo' = head_vpdo /\ \A w \in Vpdo : plugged'[w] => plugged[w]
    BY <2>1 DEF MarkUnplugged
  <2> QED
    BY <1>0, <2>1, <2>3, <2>4, QuietKnowledge DEF HubInv
<1>10. ASSUME NEW t \in Client \cup Fo,
              (\E p \in Ports : UnplugPort(t, p)) \/ UnplugFind(t)
       PROVE  HubInv'
  <2>1. UNCHANGED <<hub, plugged, obj, pl, node, rm>> /\ head_vpdo' = head_vpdo
    BY <1>10 DEF UnplugPort, UnplugFind, hub, files
  <2>2. PICK v : /\ un' = [un EXCEPT ![t] = v]
                 /\ v = Idle \/ \E w \in head_vpdo : v = <<"mark", w>>
    BY <1>10 DEF UnplugPort, UnplugFind, FindVpdo
  <2>3. \A s \in Client \cup Fo, w \in Vpdo :
           un'[s] = <<"mark", w>> => un[s] = <<"mark", w>> \/ w \in head_vpdo
    BY <2>2 DEF HubInv, Types, Idle
  <2> QED
    BY <1>0, <2>1, <2>3, QuietCounts, QuietKnowledge DEF HubInv
<1>11. ASSUME NEW t \in Client \cup Fo, UnplugMark(t)
       PROVE  HubInv'
  <2>1. /\ un[t][1] = "mark" /\ MarkUnplugged({un[t][2]})
        /\ un' = [un EXCEPT ![t] = Idle] /\ UNCHANGED <<obj, pl, node, rm>>
    BY <1>11 DEF UnplugMark, files
  <2>2. un[t] \in {"mark"} \X Vpdo
    BY <2>1 DEF HubInv, Types, Idle
  <2>3. PICK v \in Vpdo : un[t] = <<"mark", v>>
    BY <2>2
  <2>4. un[t][2] = v
    BY <2>3
  <2>5. ~NotYet(v)
    BY <2>3 DEF HubInv, Fresh
  <2>6. Counts'
    BY <2>1, <2>4, <2>5, MarkCounts
  <2>7. head_vpdo' = head_vpdo /\ \A w \in Vpdo : plugged'[w] => plugged[w]
    BY <2>1 DEF MarkUnplugged
  <2>8. \A s \in Client \cup Fo, w \in Vpdo :
           un'[s] = <<"mark", w>> => un[s] = <<"mark", w>>
    BY <2>1 DEF HubInv, Types, Idle
  <2> QED
    BY <1>0, <2>1, <2>6, <2>7, <2>8, QuietKnowledge DEF HubInv
<1>12. ASSUME NEW f \in Fo, Cleanup(f) \/ CleanupVpdo(f)
       PROVE  HubInv'
  <2>1. UNCHANGED <<hub, plugged, obj, pl, node, rm>> /\ head_vpdo' = head_vpdo
    BY <1>12 DEF Cleanup, CleanupVpdo, CleanupFo, CleanupContext, CleanupTest, hub
  <2>2. \A s \in Client \cup Fo, w \in Vpdo :
           un'[s] = <<"mark", w>> => un[s] = <<"mark", w>>
    <3>1. un' = un \/ \E x \in {Idle} \cup ({"find"} \X Nat) : un' = [un EXCEPT ![f] = x]
      <4>1. CASE CleanupTest(f)
        <5>1. cl[f][2] \in Vpdo
          BY <4>1, CleanupStep, CleanupLocals DEF CleanupTest, HubInv
        <5>2. PICK x : /\ un' = [un EXCEPT ![f] = x]
                       /\ x = Idle \/ x = <<"find", port[cl[f][2]]>>
          BY <4>1 DEF CleanupTest
        <5> QED
          BY <5>1, <5>2 DEF HubInv, Types
      <4> QED
        BY <1>12, <4>1 DEF Cleanup, CleanupVpdo, CleanupFo, CleanupContext
    <3> QED
      BY <3>1 DEF HubInv, Types, Idle
  <2> QED
    BY <1>0, <2>1, <2>2, QuietCounts, QuietKnowledge DEF HubInv
<1>13. CASE GetBusRelations
  <2>1. UNCHANGED <<hub, plugged, obj, pl, un, rm>> /\ head_vpdo' = head_vpdo
    BY <1>13 DEF GetBusRelations, hub, files
  <2>2. Counts'
    BY <2>1, QuietCounts
  <2>3. \A v \in Vpdo : node'[v] = IF v \in head_vpdo /\ plugged[v]
                                     THEN IF node[v] = "unknown" THEN "present" ELSE node[v]
                                     ELSE IF node[v] = "present" THEN "missing" ELSE node[v]
    BY <1>13 DEF GetBusRelations
  <2>4. Fresh' /\ Known'
    BY <2>1, <2>3 DEF HubInv, Fresh, Known, NotYet, PluggingIn
  <2> QED
    BY <1>0, <2>2, <2>4 DEF HubInv
<1> QED
  BY <1>1, <1>2, <1>3, <1>4, <1>5, <1>6, <1>7, <1>8, <1>9, <1>10, <1>11, <1>12,
     <1>13, <1>14, <1>15 DEF Next, Removal

\* The hub's counters count what they are meant to, whatever clients, cleanups and
\* the PnP manager do to the list (vhci_vhub.c).
THEOREM HubInvariant == Spec => []HubInv
<1>1. Init => HubInv
  BY InitHubInv
<1>2. HubInv /\ [Next]_vars => HubInv'
  BY HubStep
<1> QED
  BY <1>1, <1>2, PTL DEF Spec

\* The fields of the hub and of its devices, of files and of requests keep their
\* types; in particular the counters of vhub_dev_t never run below zero, which
\* the assertions of vhub_detach_vpdo and mark_unplugged_vpdo ask for.
THEOREM TypeCorrect == Spec => []TypeOK
<1>1. HubInv => TypeOK
  BY Finite DEF HubInv, Types, TypeOK
<1> QED
  BY <1>1, HubInvariant, PTL

\* The buffer of get_bus_relations_vhub is large enough, for any number of
\* devices and whatever order they are plugged in, unplugged and removed in.
THEOREM RelationsAlwaysFit == Spec => []RelationsFit
<1>1. HubInv => RelationsFit
  <2> SUFFICES ASSUME HubInv PROVE RelationsFit
    OBVIOUS
  <2>1. Plugged \subseteq Counted
    BY DEF HubInv, Types, Fresh, Plugged, Counted
  <2>2. IsFiniteSet(Counted) /\ n_vpdos_plugged = Cardinality(Counted)
    BY Finite DEF HubInv, Counts
  <2> QED
    BY <2>1, <2>2, FS_Subset DEF RelationsFit
<1> QED
  BY <1>1, HubInvariant, PTL

(***************************************************************************)
(* Ports.  Two devices of the hub may get one port (UniquePort fails);     *)
(* shared remembers that they have.                                        *)
(***************************************************************************)
PortInv == shared \/ UniquePort

\* A step that puts no device into the list and gives none in it a port.
LEMMA QuietPorts ==
  ASSUME PortInv, head_vpdo' \subseteq head_vpdo, UNCHANGED shared,
         \A v \in head_vpdo' : port'[v] = port[v]
  PROVE  PortInv' /\ shared' = shared
BY DEF PortInv, UniquePort

\* Every step keeps the ports apart or notes that it does not, for good.
LEMMA PortStep ==
  ASSUME HubInv, PortInv, [Next]_vars
  PROVE  PortInv' /\ (shared => shared')
<1>1. CASE UNCHANGED vars
  BY <1>1, QuietPorts DEF vars, hub
<1>2. ASSUME NEW v \in Vpdo, PluginClaim(v) \/ \E f \in Fo : PluginCreate(v, f)
      PROVE  PortInv' /\ shared' = shared
  BY <1>2, QuietPorts DEF PluginClaim, PluginCreate, hub
<1>3. ASSUME NEW v \in Vpdo, PluginInit(v)
      PROVE  PortInv' /\ shared' = shared
  <2>1. v \notin head_vpdo
    BY <1>3, PluginStep DEF PluginInit, HubInv, Fresh, NotYet
  <2>2. head_vpdo' = head_vpdo /\ shared' = shared /\ port' = [port EXCEPT ![v] = pl[v][3]]
    BY <1>3 DEF PluginInit, hub
  <2>3. \A w \in head_vpdo' : port'[w] = port[w]
    BY <2>1, <2>2 DEF HubInv, Types
  <2> QED
    BY <2>2, <2>3, QuietPorts
<1>4. ASSUME NEW v \in Vpdo, PluginAttach(v)
      PROVE  PortInv' /\ (shared => shared')
  <2>1. /\ head_vpdo' = head_vpdo \cup {v} /\ port' = port
        /\ shared' = (shared \/ \E w \in head_vpdo : port[w] = port[v])
    BY <1>4 DEF PluginAttach, AttachVpdo
  <2> QED
    BY <2>1 DEF PortInv, UniquePort
<1>5. ASSUME NEW v \in Vpdo, Start(v) \/ Stop(v) \/ CancelRemove(v)
      PROVE  PortInv' /\ shared' = shared
  BY <1>5, QuietPorts DEF Start, Stop, CancelRemove, hub
<1>6. ASSUME NEW v \in Vpdo, QueryRemove(v) \/ Eject(v)
      PROVE  PortInv' /\ shared' = shared
  BY <1>6, QuietPorts DEF QueryRemove, Eject, MarkUnplugged
<1>7. ASSUME NEW v \in Vpdo, Removal(v)
      PROVE  PortInv' /\ shared' = shared
  BY <1>7, QuietPorts DEF Removal, SurpriseRemoval, Remove, DetachVpdo, RemoveDevice,
                          InvalidateTest, InvalidateContext, InvalidateFo, hub
<1>8. ASSUME NEW t \in Client \cup Fo,
             UnplugAll(t) \/ (\E p \in Ports : UnplugPort(t, p)) \/ UnplugFind(t)
             \/ UnplugMark(t)
      PROVE  PortInv' /\ shared' = shared
  BY <1>8, QuietPorts DEF UnplugAll, UnplugPort, UnplugFind, UnplugMark, MarkUnplugged,
                          hub
<1>9. ASSUME NEW f \in Fo, Cleanup(f) \/ CleanupVpdo(f)
      PROVE  PortInv' /\ shared' = shared
  BY <1>9, QuietPorts DEF Cleanup, CleanupVpdo, CleanupFo, CleanupContext, CleanupTest, hub
<1>10. CASE GetBusRelations
  BY <1>10, QuietPorts DEF GetBusRelations, hub
<1> QED
  BY <1>1, <1>2, <1>3, <1>4, <1>5, <1>6, <1>7, <1>8, <1>9, <1>10 DEF Next, Plugin

\* No two devices of the hub share a port until two plug-ins have met.
LEMMA PortInvariant == Spec => []PortInv
<1>1. Init => PortInv
  BY DEF Init, PortInv, UniquePort
<1>2. HubInv /\ PortInv /\ [Next]_vars => PortInv'
  BY PortStep
<1> QED
  BY <1>1, <1>2, HubInvariant, PTL DEF Spec

(***************************************************************************)
(* Files and devices.  FsContext of a file and fo of its device are        *)
(* written by plug-in, cleanup and removal, one after the other and        *)
(* without a lock.  They name each other from the step of the plug-in that *)
(* sets fo on.  A cleanup clears fo first, so that until its second write  *)
(* the file names a device that does not name it (Named leaves this out);  *)
(* a removal clears FsContext first (so does NamedBack leave this out).  A *)
(* removal that has read the file is overtaken only by the cleanup of that *)
(* file (Removing), which happens once and not during its plug-in          *)
(* (Cleaning).                                                             *)
(***************************************************************************)
Named ==
  \A f \in Fo, v \in Vpdo :
    FsContext[f] = v /\ cl[f][1] # "context" =>
      /\ obj[v] = "live" /\ pl[v][1] # "created" /\ rm[v][1] \notin {"fo", "delete"}
      /\ IF pl[v][1] = "claimed" THEN pl[v][2] = f ELSE fo[v] = f

NamedBack ==
  \A v \in Vpdo : fo[v] \in Fo => FsContext[fo[v]] = v \/ rm[v][1] = "fo"

\* A plug-in has a live device and an open file, which names the device from the
\* claim on and is named by it from the initialization on.
Plugging ==
  \A v \in Vpdo :
    PluggingIn(v) =>
      /\ obj[v] = "live" /\ pl[v][2] \notin closed
      /\ pl[v][1] # "created" => FsContext[pl[v][2]] = v
      /\ pl[v][1] = "initialized" => fo[v] = pl[v][2]

CleaningOf(f) ==
  /\ f \notin closed => cl[f] = Idle /\ un[f] = Idle
  /\ cl[f] # Idle => ~NotYet(cl[f][2]) /\ un[f] = Idle
  /\ cl[f][1] = "fo" => fo[cl[f][2]] \in {f, NoFo}
  /\ cl[f][1] = "context" => fo[cl[f][2]] = NoFo
  /\ f \in closed =>
       \/ FsContext[f] = NoVpdo
       \/ cl[f][1] \in {"fo", "context"} /\ FsContext[f] = cl[f][2]

Cleaning == \A f \in Fo : CleaningOf(f)

RemovingOf(v) ==
  rm[v][1] = "context" =>
    /\ rm[v][2] \in Fo /\ fo[v] \in {rm[v][2], NoFo}
    /\ FsContext[rm[v][2]] \in {v, NoVpdo}
    /\ FsContext[rm[v][2]] = v \/ rm[v][2] \in closed

Removing == \A v \in Vpdo : RemovingOf(v)

\* What is being removed is not in the list.
Removed ==
  \A v \in Vpdo :
    /\ node[v] \in {"removing", "gone"} => v \notin head_vpdo
    /\ rm[v] # NoRemoval => node[v] = "removing"

FileInv == Named /\ NamedBack /\ Plugging /\ Cleaning /\ Removing /\ Removed
\* A step that touches neither files nor plug-ins, and wakes up no cleanup.
LEMMA QuietFiles ==
  ASSUME FileInv, UNCHANGED <<FsContext, closed, cl, rm, pl, obj, fo>>,
         \A f \in Fo : un[f] = Idle => un'[f] = Idle,
         Removed'
  PROVE  FileInv'
<1>1. \A v : NotYet(v)' <=> NotYet(v)
  BY DEF NotYet, PluggingIn
<1>2. Named' /\ NamedBack' /\ Plugging'
  BY DEF FileInv, Named, NamedBack, Plugging, PluggingIn
<1>3. Cleaning'
  BY <1>1 DEF FileInv, Cleaning, CleaningOf
<1>4. Removing'
  BY DEF FileInv, Removing, RemovingOf
<1> QED
  BY <1>2, <1>3, <1>4 DEF FileInv

\* Nothing that is being removed comes back into the list.
LEMMA RemovedStep ==
  ASSUME HubInv, FileInv, [Next]_vars
  PROVE  Removed'
<1>1. CASE /\ head_vpdo' \subseteq head_vpdo /\ rm' = rm
           /\ \A v \in Vpdo : node'[v] \in {"removing", "gone"}
                                => node[v] \in {"removing", "gone"} \/ v \notin head_vpdo'
           /\ \A v \in Vpdo : node[v] = "removing" => node'[v] = "removing"
  BY <1>1 DEF FileInv, Removed
<1>2. ASSUME NEW v \in Vpdo, PluginAttach(v)
      PROVE  Removed'
  <2>1. PluggingIn(v)
    BY <1>2, PluginStep DEF PluginAttach
  <2>2. node[v] = "unknown"
    BY <2>1 DEF HubInv, Fresh, NotYet
  <2> QED
    BY <1>2, <2>2 DEF PluginAttach, AttachVpdo, FileInv, Removed, files
<1>3. ASSUME NEW v \in Vpdo, PluginClaim(v) \/ PluginInit(v) \/ \E f \in Fo : PluginCreate(v, f)
      PROVE  Removed'
  BY <1>1, <1>3 DEF PluginClaim, PluginInit, PluginCreate, hub, files
<1>4. ASSUME NEW v \in Vpdo, Start(v) \/ Stop(v) \/ CancelRemove(v) \/ SurpriseRemoval(v)
      PROVE  Removed'
  BY <1>1, <1>4 DEF Start, Present, Stop, CancelRemove, SurpriseRemoval, hub, files, HubInv,
                    Types
<1>5. ASSUME NEW v \in Vpdo, QueryRemove(v) \/ Eject(v)
      PROVE  Removed'
  BY <1>1, <1>5 DEF QueryRemove, Eject, MarkUnplugged, files
<1>6. ASSUME NEW v \in Vpdo, Remove(v)
      PROVE  Removed'
  BY <1>1, <1>6 DEF Remove, DetachVpdo, files, HubInv, Types
<1>10. ASSUME NEW v \in Vpdo,
              InvalidateTest(v) \/ InvalidateContext(v) \/ InvalidateFo(v) \/ RemoveDevice(v)
       PROVE  Removed'
  <2>1. node[v] = "removing" /\ head_vpdo' = head_vpdo
    BY <1>10, RemovalLocals DEF InvalidateTest, InvalidateContext, InvalidateFo, RemoveDevice,
       hub, FileInv, Removed, HubInv
  <2>2. \A w \in Vpdo : w # v => rm'[w] = rm[w] /\ node'[w] = node[w]
    BY <1>10 DEF InvalidateTest, InvalidateContext, InvalidateFo, RemoveDevice, HubInv, Types
  <2>3. node'[v] = "removing" \/ (node'[v] = "gone" /\ rm'[v] = NoRemoval)
    BY <1>10, <2>1 DEF InvalidateTest, InvalidateContext, InvalidateFo, RemoveDevice, HubInv,
       Types
  <2> QED
    BY <2>1, <2>2, <2>3 DEF FileInv, Removed
<1>7. ASSUME NEW t \in Client \cup Fo,
             UnplugAll(t) \/ (\E p \in Ports : UnplugPort(t, p)) \/ UnplugFind(t)
             \/ UnplugMark(t)
      PROVE  Removed'
  BY <1>1, <1>7 DEF UnplugAll, UnplugPort, UnplugFind, UnplugMark, MarkUnplugged, hub, files
<1>8. ASSUME NEW f \in Fo, Cleanup(f) \/ CleanupVpdo(f)
      PROVE  Removed'
  BY <1>1, <1>8 DEF Cleanup, CleanupVpdo, CleanupFo, CleanupContext, CleanupTest, hub
<1>9. CASE GetBusRelations \/ UNCHANGED vars
  BY <1>1, <1>9 DEF GetBusRelations, vars, hub, files
<1> QED
  BY <1>2, <1>3, <1>4, <1>5, <1>6, <1>7, <1>8, <1>9, <1>10 DEF Next, Plugin, Removal

\* What a plug-in does to its file and its device.
LEMMA PluginFiles ==
  ASSUME HubInv, FileInv, Removed', NEW v \in Vpdo, Plugin(v)
  PROVE  FileInv'
<1> DEFINE f == pl[v][2]
<1>1. PluggingIn(v) /\ pl[v] # NoPlugin
  BY PluginStep DEF Plugin, PluginClaim, PluginInit, PluginAttach, PluggingIn
<1>2. f \in Fo /\ f \notin closed /\ obj[v] = "live" /\ NotYet(v)
  BY <1>1, PluginLocals DEF HubInv, FileInv, Plugging, NotYet
<1>3. /\ NoPlugin[1] = "idle" /\ NoPlugin[2] = NoFo /\ NoFo \notin Fo /\ NoVpdo \notin Vpdo
      /\ v # NoVpdo
  BY ConstantsAssumption DEF NoPlugin
<1>4. /\ \A w \in Vpdo : w # v => pl'[w] = pl[w] /\ fo'[w] = fo[w] /\ obj'[w] = obj[w]
      /\ UNCHANGED <<closed, cl, rm, un>>
  BY DEF Plugin, PluginClaim, PluginInit, PluginAttach, files, HubInv, Types
<1>5. \A w \in Vpdo : w # v => (NotYet(w)' <=> NotYet(w))
  BY <1>4 DEF NotYet, PluggingIn
<1>6. Cleaning' /\ \A g \in Fo : cl[g] # Idle => cl[g][2] # v
  <2>1. \A g \in Fo : cl[g] # Idle => cl[g][2] \in Vpdo /\ cl[g][2] # v
    BY <1>2, CleanupLocals DEF FileInv, Cleaning, CleaningOf, HubInv
  <2>2. \A g \in Fo : g # f => FsContext'[g] = FsContext[g]
    BY <1>2 DEF Plugin, PluginClaim, PluginInit, PluginAttach, files, HubInv, Types
  <2>3. \A g \in Fo : cl[g][1] \in {"fo", "context"} => cl[g] # Idle
    BY CleanupStep
  <2> QED
    BY <1>2, <1>4, <1>5, <2>1, <2>2, <2>3 DEF FileInv, Cleaning, CleaningOf
<1>11. \A g \in Fo : FsContext[g] = v => cl[g][1] # "context"
  BY <1>3, <1>6, CleanupStep DEF FileInv, Cleaning, CleaningOf
<1>12. Removing'
  <2>1. rm[v][1] # "context"
    BY <1>2, RemovalLocals DEF HubInv, Fresh
  <2>2. \A g \in Fo : FsContext'[g] = FsContext[g] \/ (g = f /\ FsContext[g] = NoVpdo)
    BY <1>2 DEF Plugin, PluginClaim, PluginInit, PluginAttach, files, HubInv, Types
  <2>3. \A w \in Vpdo, g \in Fo : rm[w][1] = "context" /\ rm[w][2] = g
                                   => FsContext'[g] = FsContext[g]
    BY <1>2, <1>3, <2>2 DEF FileInv, Removing, RemovingOf
  <2> QED
    BY <1>4, <2>1, <2>3 DEF FileInv, Removing, RemovingOf
<1> HIDE DEF f
<1>7. CASE PluginClaim(v) /\ FsContext[f] = NoVpdo
  <2>1. /\ FsContext' = [FsContext EXCEPT ![f] = v] /\ obj' = obj /\ fo' = fo
        /\ pl'[v] = <<"claimed", f, pl[v][3]>> /\ pl[v][1] = "created"
    BY <1>7 DEF PluginClaim, HubInv, Types, f
  <2>2. \A g \in Fo : FsContext[g] # v
    BY <1>11, <2>1 DEF FileInv, Named
  <2>3. /\ FsContext'[f] = v /\ pl'[v][1] = "claimed" /\ pl'[v][2] = f
        /\ \A g \in Fo : g # f => FsContext'[g] = FsContext[g] /\ FsContext'[g] # v
    BY <1>2, <2>1, <2>2 DEF HubInv, Types
  <2>4. Named'
    <3>1. rm[v][1] \notin {"fo", "delete"}
      BY <1>2, RemovalLocals DEF HubInv, Fresh
    <3> QED
      BY <1>2, <1>4, <2>1, <2>3, <3>1 DEF FileInv, Named
  <2>6. NamedBack'
    BY <1>2, <1>3, <1>4, <1>7, <2>1, <2>3 DEF FileInv, NamedBack
  <2>5. Plugging'
    <3> SUFFICES ASSUME NEW w \in Vpdo, PluggingIn(w)'
                 PROVE  /\ obj'[w] = "live" /\ pl'[w][2] \notin closed'
                        /\ pl'[w][1] # "created" => FsContext'[pl'[w][2]] = w
                        /\ pl'[w][1] = "initialized" => fo'[w] = pl'[w][2]
      BY DEF Plugging
    <3>1. CASE w = v
      BY <1>2, <1>4, <2>1, <2>3, <3>1
    <3>2. CASE w # v
      <4>1. PluggingIn(w) /\ pl[w] # NoPlugin
        BY <1>4, <3>2 DEF PluggingIn
      <4>2. pl[w][2] \in Fo
        BY <4>1, PluginLocals DEF HubInv
      <4>3. pl[w][1] # "created" => pl[w][2] # f
        BY <1>3, <1>7, <4>1 DEF FileInv, Plugging, HubInv, Types
      <4> QED
        BY <1>4, <2>1, <2>3, <3>2, <4>1, <4>2, <4>3 DEF FileInv, Plugging
    <3> QED
      BY <3>1, <3>2
  <2> QED
    BY <1>6, <1>12, <2>4, <2>5, <2>6 DEF FileInv
<1>8. CASE PluginClaim(v) /\ FsContext[f] # NoVpdo
  <2>1. /\ UNCHANGED <<FsContext, fo>> /\ pl'[v] = NoPlugin /\ pl[v][1] = "created"
    BY <1>8 DEF PluginClaim, HubInv, Types, f
  <2>2. \A g \in Fo : FsContext[g] # v
    BY <1>11, <2>1 DEF FileInv, Named
  <2>3. Named'
    BY <1>4, <2>1, <2>2 DEF FileInv, Named
  <2>4. Plugging'
    BY <1>4, <2>1 DEF FileInv, Plugging, PluggingIn
  <2> QED
    BY <1>4, <1>6, <1>12, <2>1, <2>3, <2>4 DEF FileInv, NamedBack
<1>9. CASE PluginInit(v)
  <2>1. /\ UNCHANGED <<FsContext, obj>> /\ pl'[v] = <<"initialized", f, pl[v][3]>>
        /\ fo'[v] = f /\ pl[v][1] = "claimed"
    BY <1>9 DEF PluginInit, files, HubInv, Types, f
  <2>2. FsContext[f] = v
    BY <1>1, <2>1 DEF FileInv, Plugging, f
  <2>3. pl'[v][1] = "initialized" /\ pl'[v][2] = f
    BY <2>1
  <2>4. Named'
    BY <1>4, <2>1, <2>3 DEF FileInv, Named, f
  <2>5. Plugging'
    BY <1>2, <1>4, <2>1, <2>2, <2>3 DEF FileInv, Plugging, PluggingIn
  <2>6. NamedBack'
    BY <1>2, <1>4, <2>1, <2>2 DEF FileInv, NamedBack
  <2> QED
    BY <1>6, <1>12, <2>4, <2>5, <2>6 DEF FileInv
<1>10. CASE PluginAttach(v)
  <2>1. /\ UNCHANGED <<FsContext, obj, fo>> /\ pl'[v] = NoPlugin
        /\ pl[v][1] = "initialized"
    BY <1>10 DEF PluginAttach, files, HubInv, Types
  <2>2. Named'
    BY <1>3, <1>4, <2>1 DEF FileInv, Named
  <2>3. Plugging'
    BY <1>4, <2>1 DEF FileInv, Plugging, PluggingIn
  <2> QED
    BY <1>4, <1>6, <1>12, <2>1, <2>2, <2>3 DEF FileInv, NamedBack
<1> QED
  BY <1>7, <1>8, <1>9, <1>10 DEF Plugin

\* The end of a removal: it takes the device from the file it has read, which the
\* cleanup of that file may do at the same time, and nobody else.
LEMMA InvalidateFiles ==
  ASSUME HubInv, FileInv, Removed', NEW v \in Vpdo,
         InvalidateTest(v) \/ InvalidateContext(v) \/ InvalidateFo(v)
  PROVE  FileInv'
<1>n. NoFo \notin Fo /\ NoVpdo \notin Vpdo
  BY ConstantsAssumption
<1>1. /\ \A w \in Vpdo : w # v => rm'[w] = rm[w]
      /\ UNCHANGED <<obj, closed, cl, pl, un>>
  BY DEF InvalidateTest, InvalidateContext, InvalidateFo, HubInv, Types
<1>2. node[v] = "removing"
  BY RemovalLocals DEF InvalidateTest, InvalidateContext, InvalidateFo, FileInv, Removed,
     HubInv
<1>3. ~NotYet(v) /\ ~PluggingIn(v) /\ pl[v][1] # "claimed"
  BY <1>2, PluginStep DEF HubInv, Fresh, NotYet
<1>4. \A w : NotYet(w)' <=> NotYet(w)
  BY <1>1 DEF NotYet, PluggingIn
<1>5. \A f \in Fo : cl[f] # Idle => cl[f][2] \in Vpdo
  BY CleanupLocals DEF HubInv
<1>6. \A f \in Fo : cl[f][1] \in {"fo", "context"} => cl[f] # Idle
  BY CleanupStep
<1>7. CASE InvalidateTest(v)
  <2>1. /\ rm[v] = NoRemoval /\ UNCHANGED <<FsContext, fo>>
        /\ rm'[v] = <<IF fo[v] = NoFo THEN "delete" ELSE "context", fo[v]>>
    BY <1>7 DEF InvalidateTest, HubInv, Types
  <2>2. rm[v][1] = "idle" /\ rm'[v][1] \in {"delete", "context"} /\ rm'[v][2] = fo[v]
        /\ (rm'[v][1] = "context" <=> fo[v] # NoFo)
    BY <2>1 DEF NoRemoval
  <2>3. Named'
    BY <1>n, <1>1, <1>3, <2>1, <2>2 DEF FileInv, Named
  <2>4. NamedBack'
    BY <1>1, <2>1, <2>2 DEF FileInv, NamedBack
  <2>5. Plugging' /\ Cleaning'
    BY <1>1, <1>4, <2>1 DEF FileInv, Plugging, PluggingIn, Cleaning, CleaningOf
  <2>6. RemovingOf(v)'
    <3> SUFFICES ASSUME rm'[v][1] = "context"
                 PROVE  fo[v] \in Fo /\ FsContext[fo[v]] = v
      BY <1>1, <2>1, <2>2 DEF RemovingOf
    <3>1. fo[v] \in Fo
      BY <2>2 DEF HubInv, Types
    <3> QED
      BY <2>2, <3>1 DEF FileInv, NamedBack
  <2>7. Removing'
    BY <1>1, <2>1, <2>6 DEF FileInv, Removing, RemovingOf
  <2> QED
    BY <2>3, <2>4, <2>5, <2>7 DEF FileInv
<1>8. CASE InvalidateContext(v)
  <2> DEFINE f == rm[v][2]
  <2>1. /\ rm[v][1] = "context" /\ UNCHANGED fo
        /\ FsContext' = [FsContext EXCEPT ![f] = NoVpdo]
        /\ rm'[v] = <<"fo", f>>
    BY <1>8 DEF InvalidateContext, HubInv, Types
  <2>2. rm'[v][1] = "fo"
    BY <2>1
  <2>3. /\ f \in Fo /\ fo[v] \in {f, NoFo} /\ FsContext[f] \in {v, NoVpdo}
        /\ FsContext[f] = v \/ f \in closed
    BY <2>1 DEF FileInv, Removing, RemovingOf
  <2> HIDE DEF f
  <2>4. FsContext'[f] = NoVpdo /\ \A g \in Fo : g # f => FsContext'[g] = FsContext[g]
    BY <2>1, <2>3 DEF HubInv, Types
  <2>5. Named'
    <3> SUFFICES ASSUME NEW g \in Fo, NEW w \in Vpdo,
                        FsContext'[g] = w, cl[g][1] # "context"
                 PROVE  /\ obj[w] = "live" /\ pl[w][1] # "created"
                        /\ rm'[w][1] \notin {"fo", "delete"}
                        /\ IF pl[w][1] = "claimed" THEN pl[w][2] = g ELSE fo[w] = g
      BY <1>1, <2>1 DEF Named
    <3>1. g # f /\ FsContext[g] = w
      BY <1>n, <2>4
    <3>2. w # v
      BY <1>n, <1>3, <2>3, <3>1 DEF FileInv, Named
    <3> QED
      BY <1>1, <3>1, <3>2 DEF FileInv, Named
  <2>6. NamedBack'
    BY <1>1, <2>1, <2>2, <2>3, <2>4, <1>n DEF FileInv, NamedBack
  <2>7. Plugging'
    <3> SUFFICES ASSUME NEW w \in Vpdo, PluggingIn(w), pl[w][1] # "created"
                 PROVE  FsContext'[pl[w][2]] = w
      BY <1>1, <2>1 DEF FileInv, Plugging, PluggingIn
    <3>1. pl[w][2] \in Fo /\ pl[w][2] \notin closed /\ FsContext[pl[w][2]] = w /\ w # v
      BY <1>3, PluginLocals DEF FileInv, Plugging, PluggingIn, HubInv
    <3> QED
      BY <2>3, <2>4, <3>1
  <2>8. Cleaning'
    BY <1>1, <1>4, <2>1, <2>4 DEF FileInv, Cleaning, CleaningOf
  <2>9. Removing'
    <3> SUFFICES ASSUME NEW w \in Vpdo, rm'[w][1] = "context"
                 PROVE  /\ rm'[w][2] \in Fo /\ fo[w] \in {rm'[w][2], NoFo}
                        /\ FsContext'[rm'[w][2]] \in {w, NoVpdo}
                        /\ FsContext'[rm'[w][2]] = w \/ rm'[w][2] \in closed
      BY <1>1, <2>1 DEF Removing, RemovingOf
    <3>1. w # v /\ rm'[w] = rm[w]
      BY <1>1, <2>2
    <3> QED
      BY <1>n, <2>3, <2>4, <3>1 DEF FileInv, Removing, RemovingOf
  <2> QED
    BY <2>5, <2>6, <2>7, <2>8, <2>9 DEF FileInv
<1>9. CASE InvalidateFo(v)
  <2>1. /\ rm[v][1] = "fo" /\ UNCHANGED FsContext
        /\ fo'[v] = NoFo /\ \A w \in Vpdo : w # v => fo'[w] = fo[w]
        /\ rm'[v] = <<"delete", rm[v][2]>>
    BY <1>9 DEF InvalidateFo, HubInv, Types
  <2>2. rm'[v][1] = "delete"
    BY <2>1
  <2>3. Named' /\ NamedBack'
    BY <1>n, <1>1, <2>1, <2>2 DEF FileInv, Named, NamedBack
  <2>4. Plugging'
    BY <1>1, <1>3, <2>1 DEF FileInv, Plugging, PluggingIn
  <2>5. Cleaning'
    BY <1>1, <1>4, <1>5, <1>6, <2>1 DEF FileInv, Cleaning, CleaningOf
  <2>6. Removing'
    BY <1>1, <2>1, <2>2 DEF FileInv, Removing, RemovingOf
  <2> QED
    BY <2>3, <2>4, <2>5, <2>6 DEF FileInv
<1> QED
  BY <1>7, <1>8, <1>9

\* A file is closed while it is not being plugged in, and names the device it had.
LEMMA CleanupBegins ==
  ASSUME HubInv, FileInv, Removed', NEW f \in Fo, Cleanup(f)
  PROVE  FileInv'
<1>n. NoFo \notin Fo /\ NoVpdo \notin Vpdo
  BY ConstantsAssumption
<1>1. /\ f \notin closed /\ \A v \in Vpdo : pl[v][2] # f
      /\ closed' = closed \cup {f}
      /\ cl' = [cl EXCEPT ![f] = IF FsContext[f] = NoVpdo THEN Idle
                                                        ELSE <<"fo", FsContext[f]>>]
      /\ UNCHANGED <<fo, obj, FsContext, rm, pl, un>>
  BY DEF Cleanup
<1>2. /\ cl[f] = Idle /\ un[f] = Idle /\ \A g \in Fo : g # f => cl'[g] = cl[g]
      /\ cl'[f] = IF FsContext[f] = NoVpdo THEN Idle ELSE <<"fo", FsContext[f]>>
  BY <1>1 DEF FileInv, Cleaning, CleaningOf, HubInv, Types
<1>3. cl[f][1] = "idle" /\ cl'[f][1] \in {"idle", "fo"}
  BY <1>2 DEF Idle
<1>4. Named' /\ NamedBack'
  BY <1>1, <1>2, <1>3 DEF FileInv, Named, NamedBack
<1>5. Plugging' /\ Removing'
  BY <1>1 DEF FileInv, Plugging, PluggingIn, Removing, RemovingOf
<1>6. FsContext[f] # NoVpdo => ~NotYet(FsContext[f]) /\ fo[FsContext[f]] = f
  <2> SUFFICES ASSUME FsContext[f] # NoVpdo
               PROVE  ~NotYet(FsContext[f]) /\ fo[FsContext[f]] = f
    OBVIOUS
  <2>1. PICK v \in Vpdo : v = FsContext[f]
    BY DEF HubInv, Types
  <2>2. obj[v] = "live" /\ pl[v][1] # "created" /\ pl[v][1] # "claimed" /\ fo[v] = f
    BY <1>1, <1>3, <2>1 DEF FileInv, Named
  <2>3. ~PluggingIn(v)
    <3> SUFFICES ASSUME PluggingIn(v) PROVE FALSE
      OBVIOUS
    <3>1. pl[v][1] = "initialized"
      BY <2>2, PluginLocals DEF PluggingIn, HubInv
    <3> QED
      BY <1>1, <2>2, <3>1 DEF FileInv, Plugging
  <2> QED
    BY <2>1, <2>2, <2>3 DEF NotYet
<1>7. \A v : NotYet(v)' <=> NotYet(v)
  BY <1>1 DEF NotYet, PluggingIn
<1>8. CleaningOf(f)'
  <2>1. CASE FsContext[f] = NoVpdo
    BY <1>1, <1>2, <1>3, <2>1 DEF CleaningOf, Idle
  <2>2. CASE FsContext[f] # NoVpdo
    <3>1. cl'[f][1] = "fo" /\ cl'[f][2] = FsContext[f]
      BY <1>2, <2>2
    <3> QED
      BY <1>1, <1>2, <1>6, <1>7, <2>2, <3>1 DEF CleaningOf
  <2> QED
    BY <2>1, <2>2
<1>9. Cleaning'
  BY <1>1, <1>2, <1>7, <1>8 DEF FileInv, Cleaning, CleaningOf
<1> QED
  BY <1>4, <1>5, <1>9 DEF FileInv

\* The writes of a cleanup, one by one.
LEMMA CleanupFiles ==
  ASSUME HubInv, FileInv, Removed', NEW f \in Fo,
         CleanupFo(f) \/ CleanupContext(f) \/ CleanupTest(f)
  PROVE  FileInv'
<1>n. NoFo \notin Fo /\ NoVpdo \notin Vpdo
  BY ConstantsAssumption
<1> DEFINE v == cl[f][2]
<1>1. cl[f] # Idle /\ v \in Vpdo /\ f \in closed /\ ~NotYet(v) /\ ~PluggingIn(v)
  BY CleanupStep, CleanupLocals
     DEF CleanupFo, CleanupContext, CleanupTest, HubInv, FileInv, Cleaning, CleaningOf, NotYet
<1>2. /\ \A g \in Fo : g # f => cl'[g] = cl[g] /\ un'[g] = un[g]
      /\ UNCHANGED <<obj, closed, pl, rm>>
  BY DEF CleanupFo, CleanupContext, CleanupTest, HubInv, Types
<1>3. \A w : NotYet(w)' <=> NotYet(w)
  BY <1>2 DEF NotYet, PluggingIn
<1>4. \A g \in Fo : cl[g] # Idle => cl[g][2] \in Vpdo
  BY CleanupLocals DEF HubInv
<1>5. \A g \in Fo : cl[g][1] \in {"fo", "context"} => cl[g] # Idle
  BY CleanupStep
<1>6. pl[v][1] # "claimed"
  BY <1>1, PluginStep
<1> HIDE DEF v
<1>7. CASE CleanupFo(f)
  <2>1. /\ cl[f][1] = "fo" /\ fo'[v] = NoFo /\ UNCHANGED <<FsContext, un>>
        /\ \A w \in Vpdo : w # v => fo'[w] = fo[w]
        /\ cl'[f] = <<"context", v>>
    BY <1>1, <1>7 DEF CleanupFo, HubInv, Types, v
  <2>2. cl'[f][1] = "context" /\ cl'[f][2] = v /\ fo[v] \in {f, NoFo} /\ un[f] = Idle
    BY <1>1, <2>1 DEF FileInv, Cleaning, CleaningOf, v
  <2>3. Named'
    <3> SUFFICES ASSUME NEW g \in Fo, NEW w \in Vpdo,
                        FsContext[g] = w, cl'[g][1] # "context"
                 PROVE  /\ obj[w] = "live" /\ pl[w][1] # "created"
                        /\ rm[w][1] \notin {"fo", "delete"}
                        /\ IF pl[w][1] = "claimed" THEN pl[w][2] = g ELSE fo'[w] = g
      BY <1>2, <2>1 DEF Named
    <3>1. g # f /\ cl[g][1] # "context"
      BY <1>2, <2>2
    <3>2. w # v
      BY <1>n, <1>6, <2>2, <3>1 DEF FileInv, Named
    <3> QED
      BY <2>1, <3>1, <3>2 DEF FileInv, Named
  <2>4. NamedBack'
    BY <1>n, <1>2, <2>1 DEF FileInv, NamedBack
  <2>5. Plugging'
    BY <1>1, <1>2, <2>1 DEF FileInv, Plugging, PluggingIn
  <2>6. \A g \in Fo : g # f => CleaningOf(g)'
    BY <1>2, <1>3, <1>4, <1>5, <2>1 DEF FileInv, Cleaning, CleaningOf
  <2>7. CleaningOf(f)'
    BY <1>1, <1>2, <1>3, <2>1, <2>2 DEF FileInv, Cleaning, CleaningOf, v
  <2>8. Removing'
    BY <1>2, <2>1 DEF FileInv, Removing, RemovingOf
  <2> QED
    BY <2>3, <2>4, <2>5, <2>6, <2>7, <2>8 DEF FileInv, Cleaning
<1>8. CASE CleanupContext(f)
  <2>1. /\ cl[f][1] = "context" /\ UNCHANGED <<fo, un>>
        /\ FsContext'[f] = NoVpdo /\ \A g \in Fo : g # f => FsContext'[g] = FsContext[g]
        /\ cl'[f] = <<"test", v>>
    BY <1>8 DEF CleanupContext, HubInv, Types, v
  <2>2. /\ cl'[f][1] = "test" /\ cl'[f][2] = v /\ fo[v] = NoFo /\ un[f] = Idle
        /\ FsContext[f] \in {v, NoVpdo}
    BY <1>1, <2>1 DEF FileInv, Cleaning, CleaningOf, v
  <2>3. Named'
    BY <1>n, <1>2, <2>1 DEF FileInv, Named
  <2>4. NamedBack'
    BY <1>n, <1>2, <2>1, <2>2 DEF FileInv, NamedBack
  <2>5. Plugging'
    <3> SUFFICES ASSUME NEW w \in Vpdo, PluggingIn(w), pl[w][1] # "created"
                 PROVE  FsContext'[pl[w][2]] = w
      BY <1>2, <2>1 DEF FileInv, Plugging, PluggingIn
    <3>1. pl[w][2] \in Fo /\ pl[w][2] \notin closed /\ FsContext[pl[w][2]] = w
      BY PluginLocals DEF FileInv, Plugging, PluggingIn, HubInv
    <3> QED
      BY <1>1, <2>1, <3>1
  <2>6. \A g \in Fo : g # f => CleaningOf(g)'
    BY <1>2, <1>3, <2>1 DEF FileInv, Cleaning, CleaningOf
  <2>7. CleaningOf(f)'
    BY <1>1, <1>2, <1>3, <2>1, <2>2 DEF CleaningOf
  <2>8. Removing'
    BY <1>1, <1>2, <2>1 DEF FileInv, Removing, RemovingOf
  <2> QED
    BY <2>3, <2>4, <2>5, <2>6, <2>7, <2>8 DEF FileInv, Cleaning
<1>9. CASE CleanupTest(f)
  <2>1. cl[f][1] = "test" /\ UNCHANGED <<fo, FsContext>> /\ cl'[f] = Idle
    BY <1>9 DEF CleanupTest, HubInv, Types
  <2>2. cl'[f][1] = "idle" /\ FsContext[f] = NoVpdo
    BY <1>1, <2>1 DEF FileInv, Cleaning, CleaningOf, Idle
  <2>3. Named' /\ NamedBack'
    BY <1>n, <1>2, <2>1, <2>2 DEF FileInv, Named, NamedBack
  <2>4. Plugging' /\ Removing'
    BY <1>2, <2>1 DEF FileInv, Plugging, PluggingIn, Removing, RemovingOf
  <2>5. \A g \in Fo : g # f => CleaningOf(g)'
    BY <1>2, <1>3, <2>1 DEF FileInv, Cleaning, CleaningOf
  <2>6. CleaningOf(f)'
    BY <1>1, <1>2, <2>1, <2>2 DEF CleaningOf
  <2> QED
    BY <2>3, <2>4, <2>5, <2>6 DEF FileInv, Cleaning
<1> QED
  BY <1>7, <1>8, <1>9

\* Files and devices name each other, whatever plug-in, cleanup and removal do.
LEMMA FileStep ==
  ASSUME HubInv, FileInv, [Next]_vars
  PROVE  FileInv'
<1>0. Removed'
  BY RemovedStep
<1>n. NoFo \notin Fo /\ NoVpdo \notin Vpdo
  BY ConstantsAssumption
<1>1. CASE UNCHANGED vars
  BY <1>0, <1>1, QuietFiles DEF vars, files
<1>2. ASSUME NEW v \in Vpdo, NEW f \in Fo, PluginCreate(v, f)
      PROVE  FileInv'
  <2>1. PICK p \in Ports : pl' = [pl EXCEPT ![v] = <<"created", f, p>>]
    BY <1>2 DEF PluginCreate
  <2>2. /\ obj[v] = "none" /\ obj' = [obj EXCEPT ![v] = "live"] /\ f \notin closed
        /\ UNCHANGED <<fo, FsContext, closed, cl, rm, un>>
    BY <1>2 DEF PluginCreate, files
  <2>3. /\ pl'[v] = <<"created", f, p>> /\ obj'[v] = "live"
        /\ \A w \in Vpdo : w # v => pl'[w] = pl[w] /\ obj'[w] = obj[w]
    BY <2>1, <2>2 DEF HubInv, Types
  <2>7. \A g \in Fo : cl[g] # Idle => cl[g][2] \in Vpdo /\ cl[g][2] # v
    BY <2>2, CleanupLocals DEF FileInv, Cleaning, CleaningOf, HubInv, NotYet
  <2>4. \A g \in Fo : FsContext[g] # v
    BY <2>2, <2>7, <1>n, CleanupStep DEF FileInv, Named, Cleaning, CleaningOf
  <2>5. Named'
    BY <2>2, <2>3, <2>4 DEF FileInv, Named
  <2>6. Plugging'
    BY <2>2, <2>3 DEF FileInv, Plugging, PluggingIn
  <2>8. Cleaning'
    <3>1. \A g \in Fo : cl[g][1] \in {"fo", "context"} => cl[g] # Idle
      BY CleanupStep
    <3> QED
      BY <2>2, <2>3, <2>7, <3>1 DEF FileInv, Cleaning, CleaningOf, NotYet, PluggingIn
  <2>9. Removing' /\ NamedBack'
    BY <2>2 DEF FileInv, Removing, RemovingOf, NamedBack
  <2> QED
    BY <1>0, <2>2, <2>5, <2>6, <2>8, <2>9 DEF FileInv
<1>3. ASSUME NEW v \in Vpdo, Plugin(v)
      PROVE  FileInv'
  BY <1>0, <1>3, PluginFiles
<1>4. ASSUME NEW v \in Vpdo,
             \/ Start(v) \/ Stop(v) \/ CancelRemove(v) \/ SurpriseRemoval(v)
             \/ QueryRemove(v) \/ Eject(v) \/ Remove(v)
      PROVE  FileInv'
  BY <1>0, <1>4, QuietFiles DEF Start, Stop, CancelRemove, SurpriseRemoval, QueryRemove,
       Eject, Remove, files
<1>5. ASSUME NEW v \in Vpdo, RemoveDevice(v)
      PROVE  FileInv'
  <2>1. /\ rm[v][1] = "delete" /\ obj' = [obj EXCEPT ![v] = "deleted"]
        /\ rm' = [rm EXCEPT ![v] = NoRemoval]
        /\ UNCHANGED <<FsContext, fo, closed, cl, pl, un>>
    BY <1>5 DEF RemoveDevice
  <2>2. ~NotYet(v) /\ ~PluggingIn(v)
    BY <2>1, RemovalLocals DEF HubInv, Fresh, NotYet
  <2>3. /\ \A w \in Vpdo : w # v => obj'[w] = obj[w] /\ rm'[w] = rm[w]
        /\ rm'[v][1] = "idle"
    BY <2>1 DEF HubInv, Types, NoRemoval
  <2>4. Named' /\ NamedBack'
    BY <2>1, <2>3 DEF FileInv, Named, NamedBack
  <2>5. Plugging'
    BY <2>1, <2>2, <2>3 DEF FileInv, Plugging, PluggingIn
  <2>6. \A w \in Vpdo : NotYet(w)' <=> NotYet(w)
    BY <2>1, <2>2, <2>3 DEF NotYet, PluggingIn, HubInv, Types
  <2>7. \A f \in Fo : cl[f] # Idle => cl[f][2] \in Vpdo
    BY CleanupLocals DEF HubInv
  <2>8. Cleaning'
    BY <2>1, <2>6, <2>7 DEF FileInv, Cleaning, CleaningOf
  <2>9. Removing'
    BY <2>1, <2>3 DEF FileInv, Removing, RemovingOf
  <2> QED
    BY <1>0, <2>4, <2>5, <2>8, <2>9 DEF FileInv
<1>10. ASSUME NEW v \in Vpdo, InvalidateTest(v) \/ InvalidateContext(v) \/ InvalidateFo(v)
       PROVE  FileInv'
  BY <1>0, <1>10, InvalidateFiles
<1>6. ASSUME NEW t \in Client \cup Fo,
             UnplugAll(t) \/ (\E p \in Ports : t \in Client /\ UnplugPort(t, p)) \/ UnplugFind(t)
             \/ UnplugMark(t)
      PROVE  FileInv'
  <2>1. UNCHANGED <<FsContext, closed, cl, rm, pl, obj, fo>>
    BY <1>6 DEF UnplugAll, UnplugPort, UnplugFind, UnplugMark, files
  <2>2. \A f \in Fo : un[f] = Idle => un'[f] = Idle
    <3>1. CASE UnplugAll(t)
      BY <3>1 DEF UnplugAll
    <3>2. CASE t \in Client /\ \E p \in Ports : UnplugPort(t, p)
      BY <3>2, ConstantsAssumption DEF UnplugPort, HubInv, Types
    <3>3. CASE UnplugFind(t) \/ UnplugMark(t)
      <4>1. un[t] # Idle
        BY <3>3 DEF UnplugFind, UnplugMark, Idle
      <4> QED
        BY <3>3, <4>1 DEF UnplugFind, UnplugMark, HubInv, Types
    <3> QED
      BY <1>6, <3>1, <3>2, <3>3
  <2> QED
    BY <1>0, <2>1, <2>2, QuietFiles
<1>7. ASSUME NEW f \in Fo, Cleanup(f) \/ CleanupVpdo(f)
      PROVE  FileInv'
  BY <1>0, <1>7, CleanupBegins, CleanupFiles DEF CleanupVpdo
<1>9. CASE GetBusRelations
  BY <1>0, <1>9, QuietFiles DEF GetBusRelations, files
<1> QED
  BY <1>1, <1>2, <1>3, <1>4, <1>5, <1>6, <1>7, <1>9, <1>10 DEF Next, Removal

\* Files and devices name each other throughout.
LEMMA FileInvariant == Spec => []FileInv
<1>1. Init => FileInv
  BY ConstantsAssumption DEF Init, FileInv, Named, NamedBack, Plugging, PluggingIn, Cleaning,
     CleaningOf, Removing, RemovingOf, Removed, Idle, NoRemoval
<1>2. HubInv /\ FileInv /\ [Next]_vars => FileInv'
  BY FileStep
<1> QED
  BY <1>1, <1>2, HubInvariant, PTL DEF Spec

\* A file object names no device object that was deleted, for any number of files
\* and devices and any interleaving of the single writes of plug-ins, cleanups and
\* removals, but between the two writes of its own cleanup.
THEOREM ContextsAreLive == Spec => []ContextLive
<1>1. HubInv /\ FileInv => ContextLive
  <2> SUFFICES ASSUME HubInv, FileInv, NEW f \in Fo, FsContext[f] # NoVpdo,
                      cl[f][1] # "context"
               PROVE  /\ obj[FsContext[f]] = "live"
                      /\ ~PluggingIn(FsContext[f]) => fo[FsContext[f]] = f
    BY DEF ContextLive
  <2>1. PICK v \in Vpdo : v = FsContext[f]
    BY DEF HubInv, Types
  <2> QED
    BY <2>1 DEF FileInv, Named, PluggingIn, NoPlugin
<1> QED
  BY <1>1, HubInvariant, FileInvariant, PTL

\* A device whose file is closed is about to be unplugged.
Unplugging ==
  \A v \in Plugged :
    fo[v] = NoFo => \E f \in Fo : \/ un[f] \in {<<"find", port[v]>>, <<"mark", v>>}
                                  \/ cl[f] \in {<<"context", v>>, <<"test", v>>}

\* A step that takes no device from its file and stops no cleanup.
LEMMA QuietUnplugging ==
  ASSUME Unplugging, Plugged' \subseteq Plugged,
         \A v \in Plugged' : fo'[v] = fo[v] /\ port'[v] = port[v],
         \A f \in Fo : un'[f] = un[f] /\ cl'[f] = cl[f]
  PROVE  Unplugging'
BY DEF Unplugging

\* While ports are unique, the cleanup of a file unplugs the device it means.
LEMMA ClosedStep ==
  ASSUME HubInv, FileInv, UniquePort, Unplugging, [Next]_vars
  PROVE  Unplugging'
<1>n. NoFo \notin Fo /\ NoVpdo \notin Vpdo /\ Client \cap Fo = {}
  BY ConstantsAssumption
<1>t. head_vpdo \subseteq Vpdo /\ Plugged \subseteq head_vpdo
  BY DEF HubInv, Types, Plugged
<1>1. CASE UNCHANGED vars
  BY <1>1, QuietUnplugging DEF vars, hub, files, Plugged
<1>2. ASSUME NEW v \in Vpdo, PluginClaim(v) \/ \E f \in Fo : PluginCreate(v, f)
      PROVE  Unplugging'
  BY <1>2, QuietUnplugging DEF PluginClaim, PluginCreate, hub, files, Plugged
<1>3. ASSUME NEW v \in Vpdo, PluginInit(v)
      PROVE  Unplugging'
  <2>1. v \notin head_vpdo
    BY <1>3, PluginStep DEF PluginInit, HubInv, Fresh, NotYet
  <2> QED
    BY <1>3, <1>t, <2>1, QuietUnplugging DEF PluginInit, hub, files, Plugged, HubInv, Types
<1>4. ASSUME NEW v \in Vpdo, PluginAttach(v)
      PROVE  Unplugging'
  <2>1. PluggingIn(v) /\ pl[v] # NoPlugin
    BY <1>4, PluginStep DEF PluginAttach, PluggingIn
  <2>2. fo[v] # NoFo
    BY <1>4, <1>n, <2>1, PluginLocals DEF PluginAttach, FileInv, Plugging, HubInv
  <2>3. Plugged' \subseteq Plugged \cup {v} /\ UNCHANGED <<fo, port, un, cl>>
    BY <1>4 DEF PluginAttach, AttachVpdo, Plugged, files
  <2> QED
    BY <2>2, <2>3 DEF Unplugging
<1>5. ASSUME NEW v \in Vpdo, Start(v) \/ Stop(v) \/ CancelRemove(v) \/ SurpriseRemoval(v)
      PROVE  Unplugging'
  BY <1>5, QuietUnplugging DEF Start, Stop, CancelRemove, SurpriseRemoval, hub, files, Plugged
<1>6. ASSUME NEW v \in Vpdo, QueryRemove(v) \/ Eject(v) \/ Remove(v)
      PROVE  Unplugging'
  <2>1. Plugged' \subseteq Plugged
    BY <1>6, <1>t DEF QueryRemove, Eject, Remove, MarkUnplugged, DetachVpdo, Plugged
  <2>2. UNCHANGED <<fo, port, un, cl>>
    BY <1>6 DEF QueryRemove, Eject, Remove, files
  <2> QED
    BY <2>1, <2>2, QuietUnplugging
<1>7. ASSUME NEW v \in Vpdo,
             RemoveDevice(v) \/ InvalidateTest(v) \/ InvalidateContext(v) \/ InvalidateFo(v)
      PROVE  Unplugging'
  <2>1. v \notin head_vpdo
    BY <1>7, RemovalLocals DEF RemoveDevice, InvalidateTest, InvalidateContext, InvalidateFo,
       FileInv, Removed, HubInv
  <2>2. /\ Plugged' = Plugged /\ UNCHANGED <<port, un, cl>>
        /\ \A w \in Vpdo : w # v => fo'[w] = fo[w]
    BY <1>7 DEF RemoveDevice, InvalidateTest, InvalidateContext, InvalidateFo, hub, Plugged,
       HubInv, Types
  <2> QED
    BY <1>t, <2>1, <2>2, QuietUnplugging
<1>8. ASSUME NEW t \in Client, UnplugAll(t) \/ \E p \in Ports : UnplugPort(t, p)
      PROVE  Unplugging'
  <2>1. Plugged' \subseteq Plugged
    BY <1>8, <1>t DEF UnplugAll, UnplugPort, MarkUnplugged, Plugged, hub
  <2>2. UNCHANGED <<fo, port, cl>> /\ \A f \in Fo : un'[f] = un[f]
    BY <1>8, <1>n DEF UnplugAll, UnplugPort, files, HubInv, Types
  <2> QED
    BY <2>1, <2>2, QuietUnplugging
<1>9. ASSUME NEW t \in Client \cup Fo, UnplugFind(t)
      PROVE  Unplugging'
  <2>1. /\ un[t][1] = "find" /\ UNCHANGED <<fo, port, cl>> /\ Plugged' = Plugged
        /\ \A f \in Fo : f # t => un'[f] = un[f]
    BY <1>9 DEF UnplugFind, hub, files, Plugged, HubInv, Types
  <2>2. ASSUME NEW v \in Plugged, un[t] \in {<<"find", port[v]>>, <<"mark", v>>}
        PROVE  un'[t] = <<"mark", v>>
    <3>1. un[t][2] = port[v]
      BY <2>1, <2>2
    <3>2. PICK w \in Vpdo : FindVpdo(port[v], w) /\ un' = [un EXCEPT ![t] = <<"mark", w>>]
      BY <1>9, <1>t, <3>1 DEF UnplugFind
    <3>3. w = v
      BY <1>t, <3>2 DEF FindVpdo, UniquePort
    <3> QED
      BY <3>2, <3>3 DEF HubInv, Types
  <2>3. SUFFICES ASSUME NEW v \in Plugged, fo[v] = NoFo
                 PROVE  \E f \in Fo : \/ un'[f] \in {<<"find", port[v]>>, <<"mark", v>>}
                                     \/ cl[f] \in {<<"context", v>>, <<"test", v>>}
    BY <2>1 DEF Unplugging
  <2>4. PICK f \in Fo : \/ un[f] \in {<<"find", port[v]>>, <<"mark", v>>}
                        \/ cl[f] \in {<<"context", v>>, <<"test", v>>}
    BY <2>3 DEF Unplugging
  <2> QED
    BY <2>1, <2>2, <2>4
<1>10. ASSUME NEW t \in Client \cup Fo, UnplugMark(t)
       PROVE  Unplugging'
  <2>1. un[t] \in {"mark"} \X Vpdo
    BY <1>10 DEF UnplugMark, HubInv, Types, Idle
  <2>2. PICK w \in Vpdo : un[t] = <<"mark", w>>
    BY <2>1
  <2>3. /\ Plugged' = Plugged \ {w} /\ UNCHANGED <<fo, port, cl>>
        /\ \A f \in Fo : f # t => un'[f] = un[f]
    <3>1. MarkUnplugged({un[t][2]}) /\ un[t][2] = w
      BY <1>10, <2>2 DEF UnplugMark
    <3>2. plugged' = [v \in Vpdo |-> plugged[v] /\ v # w] /\ head_vpdo' = head_vpdo
      BY <3>1 DEF MarkUnplugged
    <3>3. Plugged' = Plugged \ {w}
      BY <1>t, <3>2 DEF Plugged
    <3> QED
      BY <1>10, <3>3 DEF UnplugMark, files, HubInv, Types
  <2>4. SUFFICES ASSUME NEW v \in Plugged, v # w, fo[v] = NoFo
                 PROVE  \E f \in Fo : \/ un'[f] \in {<<"find", port[v]>>, <<"mark", v>>}
                                     \/ cl[f] \in {<<"context", v>>, <<"test", v>>}
    BY <2>3 DEF Unplugging
  <2>5. PICK f \in Fo : \/ un[f] \in {<<"find", port[v]>>, <<"mark", v>>}
                        \/ cl[f] \in {<<"context", v>>, <<"test", v>>}
    BY <2>4 DEF Unplugging
  <2>6. un[f] \in {<<"find", port[v]>>, <<"mark", v>>} => f # t
    BY <2>2, <2>4
  <2> QED
    BY <2>3, <2>5, <2>6
<1>11. ASSUME NEW f \in Fo, Cleanup(f)
       PROVE  Unplugging'
  <2>1. /\ cl[f] = Idle /\ \A g \in Fo : g # f => cl'[g] = cl[g]
        /\ UNCHANGED <<fo, port, un>> /\ Plugged' = Plugged
    BY <1>11 DEF Cleanup, hub, Plugged, FileInv, Cleaning, CleaningOf, HubInv, Types
  <2>2. \A v : cl[f] \notin {<<"context", v>>, <<"test", v>>}
    BY <2>1 DEF Idle
  <2> QED
    BY <2>1, <2>2 DEF Unplugging
<1>12. ASSUME NEW f \in Fo, CleanupFo(f) \/ CleanupContext(f)
       PROVE  Unplugging'
  <2>1. PICK v \in Vpdo : /\ v = cl[f][2] /\ cl[f] = <<cl[f][1], v>>
                          /\ cl[f][1] \in {"fo", "context"}
    BY <1>12, CleanupStep, CleanupLocals DEF CleanupFo, CleanupContext, HubInv
  <2>2. /\ \A w \in Vpdo : w # v => fo'[w] = fo[w]
        /\ cl'[f] \in {<<"context", v>>, <<"test", v>>}
        /\ \A g \in Fo : g # f => cl'[g] = cl[g]
        /\ UNCHANGED <<port, un>> /\ Plugged' = Plugged
    BY <1>12, <2>1 DEF CleanupFo, CleanupContext, HubInv, Types, Plugged, hub
  <2>3. SUFFICES ASSUME NEW w \in Plugged, fo'[w] = NoFo
                 PROVE  \E g \in Fo : \/ un[g] \in {<<"find", port[w]>>, <<"mark", w>>}
                                     \/ cl'[g] \in {<<"context", w>>, <<"test", w>>}
    BY <2>2 DEF Unplugging
  <2>4. CASE w = v
    BY <2>2, <2>4
  <2>5. CASE w # v
    <3>1. PICK g \in Fo : \/ un[g] \in {<<"find", port[w]>>, <<"mark", w>>}
                          \/ cl[g] \in {<<"context", w>>, <<"test", w>>}
      BY <1>t, <2>2, <2>3, <2>5 DEF Unplugging
    <3>2. cl[g] \in {<<"context", w>>, <<"test", w>>} => g # f
      BY <2>1, <2>5
    <3> QED
      BY <2>2, <3>1, <3>2
  <2> QED
    BY <2>4, <2>5
<1>14. ASSUME NEW f \in Fo, CleanupTest(f)
       PROVE  Unplugging'
  <2>1. PICK v \in Vpdo : v = cl[f][2] /\ cl[f] = <<"test", v>>
    BY <1>14, CleanupStep, CleanupLocals DEF CleanupTest, HubInv
  <2>2. /\ un'[f] = IF plugged[v] THEN <<"find", port[v]>> ELSE Idle
        /\ \A g \in Fo : g # f => un'[g] = un[g] /\ cl'[g] = cl[g]
        /\ UNCHANGED <<fo, port>> /\ Plugged' = Plugged
    BY <1>14, <2>1 DEF CleanupTest, HubInv, Types, Plugged, hub
  <2>3. un[f] = Idle
    <3>1. cl[f] # Idle
      BY <1>14, CleanupStep DEF CleanupTest
    <3> QED
      BY <3>1 DEF FileInv, Cleaning, CleaningOf
  <2>4. SUFFICES ASSUME NEW w \in Plugged, fo[w] = NoFo
                 PROVE  \E g \in Fo : \/ un'[g] \in {<<"find", port[w]>>, <<"mark", w>>}
                                     \/ cl'[g] \in {<<"context", w>>, <<"test", w>>}
    BY <2>2 DEF Unplugging
  <2>5. CASE w = v
    BY <2>2, <2>5 DEF Plugged
  <2>6. CASE w # v
    <3>1. PICK g \in Fo : \/ un[g] \in {<<"find", port[w]>>, <<"mark", w>>}
                          \/ cl[g] \in {<<"context", w>>, <<"test", w>>}
      BY <2>4 DEF Unplugging
    <3>2. g # f
      BY <2>1, <2>3, <2>6, <3>1 DEF Idle
    <3> QED
      BY <2>2, <3>1, <3>2
  <2> QED
    BY <2>5, <2>6
<1>13. CASE GetBusRelations
  BY <1>13, QuietUnplugging DEF GetBusRelations, hub, files, Plugged
<1> QED
  BY <1>1, <1>2, <1>3, <1>4, <1>5, <1>6, <1>7, <1>8, <1>9, <1>10, <1>11, <1>12, <1>13,
     <1>14
  DEF Next, Plugin, Removal, CleanupVpdo

\* Until two devices have had one port, a device that has lost its client is about
\* to be unplugged, for any number of devices, files, clients and ports.
THEOREM NoOrphan == Spec => []ClosedIsUnplugged
<1>1. Init => ClosedIsUnplugged
  BY DEF Init, ClosedIsUnplugged, Plugged
<1>2. HubInv /\ FileInv /\ PortInv /\ ClosedIsUnplugged /\ [Next]_vars => ClosedIsUnplugged'
  <2> SUFFICES ASSUME HubInv, FileInv, PortInv, ClosedIsUnplugged, [Next]_vars, ~shared'
               PROVE  Unplugging'
    BY DEF ClosedIsUnplugged, Unplugging
  <2>1. ~shared
    BY PortStep
  <2>2. UniquePort /\ Unplugging
    BY <2>1 DEF PortInv, ClosedIsUnplugged, Unplugging
  <2> QED
    BY <2>2, ClosedStep
<1> QED
  BY <1>1, <1>2, HubInvariant, FileInvariant, PortInvariant, PTL DEF Spec
=============================================================================
