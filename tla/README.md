# usbip-win in TLA+

TLA+ models of usbip-win, TLC runs that check them on small instances, and TLAPS
proofs of what matters most for instances of any size. Paths below are relative to
the repository root, `src/`.

## The system

usbip-win lets a Windows machine use a USB device that is plugged into another one,
or lend its own. Two kernel drivers and three user-space programs take part:

    class driver                                        USB device
        | URBs                                              | URBs
    driver/vhci (or vhci_ude)                           driver/stub
        | read: commands, write: answers                    | write: commands, read: answers
    forwarder in attacher  <---- TCP, USB/IP ---->  forwarder in usbipd

* **`driver/vhci`** is a virtual host controller (WDM). For every imported device it
  has a *vpdo*, on a port of its virtual hub. Class drivers send it URBs; each becomes
  a USB/IP command that the forwarder reads through the file it plugged the device in
  with, and is completed when the forwarder writes the answer.
* **`driver/vhci_ude`** is a second implementation of the same on Microsoft's UDE
  framework.
* **`driver/stub`** takes a real device over. The forwarder writes the client's
  commands; the driver hands them to the USB stack and queues the results, which the
  forwarder reads as a stream.
* **`userspace/lib/usbip_forward.c`** pumps messages between a driver and a socket,
  with overlapped I/O and completion callbacks.
* **`userspace/src/usbipd`** is the server: it accepts clients on a thread pool, lists
  and exports devices and starts consumer threads that forward.
* **`userspace/src/usbip`**, **`attacher`** are the client: command line, the
  import handshake, and the process that forwards.

### Components, their state and what is hard about them

| component | state | operations | hard behaviour | correct when |
|---|---|---|---|---|
| vhci: URB queue (`usbreq.c`, `vhci_internal_ioctl.c`, `vhci_read.c`, `vhci_write.c`, `vhci_pnp_remove.c`) | per vpdo: three lists of `urb_req`, a waiting read, a partly sent `urb_req`, a sequence counter, under `lock_urbr`; the cancel routine of every IRP | submit, read, write, cancel (URB or read), abort pipe, unplug, remove | all of them run at once; headers and payloads are copied outside the lock; an IRP belongs to whoever takes its cancel routine | every IRP is completed once, and in the end; commands go out in order under distinct numbers; nothing freed is used |
| vhci: ports and plug-in (`vhci_plugin.c`, `vhci_vhub.c`, `vhci.c`, `vhci_pnp*.c`) | the hub's list and counters under `vhub->Mutex`; port, file, plugged flag and PnP state of each vpdo | plug in, unplug one or all, close, eject, query/start/stop/remove, bus relations | a port is chosen and taken in two critical sections; `FsContext` and `fo` have no lock; unplugging goes by port number | the counters fit the list; no device outlives its client, no file names a deleted device; ports are freed (that they are unique does not hold) |
| vhci: descriptors, power, WMI | tables | answer queries | none of their own | |
| vhci_ude: URB queue (`vhci_urbr.c`, `vhci_read.c`, `vhci_write.c`, `vhci_queue_*.c`, `vhci_ep.c`) | per vusb: three lists of `urb_req`, a waiting read, a partly sent `urb_req`, under `spin_lock`; the cancelable flag of every request | a request of an endpoint, a configuration change, read, write, cancellation by the framework, plug-out | endpoint queues and the controller's queue run at once, `ep_configure` under neither; a cancellation begins in the framework, outside the driver's lock | as vhci |
| vhci_ude: ports (`vhci_plugin.c`, `vhci_plugout.c`, `vhci_vusb.c`, `vhci_ioctl.c`) | table of ports, `n_used_ports`, a reference count and an `invalid` flag per vusb; a port number per file | plug in, plug out, shut down, close | references are dropped by work items; a file remembers a port, not a device | counts fit; no device is used after its deletion, each is deleted in the end |
| vhci_ude: conversion (`vhci_urbr_store*.c`, `vhci_urbr_fetch*.c`) | none | URB to command, answer to URB | the receiver measures a message from its header alone; isochronous packets are packed and unpacked; status codes change twice | the device is asked what the class driver asked, and the class driver is told what it did |
| stub: results (`stub_res.c`, `stub_write.c`, `stub_read.c`, `stub_usbd.c`) | lists of pending and done results, the result being sent and how much of it, the waiting read, under `lock_stub_res` | write a command or an unlink, read, cancel the read, completion by the USB stack | completions run on any thread, in any order; results are cut by the reads; an unlink races with its completion | the stream is whole results, each once; no read waits while there is something to send; every transfer is answered |
| stub: removal lock (`stub_dev.c`, `stub_pnp.c`, `stub_power.c`) | a counter, a flag, an event; no spin lock | lock, unlock, remove | interlocked operations only | nobody holds a share when the device is closed; the removal does not hang |
| forwarder | two buffers per direction, header cache, completion state | read, write, completion callbacks, cancel | callbacks interleave; partial messages; a table of 1024 entries for all connections | messages go through whole, in order, with their headers converted exactly once |
| usbipd: threads (`usbipdThreadpool.c`, `usbipConsumerThread.c`) | device list, connection list, consumer list; per connection two chains of buffers and two events | import, read, write, exchange buffers, stop | three threads per connection and one per device on shared lists and buffers without locks; a flag per translation unit | commands and answers go through whole, once, in order; no lost wake-up; threads stop |
| usbipd: requests (`usbipd.c`, `usbipd_accept.c`, `usbipd_import.c`, `usbipd_list.c`) | listeners, the connection being served | accept, list, import | one thread serves all requests; it starts threads on a connection before it replies on it | every client is answered; a socket is not closed under its threads |
| usbip, attacher | a socket, a driver handle, a pipe between the two | list, attach, detach | the handshake may stop at any step, by an error, a lost process or a lost connection | messages are not mistaken for others; a device that is plugged in is forwarded or unplugged |

How they interact: class drivers, the PnP manager and the forwarder call into a driver
on threads of their own; inside vhci, the removal of a vpdo (PnP) meets the URB queue in
`invalidate_vpdo` and the file object in `FsContext`; the forwarder shares with the
drivers the protocol "read a header, then as much payload as it announces". The tool hands
its socket and its driver handle over to the attacher, and the server's request thread hands
a connection over to the threads that forward.

`PROJECT.json` lists the components with their files, the main hazards at their lines, with
the property that covers each or why none does, and the source lines of every definition;
further hazards are listed below, under "Other hazards".

## Modules

| module | models | instances | proofs |
|---|---|---|---|
| `UrbService` | what a virtual host controller promises about requests and their numbers (abstract) | | |
| `VhciUrb` | the URB queue of one vpdo; implements `UrbService` | `MCVhciUrb` | `VhciUrbProofs` |
| `UdeUrb` | the URB queue of one vusb of the UDE driver; implements `UrbService` | `MCUdeUrb` | `UdeUrbProofs` |
| `VhubPorts` | the hub, its ports and the life of its vpdos | `MCVhubPorts` | `VhubPortsProofs` |
| `UdePorts` | the ports of the UDE driver and the life of its vusbs | `MCUdePorts` | `UdePortsProofs` |
| `StubRes` | the result queue of one exported device | `MCStubRes` | `StubResProofs` |
| `StubRemoveLock` | the removal lock of one exported device | `MCStubRemoveLock` | `StubRemoveLockProofs` |
| `UrbConv` | the conversions of the UDE driver, as operators | | |
| `UrbWire` | a request from the UDE driver through both forwarders and the stub, and back (composes `UrbConv` with the forwarders and the stub) | `MCUrbWire` | |
| `Pool` | the threads and buffers of the server that forward for one exported device | `MCPool` | `PoolProofs` |
| `Session` | tool, attacher, request thread and connections: how a device gets to a client | `MCSession` | `SessionProofs` |

In the models of the drivers one step is one critical section of the component's lock, or
the code between two of them that other threads can observe; `StubRemoveLock`, where the
code has no lock, steps at every interlocked operation, `Pool` at every turn of a thread's
loop, wait and completion routine, `Session` at every send, receive, and system call that
may fail. A thread is a program counter and its locals (`sub`, `rd`, `wr_urbr`, `can`,
`abt`, `rem` in `VhciUrb`; `sub`, `can`, `hc...` in `UdeUrb`; `pl`, `cl`, `un` in
`VhubPorts`; `hc...` and `work` in `UdePorts`; the threads of `StubRes`; `pc`, `rem`,
`setting` in `StubRemoveLock`; `producer`, `reader`, `refresher`, `consumer` in `Pool`;
`tool`, `attacher`, `server`, `thread` in `Session`), so that everything another thread may
do in between happens. Fields keep the names they have in the code.

**`UrbService`.** Three facts per request: submitted or not, completed or not, and its
number. A request gets at most one number, the next one; it is completed at most once; an
unlink takes a number of its own. `VhciUrb!Service` and `UdeUrb!Service` are the instances,
`ServiceSpec` the property that the detailed specification implements it.

**`VhciUrb`.** `InternalIoctl`/`Submit...` are `submit_urbr`, `Read...` is
`process_read_irp`, `Write`, `WriteDone` are `process_write_irp`, `IoCancelIrp`,
`RemoveCancelledUrbr`, `SubmitUnlink`, `CancelUrbrDone` are a cancelled URB,
`PendingReadCancelled` is a cancelled read, `AbortPipe...` is `vhci_ioctl_abort_pipe`,
`Unplug` and `Remove...` are the removal. USB/IP messages are reduced to what the queue
looks at: does the command have a payload, does it fit the read, does storing it reset a
pipe, does it fail. A `urb_req` that has been freed keeps its contents: a thread that
still has a pointer to it goes on with them, as it does in the driver until the memory is
handed out again. Reading through the NULL IRP of an unlink stops the machine; the model
stops that reader.

**`UdeUrb`.** `InternalDeviceControl` and `EpConfigure` are the two ways to
`submit_urbr`, whose critical sections are `SubmitInvalid` ... `SubmitFailed`; `IoRead`,
`ReadPartial` ... `ReadFailed` are `io_read`; `IoWrite`, `WriteDone` are `io_write`;
`CancelUrb` is the framework's decision to cancel and `UrbrCancelled`,
`UrbrCancelledDone` the driver's callback; `CancelRead`, `ReqReadCancelled` are the same
for a read; `PlugOut`, `Abort...` are the plug-out. The framework is external: `EpBusy` and
`hc` are its synchronisation of the queues (one callback at a time per queue), `mark` is
what `WdfRequestMarkCancelable` and `WdfRequestUnmarkCancelable` say about a request.
`fwd`, `expect` and `wire` are the forwarder: it reads a header, then the payload.

**`VhubPorts`.** `PluginCreate` ... `PluginAttach` are `vhci_plugin_vpdo`, `UnplugPort`,
`UnplugAll`, `UnplugFind`, `UnplugMark` are `vhci_unplug_port`; `GetBusRelations`, `Start`,
`Stop`, `QueryRemove`, `CancelRemove`, `Eject`, `SurpriseRemoval`, `Remove`, `RemoveDevice` are
the handlers of the PnP requests of a vpdo. `FsContext` and `fo` have no lock, so every read and
write of them that another thread may meet is a step of its own: `Cleanup` reads `FsContext`,
and `CleanupVpdo` clears `fo`, clears `FsContext` and tests `plugged` one after the other
(`cl`); `InvalidateTest`, `InvalidateContext`, `InvalidateFo` are the test of `fo` and the two
writes at the end of `invalidate_vpdo` (`rm`). The PnP manager is external: `node` is what it
knows of a device, and the guards on `node` and on `DevicePnPState` are its protocol (it starts
what has been reported, surprise-removes what has been started and is missing, removes after
either query or surprise removal). `IoInvalidateDeviceRelations` for `BusRelations`, be it of
the host controller (plug-in) or of the hub (unplugging), makes it enumerate the tree below, hub
included. Device objects are created in the order of their names. `Parties` says who may be
there, `shared` remembers that two devices of the hub have had one port.

**`UdePorts`.** `PlugIn` ... `PlugInFailed` are `plugin_vusb`, with a failure anywhere
between taking the port and the end; `IoEnter`, `IoLeave` are a read or a write, which hold
a reference (`get_vusb`, `put_vusb`), a read that waits keeps it; `CancelRead`,
`ReqReadCancelled` give it back; `PlugOut`, `Shutdown`, `PlugOutVusb`, `PlugOutPut`,
`ShutdownPut` are the plug-out by request and by the end of a file; `AsyncPut` is the work
item, which may also fail to be made (`lost`). Client and vusb go by one name, because a
file plugs in one device. When there is no port for a device (`PlugInNoPort`) the driver goes
on with port -1 as an index of `vusbs`, and so does the model: the slot -1 is the memory in
front of the table, which is then overwritten (`pool`), so that the machine may stop at any
later moment (`Stop`).

**`StubRes`.** `WriteData`, `WriteControl`, `WriteReset`, `WriteUnsupported`, `WriteUnlink` are
the commands of `stub_dispatch_write` (`WriteReset` is a pipe reset or a selection, for which
the USB stack may cancel any of the transfers it has), `DoneTransfer` the completion routines of
`stub_usbd.c`, `ReplyStubReq` is `reply_stub_req`, `Read`, `CollectDoneStubRes`, `SendStore`,
`SendDone` are a read and `send_stub_res`, `OnIrpReadCancelled` is the cancel routine. Lengths
are counted in units, one or more to a header; `out` is the stream that the forwarder has
received. The USB stack is external: it completes a transfer whenever it likes, and a cancelled
one, be it for an unlink or for a reset, with an error or, too late, with success.

**`StubRemoveLock`.** `LockDevRemoval`, `LockDevRemovalTest`, `UnlockDevRemoval`,
`SetEvent` are the lock; `Remove...` is `IRP_MN_REMOVE_DEVICE`; a request is a power
request, a start, another PnP request or an I/O request, which differ in when, and
whether, they hold the lock.

**`UrbConv`, `UrbWire`.** The operators of `UrbConv` are the `store_urbr_*` and `fetch_*`
functions under their own names; URBs and headers are records, buffers sequences of bytes, a
packet descriptor counts as one unit of length. `UrbWire` carries one request at a time:
`Submit`, `SelectConfiguration`, `SelectInterface`, `ResetStalled` store it, `ReadHeader` and
`ReadPayload` are the forwarder's measure of it, `StubWrite` is `stub_dispatch_write` (the
`process_*` functions, again under their names), `WriteCompleted` the completion of the write
that carried the command, after which the data of a bulk OUT transfer, which were never copied,
are whatever the memory holds; `DeviceDone` is the completion routines, `Fetch` and `Complete`
the way back. The device may answer with success, a short transfer, or one of `Failures`, which
are all the errors of `usbd_helper.c`, one it does not know, and none. Packets whose offsets do
not ascend make `store_iso_data` give up, which its caller ignores: what was in the buffer goes
out. An isochronous OUT transfer with more descriptors than its buffer has room for overwrites
the memory behind it (`IsoOverrun`, with `DescSize` bytes to a descriptor), and the stub answers
or stops (`DoneStages`). A reference definition says what should come out (`SetupMeant`,
`SetupSent` for the request, the device's own data for the answer).

**`Pool`.** `Export`, `Lookup`, `AddToArray`, `Link` are the start of a connection's producer;
`Reader...`, `Producer...`, `Consumer...` are a thread's turn of its loop (`...Turn`), its
alertable wait (`...Wake`) and the completion routines that run in it (`...Apc`); `DropBufc`,
`NewBufp`, `RefresherEnds` are the refresher; `signalhandlerPool` is CTRL-C. The list of a
device's connections is its pointers (`next`; `Listed` is what a walk meets), and `AddToArray`
finds the end in one step and links in another, as the code does without a lock. `read_dev`,
`get_xfer_len`, `get_iso_len`, `bufp`, `bufc`, `hdrs_cache_insert` are the functions and buffers
of `usbip_forward.c`. A stream is a sequence of units that say which byte of which message they
are, so that a lost, repeated or exchanged byte shows. `hdrs_cache` is a table of `CacheSize`
entries (`HDRS_CACHE_SIZE`, 1024 in the code), indexed by the number modulo its size and
overwritten without a look; where the entry is not the answer's, its direction is the one in its
header, which the stub has zeroed: OUT. `kept` and `clash` are history: the commands that the
table has been told of, and whether one of them has come while another, still unanswered, needed
the same entry for another number or another direction. Clients, the stub and the socket are
external: they send, answer, cut and close as they like.

**`Session`.** `Connect` ... `CloseHandles` are `usbip attach` (`RecvList` and `Detach` the
other two commands), `ReadHandleValue`, `Forward...`, `Shutdown` the attacher, `Select` ...
`CloseSocket` the request thread, `OpenStubDev`, `Serve`, `ThreadEnds` the
threads of a connection. Handles of the server's sockets are small numbers that are given
out again after a close (`table`); the client's socket and driver handle are sets of the
processes that hold them, and the last release of the driver handle unplugs the device.
`Crash` and `Reset` end a client's processes or its connection at any step. Sequence
numbers keep their four bytes (`htonl`).

## Runs

`tlc -config <cfg> <module>` in this directory; the largest takes about two and a half minutes.

| run | cfg | checks | distinct states |
|---|---|---|---|
| `urb_race` | `VhciUrb_race` | `CompletedOnce`, `NoStrandedUrb`, `ServiceSpec` | 840 000 |
| `urb_live` | `VhciUrb_live` | `InOrder`, `UrbServed` | 131 800 |
| `ude_urb` | `UdeUrb_urb` | `NoStrandedUrb`, `InOrder`, `ServiceSpec`, `UrbServed` | 188 000 |
| `hub_ports` | `VhubPorts_ports` | `RelationsFit`, `ClosedIsUnplugged`, `ContextLive`, `PortFreed` | 1 005 300 |
| `ude_ports` | `UdePorts_ports` | `HeldIsCounted`, `PortTable`, `PortsCounted`, `PluggedOutIsDeleted` | 39 300 |
| `res_queue` | `StubRes_queue` | `WaitsForNothing`, `Framed`, `SentOnce`, `UnlinkedIsSilent`, `TransferAnswered` | 714 200 |
| `lock_race` | `StubRemoveLock_lock` | `Protected`, `RemovalEnds` | 38 500 |
| `pool_live` | `Pool_live` | `CommandsInOrder`, `CommandsForwarded`, `InterruptStops` | 32 300 |
| `pool_share` | `Pool_share` | `AnswersWhole`, `OneReader` | 1 976 300 |
| `wire` | `UrbWire_wire` | `CommandFramed`, `SameRequest`, `AnswerFramed`, `RoundTrip`, `PacketsInPlace`, `PipeKnown` | 1 903 400 |
| `session` | `Session_session` | `StreamInStep`, `ToolEnds`, `DeviceServed` | 139 300 |
| `session_seq` | `Session_v_seqnum` | `SeqNumsApart` is violated | |

What each property says stands in front of its definition. `TypeOK` of every module holds in
these instances too; the configurations leave it out, since it shows little beside the
others, and so is `AnswersSent` of `Pool`, which `Pool_live.cfg` can be given.

**Bounds.** `urb_race` has two URBs, one of them cancellable, one read, an abort and a
removal: the races are between two holders of one `urb_req` or one read, the second URB
is the one that is queued behind or handed over directly. `urb_live` has two reads, so
that two readers overlap; two URBs are enough for one to overtake the other. `ude_urb` has
two requests of two endpoints, whose callbacks therefore overlap, and one read, which is issued
again after it is completed. Two requests are too few to show that a cancelled OUT request
loses the order, which is why `InOrder` does not speak of one (`UdeUrb_v_order` has three, and
`NumbersInOrder` is proved for any number). `res_queue` has
two commands, one of which may be the reset that cancels the other, and their unlinks,
headers and payloads of one unit and reads of one or two
units: a read may end at every boundary there is, and a result may be left over behind
another. `lock_race` has three requests: one that is let through, one that is refused and
one that brings the count to zero. `hub_ports` has two devices, two ports, and two files, or
one file and a client that unplugs: enough for two plug-ins to overlap, and for a port to be
given out again while another device is being unplugged by its number. One of the devices may
be stopped. `ude_ports` has three clients on one USB 2 and one
USB 3 port, so that a port is refused, missing and given out again, and two cancelled reads
(`MaxCancels`), so that two work items for one device wait at once. `pool_live` has one client
with two commands of different shape (or one, with one thing going wrong), `pool_share` two
clients with one each, of one direction or of two, or one client with two; headers of two units
are cut in the middle; `MaxNumber` bounds the sequence numbers. `CacheSize` is one in
`pool_share`, so that two numbers already need one entry.
`wire` has every URB function, recipient and descriptor type, buffers of up to three bytes,
up to three packets with gaps, short packets and offsets that do not ascend, and two alternate
settings that share an endpoint. `session` has two runs of the tool, one port, one exported
device and one command of the driver after the hand-over (`MaxCmds`; eight in `session_seq`,
where the eighth is the point). Nothing else is bounded: `seq_num`, `arrivals` and the counters
grow only with the finite number of URBs and devices.

Deadlock is not checked: in every model all URBs, commands, requests, devices or clients may
be used up, after which nothing happens, as in the program.

**Fairness.** Only of what the code or its environment does by itself. A thread inside a driver
goes on (kernel threads are scheduled, critical sections are short). In `VhciUrb` the forwarder
reads again after a completed read, one read at a time (`OneReadAtATime`), and the server
answers every command. In `UdeUrb` the callbacks that the framework has begun go on; reads,
answers and cancelled reads, which compete for the controller's queue, get their turn (strong
fairness: the queue is first in, first out). In `UdePorts` callbacks end and work items run. In
`StubRes` the forwarder keeps reading and the USB stack completes every transfer. In
`StubRemoveLock` the lower driver completes a start. In `VhubPorts` only the PnP manager asks for
invalid relations, decides a pending stop and carries a removal through. In `Pool` the threads
run and I/O that can complete does; neither client nor stub has to do anything. In `Session`
processes, threads and the server run and the device answers; nobody has to call the tool.
Nobody has to submit, cancel, abort, unplug, plug in, close or fail.

**Scenarios.** `UdeUrb`, `Pool` and `Session` take a *scenario* in their first state: which
kinds of requests there are and what may happen to them (`Parties` of `VhubPorts` is less: only
who is there). It keeps instances small, and it
names what the properties exclude because the code does not have them there:

* `urb_live` has no cancellation of URBs, no URB that cannot be stored, and no removal;
  `UrbServed` of `UdeUrb` speaks only of the scenarios in which nothing is cancelled, refused,
  or answered on the spot. In both drivers a URB may wait for ever after the others (see the
  hazards).
* In `ude_urb` an OUT request is not cancelled in the scenario with a plug-out
  (`UdeUrb_v_cancel` below), and `InOrder` says nothing where one may be cancelled or a command
  refused (`UdeUrb_v_order`).
* `ClosedIsUnplugged` says nothing once two devices of the hub have had one port (`shared`): a
  device is unplugged by its port, and ports need not be unique (`VhubPorts_v`, `UniquePort`).
  `ContextLive` excludes a file between the two writes of its own cleanup.
* `TransferAnswered` excludes a transfer that the USB stack has cancelled, for a pipe reset or a
  selection, and the read that is completed twice (`StubRes_v_reset`, `StubRes_v_cancel`).
  `Protected` is about requests that hold a share; a PnP request is passed on after it has given
  its share back (`stub_pnp.c:115-116`, `StubRemoveLock_v_wait`).
* `PortFreed` is about devices the PnP manager has been told of: one that is unplugged before it
  asks the first time is never reported, never removed, and keeps its port.
  `PluggedOutIsDeleted` excludes a device for which a work item could not be made, whose
  reference is never given back, and a machine that has stopped because a device without a port
  was written in front of the table (`UdePorts_v_port`).
* `CommandsForwarded` is about the only connection of a device: the consumer goes to the next
  connection only when the present one has nothing to do; it is about commands, and says nothing
  of the first answer, whose announcement comes too early. `AnswersWhole` ends with the first
  clash of two unanswered commands in `hdrs_cache` (`Pool_v_cache` below), and does not say that
  an answer goes to the client that asked: the consumer leaves a connection before its answers
  are read, and the next one gets them. `pool_share` lets connections come one after the other;
  when they come together (`"together"`) both start a consumer, and `OneReader` fails.
* `AnswerFramed` excludes a failed isochronous transfer. `SameRequest` excludes the requests in
  `Changed`, a transfer whose flags have another direction than its pipe
  (`UrbWire_v`, `DirectionOfPipe`), the data of a bulk OUT transfer once its write is completed
  (`UrbWire_v`, `DataKept`), and an isochronous transfer whose packets do not ascend
  (`UrbWire_v`, `PacketsSent`) or whose header has an uninitialised setup packet that reads like
  a pipe reset. `RoundTrip` excludes selections and pipe resets, whose answers the driver does not look
  at (`vhci_urbr_fetch.c:121`), a failure without a status, and packets that do not ascend; the
  errors that do not survive both tables of `usbd_helper.c` have to come back as errors, only
  `Named` has to come back as the same. `PacketsInPlace` is about the values of packets, not
  about the room for them (`UrbWire_v`, `DescsFit`); `PipeKnown` about a setting that was selected
  without one of `faults`: after a failed selection nothing is claimed. Each is a behaviour of
  the code that the model has and the property names.
* `ToolEnds` excludes a device that cannot be opened after its import was granted (`"open"`: the
  client waits for its first descriptor for ever), and clients of two address families: `select`
  leaves only the ready sockets in the set, and the loop restores the count and not the array,
  so a listener may be lost. `DeviceServed` excludes handles that cannot be handed over
  (`"handover"`): the attacher then waits on a pipe whose write end it has inherited itself.
  `StreamInStep` excludes a client that is lost while the server replies (`"vanish"`,
  `Session_v_socket` below).

### Disagreements

One run, `session_seq`, refutes what a comment of the code says; the other configurations here
do the same when they are run by hand, some of them of what one would expect the code to do. A
configuration that names several properties has all but one commented out.

* `session_seq`: "sufficient large enough seq used to avoid conflict with normal vhci
  operation" (`userspace/src/usbip/usbip_dscr.c:6`). The number is sent in host order: the
  second descriptor request, 0x08000000 in memory, has the number 8 on the wire, which the
  driver uses later on the same connection.
* `VhubPorts_v` (`UniquePort`): "unique port number of the device on the bus"
  (`driver/vhci/vhci_dev.h:156`). The port is chosen in one critical section
  (`vhci_plugin.c:109`) and taken in another; two clients that plug in at once get the same.
* `UdePorts_v_port` (`AlwaysAPort`): "Never happen" (`driver/vhci_ude/vhci_plugin.c:282`), that
  `get_free_port` finds no port. Only the number of used ports is looked at before; a USB 3.0
  device needs a port of the upper range, which USB 2.0 devices may have taken while one of
  the lower is free (`vhci_plugin.c:358`). The index -1 is then used.
* `VhciUrb_v_free` (`FreeUrbrAsserts`): `free_urbr` asserts that the `urb_req` is in no list
  (`driver/vhci/usbreq.c:157-158`). A URB cancelled while `process_read_irp` copies it
  outside the lock is put into `head_urbr_sent` after `remove_cancelled_urbr` has taken it
  out, and freed there.
* `VhciUrb_v_partial` (`PartialIsLive`): `urbr_sent_partial` is "a partially transferred
  urb_req" (`driver/vhci/vhci_dev.h:177`). After a failed transfer it names the one that was
  freed.
* `VhciUrb_v_read` (`WaitingReadIsCancellable`): `submit_urbr` takes a waiting read without a
  cancel routine for one that "was cancelled" (`driver/vhci/usbreq.c:224`). Its own error
  path leaves such a read behind, which then nobody completes.
* `StubRes_v_cancel` (`CancelledMatches`): "cancelled IRP does not match with devstub read
  irp" (`driver/stub/stub_res.c:230`) can happen, because `send_irp_sres` leaves the read its
  cancel routine while it fills it; the read is completed twice.
* `StubRemoveLock_v_wait` (`WaitedForAll`): "wait until all outstanding requests are finished"
  (`driver/stub/stub_pnp.c:84`); PnP requests that are being passed down, and all I/O, are
  not waited for.
* `StubRes_v_reset` (`ResetAnswered`): the USB stack cancels the transfers of a pipe that is
  reset or closed by a selection (`driver/stub/stub_write.c:156-170`, `:411`); their completion
  takes them for unlinked ones and drops them (`stub_usbd.c:416`, `:480`). Nobody answers.
* `VhubPorts_v` (`CleanupOnLive`): `cleanup_vpdo` goes on with a vpdo that the removal
  has deleted after it was read from `FsContext` (`driver/vhci/vhci.c:101-103`).
* `VhubPorts_v` (`FoNotLost`): `fo` is cleared by the cleanup of its file between the test
  and the use in `invalidate_vpdo` (`driver/vhci/vhci_pnp_remove.c:125-127`).
* `VhubPorts_v` (`CleanupHitsOwn`): the device of a file that is being closed is removed,
  and its port given to another client's device, before the cleanup looks the port up
  (`driver/vhci/vhci.c:104`); that device is unplugged.
* `UdeUrb_v_order` (`NumbersOrdered`): with three requests, an OUT request that is cancelled
  between its header and its payload lets a later command overtake an earlier one.
* `UdeUrb_v_cancel` (`CompletedOnce`): "There's on-going cancellation. It's enough to just
  clear out followings." (`driver/vhci_ude/vhci_read.c:35`). What is cleared out includes the
  flag that the request is cancelable; a plug-out then takes the request for its own and
  completes it beside the cancellation.
* `UdePorts_v_shutdown` (`ShutdownIsOwn`): a file whose device is gone is "already detached"
  (`driver/vhci_ude/vhci_ioctl.c:176`); but the file remembers a port, and the device that
  has the port by then is plugged out.
* `Pool_v_cache` (`DirectionRestored`): "Cache info is used when RET_SUBMIT packets with the
  same sequence number arrive" (`userspace/lib/usbip_forward.c`). The table is one for all
  connections, whose numbers all begin at one, and an entry is overwritten although its
  command is unanswered: the answer is then taken for one of the other command's direction,
  or, if the numbers differ, for an OUT one.
* `UrbWire_v` (`DirectionOfPipe`): "Use a direction flag in pipe handle"
  (`driver/vhci_ude/vhci_urbr_store_bulk.c:39`); the direction is taken from the flags of
  the URB.
* `UrbWire_v` (`DataKept`): the data of a bulk OUT transfer are used where the write has
  brought them (`driver/stub/stub_write.c:313`), and the write is completed while the
  transfer may be pending (`stub_write.c:454`).
* `UrbWire_v` (`DescsFit`): `done_iso_transfer` writes the descriptors of an OUT transfer
  into a buffer as long as its data (`driver/stub/stub_usbd.c:507-514`).
* `UrbWire_v` (`PacketsSent`): `store_iso_data` gives up on packets that do not ascend
  (`driver/vhci_ude/vhci_urbr_store_iso.c:28-31`), its caller goes on (`:70`).
* `Session_v_socket` (`OwnSocket`): a connection belongs to its threads once its import is
  granted; when the reply cannot be sent the request thread closes the socket, and the next
  client gets the same handle.

## Proofs

`tlapm <module>` proves all of them. Each holds for every value of the constants allowed by
the module's `ConstantsAssumption`: sets of any size (finite where something is counted),
distinct null values, kinds and lengths among those the code has. TLC evaluates those
assumptions in every run of these modules.

| theorem | module | says |
|---|---|---|
| `TypeCorrect` | `VhciUrbProofs` | `TypeOK` |
| `NeverCompletedTwice` | `VhciUrbProofs` | `CompletedOnce` |
| `CommandsInOrder` | `VhciUrbProofs` | `InOrder` and `SeqNumsDiffer` |
| `NobodyStranded` | `VhciUrbProofs` | `NoStrandedUrb` |
| `ImplementsService` | `VhciUrbProofs` | `ServiceSpec`: the queue implements `UrbService` |
| `UdeTypeCorrect` | `UdeUrbProofs` | `TypeOK` |
| `NobodyStranded` | `UdeUrbProofs` | `NoStrandedUrb` |
| `NumbersInOrder` | `UdeUrbProofs` | `InOrder`, if no OUT request may be cancelled |
| `OnceUnlessOutCancelled` | `UdeUrbProofs` | `CompletedOnce`, under the same condition |
| `UdeImplementsService` | `UdeUrbProofs` | `ServiceSpec`, under the same condition |
| `TypeCorrect` | `VhubPortsProofs` | `TypeOK`: the counters never run below zero |
| `RelationsAlwaysFit` | `VhubPortsProofs` | `RelationsFit` |
| `ContextsAreLive` | `VhubPortsProofs` | `ContextLive`, for the single writes of plug-in, cleanup and removal in any order |
| `NoOrphan` | `VhubPortsProofs` | `ClosedIsUnplugged`: until two devices have had one port, however plug-ins overlap |
| `PortsTypeCorrect` | `UdePortsProofs` | `TypeOK` |
| `NoUseAfterDelete` | `UdePortsProofs` | `HeldIsCounted` |
| `TableAgrees` | `UdePortsProofs` | `PortTable` |
| `CountIsRight` | `UdePortsProofs` | `PortsCounted` |
| `RemovalWaitsForHolders` | `StubRemoveLockProofs` | `Protected` (and `TypeOK`) |
| `ResTypeCorrect` | `StubResProofs` | `TypeOK` |
| `NoResultSleeps` | `StubResProofs` | `WaitsForNothing` |
| `StreamIsFramed` | `StubResProofs` | `Framed` |
| `NothingSentTwice` | `StubResProofs` | `SentOnce` |
| `UnlinkedNeverAnswered` | `StubResProofs` | `UnlinkedIsSilent` |
| `TypeCorrect` | `PoolProofs` | `TypeOK` |
| `CommandsArriveInOrder` | `PoolProofs` | `CommandsInOrder` |
| `OneReadsAtATime` | `PoolProofs` | `OneReader`, if connections come one after the other |
| `AnswersStayWhole` | `PoolProofs` | `AnswersWhole`, for a table of any size, under the same condition |
| `DirectionsRestored` | `PoolProofs` | `DirectionRestored` until two unanswered commands clash, under the same condition |
| `NothingMistaken` | `SessionProofs` | `StreamInStep`, if no client vanishes while it is replied to |

*URB queue.* "Completed at most once" is not inductive. `OwnInv` says who owns an IRP: its
submitter until the cancel routine is set, then whoever takes the routine away; a read
belongs to its reader, to the submitter that fills it (at most one), to its cancel routine,
or waits. For the order, `OrderInv` adds that numbers given out are at most the counters,
that what is queued has no number yet, and that while a cancellable read waits the queue is
empty, which is why the shortcut that hands a URB to the waiting read cannot overtake.
`StrandInv` adds what the removal holds. The refinement needs `NumInv` besides: what has
been sent or may be stored again has a number, and a URB that waits for one has not been
completed, so that no number is given after the completion. Each action then maps to giving
a number, completing a request, submitting one, or to a stutter.

*URB queue of the UDE driver.* `TypeInv` and `StrandInv` hold whatever is cancelled: a request
is marked when `submit_urbr` is done with it (`MarkedLate`), and one `urb_req` at a time is
being stored, by a submission or by a read (`OneStored`). The other three theorems assume
`NoCancelledOut`: no OUT request may be cancelled. The hypothesis is needed. A cancellation
between the header and the payload of an OUT command clears `urbr_sent_partial` while the
forwarder still expects the payload, so its next read takes another command and may be too short
for it; TLC then finds `NumbersOrdered` violated (`UdeUrb_v_order`), and with a plug-out at that
moment `CompletedOnce` (`UdeUrb_v_cancel`). Under the hypothesis `OutInv` says where a `urb_req`
may be (`Placed`), that each is marked and cancelled at most once (`Marks`, `OwnOnce`), who may
complete its request (`Owned`), that the forwarder expects a payload only of the command that is
to be read next (`Expected`), and that nothing is queued while a read waits (`ReadIdle`).

*Hub.* `HubInv`: `n_vpdos` is the length of the list; `n_vpdos_plugged` is the number of
devices that were put into the list and have not been marked since, *those that have left
the list included*, because `vhub_detach_vpdo` does not count down (`Counts`); nobody marks
a device that is not in the list yet (`Fresh`); what the PnP manager may remove is in the
list (`Known`). So the buffer is never too small, though it may be too large. `FileInv` is for
the pointers between a file and its device, which three callbacks write without a lock, one
write after the other. A file that names a device, and is not between the two writes of its
cleanup, names one that is there, and is named by it once the plug-in has set `fo`
(`Named`); a device that names a file is named by it, unless its removal has cleared
`FsContext` and not yet `fo` (`NamedBack`). What saves the removal, which may meet the cleanup
between any two of these writes, is that the cleanup of a file happens once and not during
its plug-in (`Cleaning`), and that a removal which has read the file is overtaken by nothing
but the cleanup of that file (`Removing`). `NoOrphan` needs unique ports because cleanup finds
its device by the port. Ports are not unique (`VhubPorts_v`); `PortInv` says that they are
until `shared` is set, and it is set for good.

*Ports of the UDE driver.* `PortInv`: the port table and the devices agree, a plug-in owns
the port it has reserved and its client, and `refcnt` is the number of those who hold the
device (`Holds`). A deletion needs a zero, so nobody works with a deleted device. That a
device without a port may be written in front of the table (`Placed`) does not disturb this.
The count of ports includes such devices, and the failed plug-ins, which never give theirs
back (`Counted`).

*Results of the stub.* `ResInv`: one thread sends at a time and none while a read waits
(`OneSender`); at each step of `send_stub_res` the pair `sres_ongoing`, `len_sent_partial` is
what the step says (`Progress`); the last unit on the stream is the end of a result or where
the current one stopped (`Tip`); what is listed is listed once and has not been sent
(`Fresh`). The first of these is the heart: `len_sent_partial` is written outside the lock.
For the unlink, a result is queued by the write of its command or by the completion of its
transfer, by one of them and once (`Pending`, `Silent`).

*Removal lock.* `LockInv`: `count` is the number of requests with a share plus what the
device and its removal still hold (`Shares`), and once the event is set or about to be set
the removal has given up its shares and nobody holds the lock or will be let through
(`Emptied`).

*Threads of the server.* `TypeInv` bounds the buffers: what is in `bufp` and what is being read
into it fit a message (`Shaped`), whatever lengths the header and the cache say. `SockInv`
is the reason why the stub gets the commands in order, per connection and without any
hypothesis: the buffers of the socket hold one command each, consecutive ones, all but the
last whole, and only `bufc` is ever written (`OneEach`); `bufp` together with the bytes
under way is the stream of what the client has sent and nobody has taken (`Rest`, `Stream`);
a read asks for exactly the rest of the header or of the command (`ReadsOne`), so that it
never takes a byte of the next; a write in progress is of a whole `bufc` that has not been
written (`Sock`). It has no induction over the stream: `Stream` says where each unit stands
by its neighbours (`Runs`, `Follows`), which cutting at the front and appending a command
preserve. `ConsumerInv` is for `OneReader`: at most one consumer has found no other, or runs
(`OneConsumer`), and a connection that is in the middle of an answer is the one a running
consumer is at (`Served`), because a consumer leaves only when nothing is asked for, and
`read_dev` has then marked the answer whole. It assumes `NotTogether`: two connections that
are set up at the same time may both find no consumer and start one, and then two
connections read at once.

`AnswerInv` is for the way back, from the stub to the sockets. The buffers of a stub hold one
whole answer each, and only `bufc` is ever written (`AnswerEach`); `bufp` is empty, is a
whole answer that is not yet marked, or is a header whose rest is the first thing in the
queue of the stub (`Begins`, `Half`); a read asks for a header, or for exactly that rest
(`AsksOne`); and the queue holds whole answers but for the rest of one that a connection has
begun to read (`Queued`). No client gets an answer twice, and no two clients get the same one,
because an answer is in one place only (`OnePlace`): at work in the stub, in its queue, in a
buffer that is not written, or written. Each step is shown to move answers
from place to place along an injection (`PlacesMoved`), or to bring one that was
nowhere: what has not been written to the stub has no answer (`NotBefore`), for which the
proof uses the order of the commands from `SockInv`. That a header is joined with its own
rest uses `Served`: another connection does not read in between, so the theorem needs
`NotTogether`. That the rest has the length `read_dev` asks for needs the direction in
`hdrs_cache` to be that of the answer. It is (`Right`) as long as no two unanswered commands
have clashed: the entry of every unanswered command that the table has been told of is its
own, and `HeadersKept` and `NotBefore` say that the table is told of a command before the stub
can answer it. After a clash a payload may be taken for a header, and nothing of `AnswerState`
is left; `AnswerInv` is therefore `HeadersKept /\ (clash \/ (Right /\ AnswerState))`. The code
does nothing to prevent clashes, and two clients that use one device may have one with
their first commands; the
theorems say that no timing, failure, disconnection or size of the table makes an answer go
wrong without one. `pool_share` has behaviours with a clash and without.

*Session.* `SessionInv` follows a connection through both ends: what is on its two streams is
determined by where the tool and the server's request thread are (`Requested`, `Replied`,
`Answered`), by the attacher afterwards (`Commanded`); a handle is its connection's until it
is closed (`Handles`), and a connection is accepted once (`Accepts`). That `accept` finds a
free handle is the pigeonhole principle: there are as many handles as clients, and a client
that has not been accepted has none. The theorem assumes `NoVanish`, that a client does not
vanish while the server replies to its import: otherwise the server closes the socket under
the threads it has started for it (`Session_v_socket`), and the next client's answers go
astray. Every other failure is allowed: of requests, handles, threads, processes and
connections.

**Only model-checked.** Liveness (`UrbServed`, `TransferAnswered`, `RemovalEnds`,
`PortFreed`, `PluggedOutIsDeleted`, `CommandsForwarded`, `InterruptStops`, `ToolEnds`,
`DeviceServed`): the prover has no fairness. The properties of `UrbWire`: they are about the
conversions of `UrbConv`, loops over packets, whose results would need induction over
sequences.

## Not modelled

* The descriptors of a vpdo of the WDM driver and its conversion of URBs, which follows the one
  of the UDE driver closely; power management, WMI, and the device objects of controller and
  hub: they answer queries from tables.
* The byte order of headers (`pdu.c` and its user-space twin), except for the numbers of the
  descriptor requests, where it matters.
* `usbip_forward()` of the attacher as a loop of its own. It runs on buffers that it does not
  initialise any more (the calls are commented out, `usbip_forward.c:608-618`); its buffers and
  completion routines are those that `Pool` models in the server's threads.
* Installation, signing, binding, local listing, port status, names, logging, option parsing:
  sequential code around system calls, or third-party code. Requests that only report state.
* Reuse of freed memory, but for the data of OUT transfers in `UrbWire`, and the wrap of the
  32-bit sequence numbers. A step that would use freed memory is taken with its old contents.

## Other hazards

`PROJECT.json` has the hazards that matter most. Others met while modelling, with what becomes
of them:

* `driver/vhci/vhci_read.c:988`: A URB cancelled while its header is copied leaves
  len_sent_partial set without urbr_sent_partial; the next command, read whole, is then
  taken for a partial one, and an unlink is read as a partial one through its NULL IRP.
  UrbServed fails once URBs may be cancelled; the run that checks it leaves their
  cancellation out.
* `driver/vhci/vhci_read.c:967`: The error path frees the urb_req and keeps
  urbr_sent_partial. PartialIsLive is refuted by hand with VhciUrb_v_partial.cfg (Disagreements).
* `driver/vhci/usbreq.c:263`: The error path keeps the read in pending_read_irp without its
  cancel routine. WaitingReadIsCancellable is refuted by hand with VhciUrb_v_read.cfg (Disagreements).
* `driver/vhci/vhci_internal_ioctl.c:162`: plugged is tested without the lock; the device
  may be removed before the URB is queued, which then nobody completes. NoStrandedUrb ends
  with the removal: what happens on a deleted device object is outside the model.
* `driver/vhci/usbreq.c:206`: IoCancelIrp before the cancel routine is set only marks the
  IRP; submit_urbr does not look at irp->Cancel, so the cancellation is lost. The model
  gives IoCancelIrp no effect without a routine; that the issuer then waits is no property
  of the driver's state.
* `driver/vhci/vhci_read.c:908`: The cancel routine of a read goes through
  FileObject->FsContext, which the removal sets to NULL. The routine is not continued after
  the removal; the NULL dereference itself is outside the model.
* `driver/vhci/vhci_internal_ioctl.c:51`: An abort frees the urb_req that urbr_sent_partial
  names or that a reader is copying. PartialIsLive is refuted already by a simpler
  behaviour.
* `driver/vhci/usbreq.c:234`: seq_num is 32 bits wide and wraps; 0 also stands for 'not
  sent' in a CMD_UNLINK. The wrap needs 2^32 commands; numbers are unbounded in the model.
* `driver/stub/stub_res.c:239`: The read is cancelled while it is being filled.
  CancelledMatches is refuted by hand with StubRes_v_cancel.cfg (Disagreements).
* `driver/stub/stub_res.c:209`: IoCancelIrp is called after the lock is released; the
  completion may have freed the IRP. Use of freed memory; the model gives the call no effect
  then.
* `driver/stub/stub_res.c:307`: Without memory for the answer the client is never answered.
  The model lets the answer be lost (MayLackMemory); that it is then missing is no surprise.
* `driver/vhci/vhci.c:104`: Between reading the port of a device that failed to start and
  looking it up, the device may be removed and the port given to another one, which is then
  unplugged. CleanupHitsOwn, which is about the same reading and looking up by a cleanup, is
  refuted by hand with VhubPorts_v.cfg; the failing start is left out of it.
* `driver/vhci/vhci.c:103`: cleanup_vpdo goes on using the vpdo it has read from FsContext
  after the removal has deleted it. A read of freed memory; the model keeps the fields of a
  deleted device.
* `driver/vhci/vhci_pnp_relations.c:128`: Without memory for the relations the query fails
  and is not repeated until the next change. The model's query always succeeds.
* `driver/vhci_ude/vhci_urbr.c:248`: A request is cancelled while its command is stored:
  urbr_sent_partial goes on naming the freed urb_req. Use of freed memory; the model keeps
  the contents of a freed urb_req and UrbServed excludes cancellation.
* `driver/vhci_ude/vhci_urbr.c:267`: A command that cannot be stored, or is answered
  locally, leaves the read waiting although commands are queued. UrbServed is stated for
  kinds that are stored; with the others it fails.
* `driver/vhci_ude/vhci_urbr.c:262`: The read that submit_urbr took is completed by it and
  by its cancellation or the plug-out at the same time. The properties are about the class
  drivers' requests; a read is unmarked before it is filled in the model.
* `driver/vhci_ude/vhci_read.c:126`: A request cancelled while its command is stored is put
  into head_urbr_sent again, freed. Use of freed memory, as in the WDM driver.
* `driver/vhci_ude/vhci_urbr.c:185`: The urb_req of a request cancelled before it was sent
  is never freed. A leak; no property counts memory.
* `driver/vhci_ude/vhci_vusb.c:75`: When the work item cannot be made the reference is never
  given back and the device never deleted. PluggedOutIsDeleted excludes a lost reference.
* `driver/vhci_ude/vhci_ioctl.c:53`: The number of devices to report is not bounded by the
  buffer in get_imported_devices. Requests that only report are not modelled.
* `userspace/src/usbipd/usbipdThreadpool.c:60`: Threads append to the list of devices and
  connections without a lock: a connection is lost. Pool has the interleaving (scenario
  "together"); what is lost then is lost.
* `userspace/src/usbipd/usbipdThreadpool.c:344`: The consumer is given the address of devno
  on the producer's stack. Memory; the model passes the device.
* `userspace/src/usbipd/usbipdThreadpool.c:205`: The refresher frees bufc while the writer
  of the other side evaluates it. Use of freed memory; in the model a turn of a loop is one
  step.
* `driver/stub/stub_usbd.c:528`: A failed isochronous transfer is answered without its
  descriptors, which the client waits for. AnswerFramed excludes exactly this case.
* `driver/vhci_ude/vhci_ep.c:191`: The client's setting is changed before the server has
  agreed, and not reset by a new configuration. After a failed selection PipeKnown does not
  apply.
* `driver/stub/stub_usbd.c:429`: A transfer that fails without a status in its URB is
  reported as a success. RoundTrip excludes it.
* `driver/stub/stub_write.c:196`: A standard request that the stub does not support is never
  answered; the class driver waits. UrbWire ends the request there; the client has no
  timeout.
* `driver/vhci_ude/vhci_urbr_store_iso.c:40`: The failure of store_iso_data, for packets
  whose offsets do not ascend (vhci_urbr_store_iso.c:28), is ignored: the command goes out
  with what was in the buffer. PacketsSent is refuted by hand with UrbWire_v.cfg (Disagreements).
* `driver/vhci_ude/vhci_urbr_store_bulk.c:42`: The direction is taken from the flags of the
  URB although the comment says the pipe's is to be used. DirectionOfPipe is refuted by hand
  with UrbWire_v.cfg (Disagreements).
* `driver/vhci_ude/vhci_urbr_store_dscr.c:23`: A 32-bit length becomes the 16-bit wLength.
  The model has the conversion, its instances only small lengths.
* `driver/vhci_ude/vhci_urbr_store_vendor.c:93`: A vendor or class IN request does not set
  the length of the read that takes it. UrbWire has the case (stage "closed"); no property
  forbids it.
* `userspace/src/usbipd/usbipdThreadpool.c:300`: The device cannot be opened after the
  import was granted; the client waits for its first descriptor for ever. ToolEnds excludes
  it.
* `userspace/src/usbipd/usbipd.c:117`: select overwrites the array of the fd_set and only
  the count is reset: a listener is lost after a connection to another one. ToolEnds is
  stated for clients of one address family.
* `driver/stub/stub_write.c:454`: The data of an OUT transfer are used in the buffer of the
  write (stub_write.c:313), and the write is completed while the transfer may be pending.
  DataKept is refuted by hand with UrbWire_v.cfg; SameRequest is stated for the request as
  it is handed to the stack.

## Plan

1. Done: the modules above, their runs, the refinements of `UrbService`, and the proofs above.
2. Out of reach for this prover: liveness, and the conversions of `UrbConv`, whose loops over
   packets would need induction over sequences.
