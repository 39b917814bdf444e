------------------------------ MODULE Session ------------------------------
(***************************************************************************)
(* How a device gets from the server to a client: the daemon's accept loop *)
(* and its requests (usbipd.c, usbipd_accept.c, usbipd_import.c,           *)
(* usbipd_list.c), the commands attach, list and detach of the usbip tool  *)
(* (usbip_attach.c, usbip_dscr.c, usbip_list_remote.c, usbip_detach.c) and *)
(* the attacher, the process that goes on forwarding when the tool has     *)
(* ended (attacher.c).                                                     *)
(*                                                                         *)
(* A client is one run of the tool, with the connection it opens and the   *)
(* attacher it starts.  Every send and every receive is a step.  A message *)
(* is a pair of a tag and an argument.  Processes exit by any return of    *)
(* their main function; the system then closes their handles, and the last *)
(* close of the driver's file unplugs the device.                          *)
(*                                                                         *)
(* What the server's threads and the attacher do once a device is attached *)
(* is in Pool and UrbWire: here a thread answers one command at a time and *)
(* the attacher lets the driver send a few.                                *)
(***************************************************************************)
EXTENDS Integers, Sequences, FiniteSets, SequencesExt

CONSTANTS
  Client,     \* runs of the usbip tool
  NoClient,   \* an unused handle, nobody served
  Sockfds,    \* the listening sockets, one per address family
  MaxPorts,   \* ports of the client's hub
  MaxCmds,    \* bound: commands the driver sends on a connection
  MaxDevs,    \* bound: devices in a list
  Scenarios   \* what the tool is called for and what may go wrong, see TypeOK

Op == {"attach", "list", "detach", "none"}
Faults == {"connect", "nodev", "export", "udev", "open", "stall", "driver", "plugin",
           "process", "handover", "crash", "reset", "vanish"}

ASSUME ConstantsAssumption ==
  /\ IsFiniteSet(Client) /\ NoClient \notin Client
  /\ Sockfds # <<>>
  /\ MaxPorts \in 1 .. 127 /\ MaxCmds \in 0 .. 255 /\ MaxDevs \in Nat
  /\ \A s \in Scenarios : /\ s.op \in [Client -> Op]
                          /\ s.to \in [Client -> ToSet(Sockfds)]
                          /\ s.faults \subseteq Faults

VARIABLES
  scenario,          \* what happens in this behaviour
  tool, count,       \* where a tool is; descriptors fetched, or devices still to list
  attacher, pipe,    \* where an attacher is; handle values in its stdin
  sock, hdev,        \* the processes that hold the client's socket, the driver's file
  port,              \* the port a client's device is plugged into, 0 when none
  backlog, fds,      \* connections to accept per listener; the array of select's fd_set
  server, ready, serving,   \* the main loop, listeners still to look at, whose request
  table, handle,     \* the server's handles; the handle accept gave a connection
  thread,            \* the server's threads of a connection
  up, down,          \* the two directions of a connection
  shut, broken,      \* closed by the server; lost
  used               \* history: the sequence numbers sent on a connection

process == <<tool, count, attacher, pipe, sock, hdev>>
loop == <<backlog, fds, server, ready, serving, table, handle>>
net == <<up, down, shut, broken>>
vars == <<scenario, process, port, loop, thread, net, used>>

Handle == 1 .. Cardinality(Client)
Listener == ToSet(Sockfds)

(***************************************************************************)
(* Sequence numbers, as the four bytes on the wire.                        *)
(***************************************************************************)
Byte(n, i) == (n \div 256^i) % 256
htonl(n) == <<Byte(n, 3), Byte(n, 2), Byte(n, 1), Byte(n, 0)>>

\* fetch_descriptor takes its numbers from 0x7ffffff and sends them as they are
\* in memory.
FetchSeq(k) ==
  LET n == 134217727 + k IN <<Byte(n, 0), Byte(n, 1), Byte(n, 2), Byte(n, 3)>>

\* The driver counts from one.
DriverSeq(n) == htonl(n)

ToolStep == {"start", "op", "import", "rep_op", "rep_udev", "fetch", "ret", "data",
             "plugin", "process", "dup_hdev", "dup_sock", "write_hdev", "write_sock",
             "close", "rep_list", "ndev", "devs", "exit"}
ServerStep == {"select", "accept", "recv_op", "recv_import", "export", "reply_op",
               "reply_udev", "reply_list", "close"}

TypeOK ==
  /\ scenario \in Scenarios
  /\ tool \in [Client -> ToolStep]
  /\ count \in [Client -> Nat]
  /\ attacher \in [Client -> {"none", "read_hdev", "read_sock", "forward", "shutdown", "exit"}]
  /\ pipe \in [Client -> 0 .. 2]
  /\ sock \in [Client -> SUBSET {"tool", "attacher"}]
  /\ hdev \in [Client -> SUBSET {"tool", "attacher"}]
  /\ port \in [Client -> 0 .. MaxPorts]
  /\ backlog \in [Listener -> Seq(Client)]
  /\ fds \in Seq(Listener) /\ Len(fds) = Len(Sockfds)
  /\ server \in ServerStep /\ ready \subseteq Listener
  /\ serving \in Client \cup {NoClient}
  /\ table \in [Handle -> Client \cup {NoClient}]
  /\ handle \in [Client -> Handle \cup {0}]
  /\ thread \in [Client -> {"none", "open", "serve", "ended"}]
  /\ shut \in [Client -> BOOLEAN] /\ broken \in [Client -> BOOLEAN]

Init ==
  /\ scenario \in Scenarios
  /\ tool = [c \in Client |-> IF scenario.op[c] = "none" THEN "exit" ELSE "start"]
  /\ count = [c \in Client |-> 0]
  /\ attacher = [c \in Client |-> "none"] /\ pipe = [c \in Client |-> 0]
  /\ sock = [c \in Client |-> {}] /\ hdev = [c \in Client |-> {}]
  /\ port = [c \in Client |-> 0]
  /\ backlog = [l \in Listener |-> <<>>] /\ fds = Sockfds
  /\ server = "select" /\ ready = {} /\ serving = NoClient
  /\ table = [h \in Handle |-> NoClient] /\ handle = [c \in Client |-> 0]
  /\ thread = [c \in Client |-> "none"]
  /\ up = [c \in Client |-> <<>>] /\ down = [c \in Client |-> <<>>]
  /\ shut = [c \in Client |-> FALSE] /\ broken = [c \in Client |-> FALSE]
  /\ used = [c \in Client |-> <<>>]

(***************************************************************************)
(* usbip_net_xmit.  A receive fails when nothing is left to receive and    *)
(* the other side is gone; a send may fail when the other side is gone.    *)
(***************************************************************************)
ClientGone(c) == broken[c] \/ sock[c] = {}
ServerGone(c) == broken[c] \/ shut[c]

\* Mutant: a connection that is closed is taken for one that is silent.
MutEnded(stream, gone) == FALSE

Ended(stream, gone) == stream = <<>> /\ gone

\* The client c has sent m, and what is left when its tool took a message.
Up(c, m) == up' = [up EXCEPT ![c] = IF broken[c] THEN @ ELSE Append(@, m)]
Taken(c) == down' = [down EXCEPT ![c] = Tail(@)]

\* The server has sent the messages ms to the client c.
Down(c, ms) == down' = [down EXCEPT ![c] = IF ClientGone(c) THEN @ ELSE @ \o ms]

(***************************************************************************)
(* The tool.                                                               *)
(***************************************************************************)

\* A process exits.  Closing the last handle of the driver's file unplugs the
\* device.
Release(c, p) ==
  /\ sock' = [sock EXCEPT ![c] = @ \ {p}]
  /\ hdev' = [hdev EXCEPT ![c] = @ \ {p}]
  /\ port' = [port EXCEPT ![c] = IF hdev[c] \subseteq {p} THEN 0 ELSE @]

\* The tool returns from main, with an error or after its last step.
Leave(c) == tool' = [tool EXCEPT ![c] = "exit"] /\ Release(c, "tool")

Goto(c, step) == tool' = [tool EXCEPT ![c] = step] /\ UNCHANGED <<sock, hdev, port>>

\* usbip_net_tcp_connect: the connection is made before it is accepted.
Connect(c) ==
  /\ tool[c] = "start" /\ scenario.op[c] \in {"attach", "list"}
  /\ \/ /\ tool' = [tool EXCEPT ![c] = "op"]
        /\ sock' = [sock EXCEPT ![c] = {"tool"}]
        /\ backlog' = [backlog EXCEPT ![scenario.to[c]] = Append(@, c)]
        /\ UNCHANGED <<hdev, port>>
     \/ "connect" \in scenario.faults /\ Leave(c) /\ UNCHANGED backlog
  /\ UNCHANGED <<scenario, count, attacher, pipe, fds, server, ready, serving, table,
                 handle, thread, net, used>>

\* The requests: usbip_net_send_op_common, and for an import the bus id.
SendRequest(c) ==
  /\ tool[c] \in {"op", "import"}
  /\ \/ /\ Up(c, <<IF tool[c] = "op" THEN scenario.op[c] ELSE "busid", 0>>)
        /\ Goto(c, IF scenario.op[c] = "list" THEN "rep_list"
                   ELSE IF tool[c] = "op" THEN "import" ELSE "rep_op")
     \/ ServerGone(c) /\ Leave(c) /\ UNCHANGED up
  /\ UNCHANGED <<scenario, count, attacher, pipe, loop, thread, down, shut, broken, used>>

\* query_import_device: usbip_net_recv_op_common, then the udev.  A udev that
\* build_udev left as it was on the server's stack may name any device.
RecvReply(c) ==
  /\ tool[c] \in {"rep_op", "rep_udev"}
  /\ \/ /\ down[c] # <<>> /\ Taken(c)
        /\ \/ Head(down[c])[1] = "ok" /\ Goto(c, "rep_udev")
           \/ Head(down[c])[1] \in {"udev", "junk"} /\ Goto(c, "fetch")
           \/ Head(down[c])[1] \in {"nodev", "na", "junk"} /\ Leave(c)
     \/ Ended(down[c], ServerGone(c)) /\ Leave(c) /\ UNCHANGED down
  /\ UNCHANGED <<scenario, count, attacher, pipe, loop, thread, up, shut, broken, used>>

\* fetch_descriptor sends the command ...
SendFetch(c) ==
  /\ tool[c] = "fetch"
  /\ \/ /\ Up(c, <<"cmd", FetchSeq(count[c])>>)
        /\ used' = [used EXCEPT ![c] = Append(@, FetchSeq(count[c]))]
        /\ Goto(c, "ret")
     \/ ServerGone(c) /\ Leave(c) /\ UNCHANGED <<up, used>>
  /\ UNCHANGED <<scenario, count, attacher, pipe, loop, thread, down, shut, broken>>

\* Mutant: the payload is left in the socket.
MutAfterRet(c) == IF count[c] = 3 THEN "plugin" ELSE "fetch"

\* Where fetch_descriptor goes on when it has the header of the answer.
AfterRet(c) == "data"

\* ... and receives the header of the answer, which may report an error ...
RecvRet(c) ==
  /\ tool[c] = "ret"
  /\ \/ /\ down[c] # <<>> /\ Taken(c)
        /\ IF Head(down[c])[1] = "err" THEN Leave(c) /\ UNCHANGED count
           ELSE /\ Goto(c, AfterRet(c))
                /\ count' = [count EXCEPT ![c] = IF AfterRet(c) = "data" THEN @ ELSE @ + 1]
     \/ Ended(down[c], ServerGone(c)) /\ Leave(c) /\ UNCHANGED <<down, count>>
  /\ UNCHANGED <<scenario, attacher, pipe, loop, thread, up, shut, broken, used>>

\* ... and its payload.  build_pluginfo fetches four times: the size of the
\* configuration, the device, the head of the configuration and all of it.
RecvData(c) ==
  /\ tool[c] = "data"
  /\ \/ /\ down[c] # <<>> /\ Taken(c)
        /\ count' = [count EXCEPT ![c] = @ + 1]
        /\ Goto(c, IF count[c] = 3 THEN "plugin" ELSE "fetch")
     \/ Ended(down[c], ServerGone(c)) /\ Leave(c) /\ UNCHANGED <<down, count>>
  /\ UNCHANGED <<scenario, attacher, pipe, loop, thread, up, shut, broken, used>>

FreePorts == (1 .. MaxPorts) \ {port[d] : d \in Client}

\* import_device: the driver is opened and the device plugged in.
ImportDevice(c) ==
  /\ tool[c] = "plugin"
  /\ \/ /\ FreePorts # {}
        /\ tool' = [tool EXCEPT ![c] = "process"]
        /\ hdev' = [hdev EXCEPT ![c] = {"tool"}]
        /\ port' = [port EXCEPT ![c] = CHOOSE p \in FreePorts : \A q \in FreePorts : p <= q]
        /\ UNCHANGED sock
     \/ /\ FreePorts = {} \/ scenario.faults \cap {"driver", "plugin"} # {}
        /\ Leave(c)
  /\ UNCHANGED <<scenario, count, attacher, pipe, loop, thread, net, used>>

\* execute_attacher makes the pipe and the process.  The process inherits the
\* socket and both ends of the pipe.
CreateProcess(c) ==
  /\ tool[c] = "process"
  /\ \/ /\ tool' = [tool EXCEPT ![c] = "dup_hdev"]
        /\ attacher' = [attacher EXCEPT ![c] = "read_hdev"]
        /\ sock' = [sock EXCEPT ![c] = @ \cup {"attacher"}]
        /\ UNCHANGED <<hdev, port>>
     \/ "process" \in scenario.faults /\ Leave(c) /\ UNCHANGED attacher
  /\ UNCHANGED <<scenario, count, pipe, loop, thread, net, used>>

\* DuplicateHandle of the driver's file, then of the socket
Duplicate(c) ==
  /\ tool[c] \in {"dup_hdev", "dup_sock"}
  /\ \/ /\ tool' = [tool EXCEPT ![c] = IF @ = "dup_hdev" THEN "dup_sock" ELSE "write_hdev"]
        /\ hdev' = [hdev EXCEPT ![c] = @ \cup {"attacher"}]
        /\ UNCHANGED <<sock, port>>
     \/ "handover" \in scenario.faults /\ Leave(c)
  /\ UNCHANGED <<scenario, count, attacher, pipe, loop, thread, net, used>>

\* Mutant: one value is written for both handles.
MutAfterWrite(c) == "close"

AfterWrite(c) == IF tool[c] = "write_hdev" THEN "write_sock" ELSE "close"

\* write_handle_value, twice
WriteHandleValue(c) ==
  /\ tool[c] \in {"write_hdev", "write_sock"}
  /\ \/ Goto(c, AfterWrite(c)) /\ pipe' = [pipe EXCEPT ![c] = @ + 1]
     \/ "handover" \in scenario.faults /\ Leave(c) /\ UNCHANGED pipe
  /\ UNCHANGED <<scenario, count, attacher, loop, thread, net, used>>

\* attach_device closes its own handles and returns.
CloseHandles(c) ==
  /\ tool[c] = "close" /\ Leave(c)
  /\ UNCHANGED <<scenario, count, attacher, pipe, loop, thread, net, used>>

\* get_exported_devices: the reply, the number of devices, the devices
RecvList(c) ==
  /\ tool[c] \in {"rep_list", "ndev", "devs"}
  /\ \/ /\ down[c] # <<>> /\ Taken(c)
        /\ count' = [count EXCEPT ![c] = CASE tool[c] = "rep_list" -> 0
                                           [] tool[c] = "ndev" -> Head(down[c])[2]
                                           [] OTHER -> @ - 1]
        /\ IF tool[c] # "rep_list" /\ count'[c] = 0 THEN Leave(c)
           ELSE Goto(c, IF tool[c] = "rep_list" THEN "ndev" ELSE "devs")
     \/ Ended(down[c], ServerGone(c)) /\ Leave(c) /\ UNCHANGED <<down, count>>
  /\ UNCHANGED <<scenario, attacher, pipe, loop, thread, up, shut, broken, used>>

\* detach_port: one port, or all of them
Detach(c) ==
  /\ tool[c] = "start" /\ scenario.op[c] = "detach"
  /\ tool' = [tool EXCEPT ![c] = "exit"]
  /\ \/ \E ps \in {{p} : p \in 1 .. MaxPorts} \cup {1 .. MaxPorts} :
          port' = [d \in Client |-> IF port[d] \in ps THEN 0 ELSE port[d]]
     \/ "driver" \in scenario.faults /\ UNCHANGED port
  /\ UNCHANGED <<scenario, count, attacher, pipe, sock, hdev, loop, thread, net, used>>

(***************************************************************************)
(* The attacher.                                                           *)
(***************************************************************************)

\* read_handle_value.  It would give up when the pipe is closed, but the
\* attacher holds an inherited write end of the pipe itself.
ReadHandleValue(c) ==
  /\ attacher[c] \in {"read_hdev", "read_sock"} /\ pipe[c] > 0
  /\ pipe' = [pipe EXCEPT ![c] = @ - 1]
  /\ attacher' = [attacher EXCEPT ![c] = IF @ = "read_hdev" THEN "read_sock" ELSE "forward"]
  /\ UNCHANGED <<scenario, tool, count, sock, hdev, port, loop, thread, net, used>>

\* usbip_forward: a command of the driver is sent, a message received, or the
\* device is unplugged or the connection lost.
ForwardCommand(c) ==
  LET n == Len(used[c]) - 4 + 1    \* after the four commands of the tool
  IN /\ attacher[c] = "forward" /\ port[c] # 0 /\ n <= MaxCmds
     /\ Up(c, <<"cmd", DriverSeq(n)>>)
     /\ used' = [used EXCEPT ![c] = Append(@, DriverSeq(n))]
     /\ UNCHANGED <<scenario, process, port, loop, thread, down, shut, broken>>

ForwardAnswer(c) ==
  /\ attacher[c] = "forward" /\ down[c] # <<>> /\ Taken(c)
  /\ UNCHANGED <<scenario, process, port, loop, thread, up, shut, broken, used>>

ForwardEnds(c) ==
  /\ attacher[c] = "forward"
  /\ port[c] = 0 \/ Ended(down[c], ServerGone(c))
  /\ attacher' = [attacher EXCEPT ![c] = "shutdown"]
  /\ UNCHANGED <<scenario, tool, count, pipe, sock, hdev, port, loop, thread, net, used>>

\* setup_forwarder shuts the device down, whoever else has the file open, closes
\* its handles and returns.
Shutdown(c) ==
  /\ attacher[c] = "shutdown"
  /\ attacher' = [attacher EXCEPT ![c] = "exit"]
  /\ sock' = [sock EXCEPT ![c] = @ \ {"attacher"}]
  /\ hdev' = [hdev EXCEPT ![c] = @ \ {"attacher"}]
  /\ port' = [port EXCEPT ![c] = 0]
  /\ UNCHANGED <<scenario, tool, count, pipe, loop, thread, net, used>>

(***************************************************************************)
(* The server's main loop.                                                 *)
(***************************************************************************)
Watched == {l \in Listener : l \in ToSet(fds) /\ backlog[l] # <<>>}

\* do_standalone_mode.  select leaves the ready sockets at the front of the
\* array; the loop then resets the number of its elements, not the elements.
Select ==
  LET found == SelectSeq(Sockfds, LAMBDA l : l \in Watched)
  IN /\ server = "select" /\ Watched # {}
     /\ server' = "accept" /\ ready' = Watched
     /\ fds' = [i \in 1 .. Len(fds) |-> IF i <= Len(found) THEN found[i] ELSE fds[i]]
     /\ UNCHANGED <<scenario, process, port, backlog, serving, table, handle, thread, net,
                    used>>

FreeHandle == CHOOSE h \in Handle : table[h] = NoClient

\* The ready listener that comes first in sockfds
First(l) ==
  \E i \in 1 .. Len(Sockfds) : /\ Sockfds[i] = l
                               /\ \A j \in 1 .. (i - 1) : Sockfds[j] \notin ready

\* accept_request takes the ready listeners in the order of sockfds;
\* process_request accepts one connection of each.
Accept ==
  /\ server = "accept"
  /\ \/ /\ ready = {} /\ server' = "select"
        /\ UNCHANGED <<ready, serving, table, handle, backlog>>
     \/ \E l \in ready :
          LET c == Head(backlog[l])
          IN /\ First(l)
             /\ server' = "recv_op" /\ serving' = c
             /\ ready' = ready \ {l}
             /\ backlog' = [backlog EXCEPT ![l] = Tail(@)]
             /\ handle' = [handle EXCEPT ![c] = FreeHandle]
             /\ table' = [table EXCEPT ![FreeHandle] = c]
  /\ UNCHANGED <<scenario, process, port, fds, thread, net, used>>

\* recv_pdu
RecvOp ==
  /\ server = "recv_op"
  /\ \/ /\ up[serving] # <<>>
        /\ up' = [up EXCEPT ![serving] = Tail(@)]
        /\ server' = IF Head(up[serving])[1] = "list" THEN "reply_list" ELSE "recv_import"
     \/ Ended(up[serving], ClientGone(serving)) /\ server' = "close" /\ UNCHANGED up
  /\ UNCHANGED <<scenario, process, port, backlog, fds, ready, serving, table, handle,
                 thread, down, shut, broken, used>>

\* recv_request_import: the bus id
RecvImport ==
  /\ server = "recv_import"
  /\ \/ /\ up[serving] # <<>>
        /\ up' = [up EXCEPT ![serving] = Tail(@)]
        /\ \/ server' = "export" /\ UNCHANGED down
           \/ /\ "nodev" \in scenario.faults /\ Down(serving, <<<<"nodev", 0>>>>)
              /\ server' = "close"
     \/ Ended(up[serving], ClientGone(serving)) /\ server' = "close" /\ UNCHANGED <<up, down>>
  /\ UNCHANGED <<scenario, process, port, backlog, fds, ready, serving, table, handle,
                 thread, shut, broken, used>>

\* export_device submits the producer thread of the connection.
Export ==
  /\ server = "export"
  /\ \/ /\ thread' = [thread EXCEPT ![serving] = "open"]
        /\ server' = "reply_op" /\ UNCHANGED down
     \/ /\ "export" \in scenario.faults /\ Down(serving, <<<<"na", 0>>>>)
        /\ server' = "close" /\ UNCHANGED thread
  /\ UNCHANGED <<scenario, process, port, backlog, fds, ready, serving, table, handle,
                 up, shut, broken, used>>

\* need_close_sockfd is FALSE when recv_request_import has returned 0.
AfterImport == "accept"

\* The reply and the udev; the result of build_udev is not looked at.
ReplyImport ==
  /\ server \in {"reply_op", "reply_udev"}
  /\ \/ /\ \E m \in IF server = "reply_op" THEN {"ok"}
                    ELSE IF "udev" \in scenario.faults THEN {"udev", "junk"} ELSE {"udev"} :
             Down(serving, <<<<m, 0>>>>)
        /\ server' = IF server = "reply_op" THEN "reply_udev" ELSE AfterImport
     \/ ClientGone(serving) /\ server' = "close" /\ UNCHANGED down
  /\ UNCHANGED <<scenario, process, port, backlog, fds, ready, serving, table, handle,
                 thread, up, shut, broken, used>>

\* send_reply_devlist: the reply, the number of devices and the devices
ReplyList ==
  /\ server = "reply_list" /\ server' = "close"
  /\ \/ \E n \in 0 .. MaxDevs :
          Down(serving, <<<<"list", 0>>, <<"ndev", n>>>> \o [i \in 1 .. n |-> <<"udev", i>>])
     \/ ClientGone(serving) /\ UNCHANGED down
  /\ UNCHANGED <<scenario, process, port, backlog, fds, ready, serving, table, handle,
                 thread, up, shut, broken, used>>

\* process_request closes the connection of a request that is done or failed.
CloseSocket ==
  /\ server = "close" /\ server' = "accept"
  /\ table' = [table EXCEPT ![handle[serving]] = NoClient]
  /\ shut' = [shut EXCEPT ![serving] = TRUE]
  /\ UNCHANGED <<scenario, process, port, backlog, fds, ready, serving, handle, thread,
                 up, down, broken, used>>

(***************************************************************************)
(* The threads of a connection (Pool).  They know the socket's handle, not *)
(* the connection, and never close it.                                     *)
(***************************************************************************)

\* ThreadForProduceRequest opens the device, or returns.
OpenStubDev(c) ==
  /\ thread[c] = "open"
  /\ \/ thread' = [thread EXCEPT ![c] = "serve"]
     \/ "open" \in scenario.faults /\ thread' = [thread EXCEPT ![c] = "ended"]
  /\ UNCHANGED <<scenario, process, port, loop, net, used>>

\* A command is read from whatever connection the handle names now, and
\* answered with a header and a payload, or with an error.
Serve(c) ==
  LET d == table[handle[c]]
  IN /\ thread[c] = "serve" /\ d # NoClient /\ up[d] # <<>>
     /\ up' = [up EXCEPT ![d] = Tail(@)]
     /\ LET seq == Head(up[d])[2]
        IN \/ Down(d, <<<<"ret", seq>>, <<"data", seq>>>>)
           \/ "stall" \in scenario.faults /\ Down(d, <<<<"err", seq>>>>)
     /\ UNCHANGED <<scenario, process, port, loop, thread, shut, broken, used>>

\* The socket is closed or the client gone: the read fails.
ThreadEnds(c) ==
  LET d == table[handle[c]]
  IN /\ thread[c] = "serve"
     /\ d = NoClient \/ Ended(up[d], ClientGone(d))
     /\ thread' = [thread EXCEPT ![c] = "ended"]
     /\ UNCHANGED <<scenario, process, port, loop, net, used>>

(***************************************************************************)
(* What may happen to a tool and its connection.                           *)
(***************************************************************************)

\* While the server sends the reply of an import, a lost client makes it close
\* a socket that its threads use; that has a scenario of its own ("vanish").
MayBeLost(c) ==
  /\ tool[c] \notin {"start", "exit"}
  /\ tool[c] \in {"rep_op", "rep_udev"} => "vanish" \in scenario.faults

\* A tool that dies while it hands over its handles is a hand-over that fails.
Crash(c) ==
  /\ "crash" \in scenario.faults /\ MayBeLost(c) /\ Leave(c)
  /\ tool[c] \notin {"dup_hdev", "dup_sock", "write_hdev", "write_sock"}
  /\ UNCHANGED <<scenario, count, attacher, pipe, loop, thread, net, used>>

Reset(c) ==
  /\ "reset" \in scenario.faults /\ ~broken[c]
  /\ MayBeLost(c) \/ attacher[c] = "forward"
  /\ broken' = [broken EXCEPT ![c] = TRUE]
  /\ up' = [up EXCEPT ![c] = <<>>] /\ down' = [down EXCEPT ![c] = <<>>]
  /\ UNCHANGED <<scenario, process, port, loop, thread, shut, used>>

Tool(c) ==
  \/ Connect(c) \/ SendRequest(c) \/ RecvReply(c) \/ SendFetch(c) \/ RecvRet(c)
  \/ RecvData(c) \/ ImportDevice(c) \/ CreateProcess(c) \/ Duplicate(c)
  \/ WriteHandleValue(c) \/ CloseHandles(c) \/ RecvList(c) \/ Detach(c)
Attacher(c) ==
  \/ ReadHandleValue(c) \/ ForwardCommand(c) \/ ForwardAnswer(c) \/ ForwardEnds(c)
  \/ Shutdown(c)
Server ==
  \/ Select \/ Accept \/ RecvOp \/ RecvImport \/ Export \/ ReplyImport \/ ReplyList
  \/ CloseSocket
Threads(c) == OpenStubDev(c) \/ Serve(c) \/ ThreadEnds(c)

Next ==
  \/ Server
  \/ \E c \in Client : Tool(c) \/ Attacher(c) \/ Threads(c) \/ Crash(c) \/ Reset(c)

Spec == Init /\ [][Next]_vars

\* Processes and threads run and the device answers the server; nobody has to
\* crash, and a person may call the tool or not.
Fairness ==
  /\ WF_vars(Server)
  /\ \A c \in Client : /\ WF_vars(Tool(c) /\ tool[c] # "start")
                       /\ WF_vars(Attacher(c)) /\ WF_vars(Threads(c))

FairSpec == Spec /\ Fairness

(***************************************************************************)
(* Properties.                                                             *)
(***************************************************************************)

\* What a tool is about to receive.
Awaited(step) ==
  CASE step = "rep_op" -> {"ok", "nodev", "na"}
    [] step = "rep_udev" -> {"udev", "junk"}
    [] step = "ret" -> {"ret", "err"}
    [] step = "data" -> {"data"}
    [] step = "rep_list" -> {"list"}
    [] step = "ndev" -> {"ndev"}
    [] step = "devs" -> {"udev"}
    [] OTHER -> {}

\* A tool never takes one message for another, although the server's threads
\* run before the server has replied; and what the attacher finds on the
\* connection answers the driver's commands, not the tool's.  (Without
\* "vanish": a client that is lost while the server replies to its import makes
\* the handle go to the next client, see OwnSocket.)
StreamInStep ==
  \A c \in Client :
    /\ (down[c] # <<>> /\ Awaited(tool[c]) # {})
         => Head(down[c])[1] \in Awaited(tool[c])
    /\ attacher[c] = "forward"
         => \A i \in 1 .. Len(down[c]) : \E n \in 1 .. MaxCmds : down[c][i][2] = DriverSeq(n)

\* The handle that the threads of a connection read and write is that
\* connection's as long as they run.  It is not when the reply to the import
\* cannot be sent ("vanish"): the server then closes the socket under the threads
\* it has started, and the next client gets the same handle.  No passing run
\* checks this; it is part of the invariant that proves NothingMistaken.
OwnSocket ==
  \A c \in Client : thread[c] \in {"open", "serve"} => table[handle[c]] = c

\* usbip_dscr.c, of the numbers of the descriptor requests: "sufficient large
\* enough seq used to avoid conflict with normal vhci operation".
SeqNumsApart == \A c \in Client : IsInjective(used[c])

\* Every command of the tool that has connected ends, although the server has
\* one thread for all requests and clients die in the middle of theirs.  (When
\* the device cannot be opened the client is left waiting, and so is a client
\* of a listener that select's array has lost.)
ToolEnds ==
  \A c \in Client :
    (/\ tool[c] # "start" /\ "open" \notin scenario.faults
     /\ \A d \in Client : scenario.to[d] = scenario.to[c]) ~> tool[c] = "exit"

\* A device that is plugged in is unplugged or has an attacher that forwards,
\* whatever fails before; once its connection is lost it is unplugged.  (When
\* the handles cannot be handed over the attacher waits for them for ever.)
DeviceServed ==
  \A c \in Client :
    /\ (port[c] # 0 /\ "handover" \notin scenario.faults)
         ~> (port[c] = 0 \/ attacher[c] = "forward")
    /\ (port[c] # 0 /\ broken[c] /\ "handover" \notin scenario.faults)
         ~> (port[c] = 0)
=============================================================================
