------------------------------ MODULE UrbWire -------------------------------
(***************************************************************************)
(* One request after the other on its way from the UDE driver of the       *)
(* client through the forwarders to the stub driver of the server and      *)
(* back: stored as a command (UrbConv), framed by the forwarder            *)
(* (usbip_forward.c), turned into a request to the USB stack               *)
(* (stub_write.c, stub_usbd.c), answered, framed again and fetched.        *)
(*                                                                         *)
(* The device has one configuration with one interface, whose alternate    *)
(* settings both sides keep track of: the client in intf_altsettings       *)
(* (vhci_ep.c), the stub in devconf (stub_devconf.c).  Queues, races and   *)
(* cancellation are in UdeUrb, Pool and StubRes.                           *)
(***************************************************************************)
EXTENDS UrbConv

CONSTANTS
  Urbs,        \* the URBs class drivers may submit on the default pipe
  Transfers,   \* and on other pipes: bulk and isochronous ones
  Pipes,       \* the endpoints of each alternate setting, in their order
  ConfValue,   \* the value of the configuration
  Failures,    \* statuses of a URB that the USB stack fails
  DescSize     \* size of an isochronous packet descriptor in bytes of a buffer

Settings == DOMAIN Pipes
Endpoints == UNION {Range(Pipes[s]) : s \in Settings}

\* An address always stands for the same endpoint.
ASSUME WireAssumption ==
  /\ Settings \subseteq Nat /\ 0 \in Settings
  /\ \A s \in Settings : Pipes[s] \in Seq(Endpoints)
  /\ \A e, f \in Endpoints : Address(e) = Address(f) => e = f
  /\ \A u \in Transfers : u.ep \in Endpoints
  /\ ConfValue \in Nat
  /\ DescSize \in Nat

VARIABLES
  intf_altsetting,   \* vusb->intf_altsettings[0], -1 while unassigned
  configured,        \* the client was told that the configuration is selected
  devconf,           \* the setting whose pipes the stub knows, or NoConf or Lost
  resets,            \* pipes with a reset in the client's queue
  faults,            \* what has made the two sides lose track of the setting
  stage,             \* how far the request is
  urb,               \* the request
  hdr, payload,      \* its command, as far as the forwarder has it
  partial,           \* len_sent_partial # 0
  op,                \* what the stub asks of the USB stack
  written,           \* the write of the command is completed while the stack works
  res,               \* what the USB stack returns
  ans,               \* the answer
  out                \* the completed URB

conf == <<intf_altsetting, configured, devconf, resets, faults>>
command == <<hdr, payload, partial>>
vars == <<conf, stage, urb, command, op, written, res, ans, out>>

NoConf == -1
Lost == -2
NoUrb == [fn |-> "none"]
NoOp == [op |-> "none"]
NoRes == [ok |-> FALSE, status |-> "none"]
NoAns == [status |-> 0, actual_length |-> 0, n_pkts |-> 0, data |-> <<>>, descs |-> <<>>]
NoOut == [nt |-> "none"]

\* The type of what outlives a request; the rest is made of records by the functions.
TypeOK ==
  /\ intf_altsetting \in Settings \cup {-1}
  /\ configured \in BOOLEAN
  /\ devconf \in Settings \cup {NoConf, Lost}
  /\ resets \subseteq Endpoints \cup {DefaultEp}
  /\ faults \subseteq {"failed", "reselected", "freed", "memory"}
  /\ stage \in {"idle", "queued", "header", "sent", "device", "answered", "done",
                "refused", "silent", "closed", "desync", "crash"}

Init ==
  /\ intf_altsetting = -1 /\ configured = FALSE
  /\ devconf = NoConf /\ resets = {} /\ faults = {}
  /\ stage = "idle" /\ urb = NoUrb
  /\ hdr = NoHdr /\ payload = NoPayload /\ partial = FALSE
  /\ op = NoOp /\ written = FALSE /\ res = NoRes /\ ans = NoAns /\ out = NoOut

-----------------------------------------------------------------------------
(* The client issues a request *)

Issue(u) ==
  /\ stage = "idle"
  /\ stage' = "queued" /\ urb' = u
  /\ UNCHANGED <<devconf, faults, command, op, written, res, ans, out>>

\* A URB; of the other pipes only those of the current setting exist.
Submit ==
  /\ resets = {}
  /\ \/ \E u \in Urbs : Issue(u)
     \/ /\ configured
        /\ \E u \in Transfers :
             /\ u.ep \in Range(Pipes[IF intf_altsetting = -1 THEN 0 ELSE intf_altsetting])
             /\ Issue(u)
  /\ UNCHANGED <<intf_altsetting, configured, resets>>

\* ep_configure: the device is initialised or its configuration changed.
SelectConfiguration ==
  /\ resets = {}
  /\ Issue([fn |-> "select_config", in |-> FALSE, len |-> 0, value |-> ConfValue])
  /\ UNCHANGED <<intf_altsetting, configured, resets>>

\* setup_ep_from_dscr: the first setting that has the endpoint's descriptor.
SettingOf(ep) ==
  CHOOSE s \in Settings :
    /\ ep \in Range(Pipes[s])
    /\ \A t \in Settings : ep \in Range(Pipes[t]) => s <= t

\* The loop of dsc_find_intf_ep looks at the first endpoint again and again.
dsc_find_intf_ep(s, ep) == Pipes[s] # <<>> /\ Address(Pipes[s][1]) = Address(ep)

\* set_intf_for_ep, called with a setting and the endpoints to configure, if any.
SelectInterface ==
  /\ resets = {} /\ configured
  /\ \E alt \in Settings :
       \E s \in {alt} \cup {SettingOf(ep) : ep \in {e \in Endpoints : ~dsc_find_intf_ep(alt, e)}} :
         /\ intf_altsetting # s
         /\ intf_altsetting' = s
         /\ Issue([fn |-> "select_interface", in |-> FALSE, len |-> 0, alt |-> s])
  /\ UNCHANGED <<configured, resets>>

\* The reset that a stall has put into the queue.
ResetStalled ==
  \E ep \in resets :
    /\ Issue([fn |-> "reset_pipe", in |-> FALSE, len |-> 0, ep |-> ep])
    /\ resets' = resets \ {ep}
    /\ UNCHANGED <<intf_altsetting, configured>>

-----------------------------------------------------------------------------
(* The forwarder reads the command *)

\* Mutant: no descriptors are read after the header.
Mutget_iso_len(h) == 0

get_iso_len(h) == h.n_pkts

\* What the header announces: get_xfer_len and get_iso_len of a request.
CommandLen(h) == (IF h.in THEN 0 ELSE h.len) + get_iso_len(h)

\* What a buffer may hold where a setup packet is not written.
ResetPipeSetup ==
  build_setup_packet(FALSE, "standard", "endpoint", "RESET_PIPE", <<0, 0>>, 0, 0)

\* The header is read with no room for more.  A read that gets nothing ends the forwarder.
ReadHeader ==
  /\ stage = "queued"
  /\ \E garbage \in IF urb.fn = "iso" THEN {ZeroSetup, ResetPipeSetup} ELSE {ZeroSetup} :
       LET st == store_urbr(urb, 0, garbage)
       IN /\ hdr' = st.hdr
          /\ partial' = st.partial
          /\ \/ /\ st.status = "INVALID"
                /\ stage' = "refused" /\ out' = out
             \/ /\ st.status = "COMPLETE"
                /\ stage' = "done" /\ out' = fetch_done_urbr_control_transfer_ex(urb)
             \/ /\ st.status = "SUCCESS"
                /\ stage' = CASE st.got = "nothing" -> "closed"
                              [] CommandLen(st.hdr) > 0 -> "header"
                              [] OTHER -> "sent"
                /\ out' = out
  /\ UNCHANGED <<conf, urb, payload, op, written, res, ans>>

\* What may be in the buffer of a read or a write where nothing is written.
StaleDescs ==
  {[offset |-> d[1], length |-> d[2], actual_length |-> d[2], status |-> 0] :
     d \in {<<0, 0>>, <<3, 0>>, <<99, 99>>}}

\* The rest of the command is read.  Without a partial one the read goes to the next URB.
ReadPayload ==
  /\ stage = "header"
  /\ stage' = "sent"
  /\ \E stale \in StaleDescs :
       payload' = IF partial THEN store_urbr_partial(urb, stale) ELSE NoPayload
  /\ partial' = FALSE
  /\ UNCHANGED <<conf, urb, hdr, op, written, res, ans, out>>

-----------------------------------------------------------------------------
(* The stub turns the command into a request to the USB stack *)

Refuse == [op |-> "refuse"]
Silent == [op |-> "silent"]

get_info_pipe(addr) ==
  IF devconf \in Settings THEN {e \in Range(Pipes[devconf]) : Address(e) = addr} ELSE {}

process_get_status(s) ==
  [op |-> "get_status", recip |-> s.recip,
   index |-> IF s.recip \in {"interface", "endpoint"} THEN s.index ELSE 0]

\* A report descriptor (0x22) is asked for as it stands, any other one of the device.
process_get_desc(s) ==
  IF s.value[1] = 34 THEN [op |-> "control", setup |-> s, in |-> s.in, len |-> s.len]
  ELSE [op |-> "get_descriptor", dtype |-> s.value[1], index |-> s.value[2],
        lang |-> IF s.value[1] = 3 THEN s.index ELSE 0, in |-> TRUE, len |-> s.len]

ResetOf(addr) ==
  IF get_info_pipe(addr) = {} THEN Refuse
  ELSE [op |-> "reset_pipe", ep |-> CHOOSE e \in get_info_pipe(addr) : TRUE]

process_clear_feature(s) == IF s.recip = "endpoint" THEN ResetOf(s.index % 256) ELSE Refuse

process_set_feature(s) ==
  IF s.recip \in {"device", "endpoint"}
  THEN [op |-> "set_feature", recip |-> s.recip, value |-> s.value, index |-> s.index]
  ELSE Refuse

\* get_usb_dsc_conf looks for a configuration with that value.
process_select_conf(s) ==
  IF s.value[2] = ConfValue THEN [op |-> "select_conf", value |-> s.value] ELSE Refuse

process_select_intf(s) ==
  IF devconf # NoConf /\ s.value[2] \in Settings /\ s.index % 256 = 0
  THEN [op |-> "select_intf", alt |-> s.value[2]] ELSE Refuse

process_standard_request(s) ==
  CASE s.request = "GET_STATUS" -> process_get_status(s)
    [] s.request = "GET_DESCRIPTOR" -> process_get_desc(s)
    [] s.request = "CLEAR_FEATURE" -> process_clear_feature(s)
    [] s.request = "SET_FEATURE" -> process_set_feature(s)
    [] s.request = "SET_CONFIGURATION" -> process_select_conf(s)
    [] s.request = "SET_INTERFACE" -> process_select_intf(s)
    [] OTHER -> Silent

\* The direction and the length are those of the command, the rest of the setup packet.
process_class_vendor_request(h, p) ==
  [op |-> "class", setup |-> [h.setup EXCEPT !.in = h.in, !.len = h.len],
   in |-> h.in, len |-> h.len, data |-> p.data]

process_control_transfer(h, p) ==
  CASE h.setup.type = "standard" -> process_standard_request(h.setup)
    [] h.setup.type \in {"class", "vendor"} -> process_class_vendor_request(h, p)
    [] OTHER -> Silent

get_epaddr_from_hdr(h) == h.ep + (IF h.in THEN 128 ELSE 0)

\* The data of an OUT transfer stay in the buffer of the write (WriteCompleted).
process_bulk_intr_transfer(ep, h, p) ==
  [op |-> "bulk", ep |-> ep, in |-> h.in, len |-> h.len, data |-> p.data]

\* The buffer of an IN transfer is as long as its packets.
process_iso_transfer(ep, h, p) ==
  [op |-> "iso", ep |-> ep, in |-> h.in, flags |-> to_usbd_flags(h.flags),
   len |-> IF h.in THEN Sum([i \in DOMAIN p.descs |-> p.descs[i].length]) ELSE h.len,
   descs |-> p.descs, data |-> p.data]

process_data_transfer(h, p) ==
  LET pipe == get_info_pipe(get_epaddr_from_hdr(h))
      ep == CHOOSE e \in pipe : TRUE
  IN IF pipe = {} THEN Refuse
     ELSE IF ep.type = "iso" THEN process_iso_transfer(ep, h, p)
     ELSE process_bulk_intr_transfer(ep, h, p)

process_cmd_submit(h, p) ==
  IF h.ep = 0 THEN process_control_transfer(h, p)
  ELSE IF h.setup.type = "standard" /\ h.setup.recip = "endpoint"
            /\ h.setup.request = "RESET_PIPE"
  THEN ResetOf(get_epaddr_from_hdr(h))
  ELSE process_data_transfer(h, p)

create_stub_res(status, data, n_pkts) ==
  [status |-> status, actual_length |-> Len(data), n_pkts |-> n_pkts,
   data |-> data, descs |-> <<>>]

\* A command that is not supported is not answered at all.
StubWrite ==
  /\ stage = "sent"
  /\ op' = process_cmd_submit(hdr, payload)
  /\ stage' = CASE op'.op = "silent" -> "silent"
                [] op'.op = "refuse" -> "answered"
                [] OTHER -> "device"
  /\ ans' = IF op'.op = "refuse" THEN create_stub_res(-1, <<>>, 0) ELSE ans
  /\ faults' = IF op'.op = "refuse" /\ urb.fn \in {"select_config", "select_interface"}
               THEN faults \cup {"failed"} ELSE faults
  /\ UNCHANGED <<intf_altsetting, configured, devconf, resets, urb, command, written, res,
                 out>>

\* process_cmd_submit completes the write whether or not the transfer it has submitted
\* is pending.  The buffer of the write is freed then, and from there on the data of a
\* bulk OUT transfer are whatever the memory holds.  (The data of other requests are
\* copied, or the stub waits for the stack: nothing changes for them.)
WriteCompleted ==
  /\ stage = "device" /\ ~written
  /\ op.op = "bulk" /\ ~op.in
  /\ written' = TRUE
  /\ op' \in {op, [op EXCEPT !.data = [k \in DOMAIN @ |-> 0]]}
  /\ UNCHANGED <<conf, stage, urb, command, res, ans, out>>

-----------------------------------------------------------------------------
(* The USB stack completes the request, and the stub answers *)

DeviceBytes(n) == [k \in 1 .. n |-> 100 + k]

\* The packets of an isochronous transfer, each as long as it turned out to be.
PacketResults(descs) ==
  {p \in [DOMAIN descs -> [length : 0 .. Max({descs[i].length : i \in DOMAIN descs} \cup {0}),
                           status : {"SUCCESS", "CRC"}]] :
     \A i \in DOMAIN descs : p[i].length <= descs[i].length}

Succeeded(data, pkts) ==
  [ok |-> TRUE, nt |-> "SUCCESS", status |-> "SUCCESS", data |-> data, pkts |-> pkts]

\* The stack takes packets that follow one another within the buffer.
PacketsFit(o) ==
  \A i \in DOMAIN o.descs :
    /\ o.descs[i].offset + o.descs[i].length <= o.len
    /\ i > 1 => o.descs[i - 1].offset + o.descs[i - 1].length <= o.descs[i].offset

\* What may come back.  A failed URB may never have been looked at: its status then is
\* whatever it was, SUCCESS among others.
Results(o) ==
  {[ok |-> FALSE, nt |-> nt, status |-> s] : nt \in {"UNSUCCESSFUL", "OTHER"}, s \in Failures}
  \cup CASE o.op = "get_status" -> {Succeeded(DeviceBytes(2), <<>>)}
         [] o.op = "iso" ->
              {Succeeded(IF o.in THEN DeviceBytes(o.len) ELSE o.data, p) :
                 p \in IF PacketsFit(o) THEN PacketResults(o.descs) ELSE {}}
         [] o.op \in {"get_descriptor", "control", "class", "bulk"} ->
              {Succeeded(d, <<>>) :
                 d \in IF o.in THEN {DeviceBytes(n) : n \in 0 .. o.len} ELSE {Content(o)}}
         [] OTHER -> {Succeeded(<<>>, <<>>)}

\* submit_class_vendor_req and set_feature tell a stall from other failures.
StallOr1(r) ==
  IF r.nt = "UNSUCCESSFUL" /\ r.status = "STALL_PID" THEN to_usbip_status(r.status) ELSE -1

\* Mutant: a short transfer is answered with the length that was asked for.
Mutdone_bulk_intr_transfer(o, r) ==
  IF ~r.ok THEN create_stub_res(to_usbip_status(r.status), <<>>, 0)
  ELSE [create_stub_res(0, IF o.in THEN r.data ELSE <<>>, 0) EXCEPT !.actual_length = o.len]

done_bulk_intr_transfer(o, r) ==
  IF ~r.ok THEN create_stub_res(to_usbip_status(r.status), <<>>, 0)
  ELSE IF o.in THEN create_stub_res(0, r.data, 0)
  ELSE [create_stub_res(0, <<>>, 0) EXCEPT !.actual_length = Len(r.data)]

\* Mutant: the data are not moved together.
Mutcompact_usbd_iso_data(r, descs) ==
  SubSeq(r.data, 1, Sum([i \in DOMAIN r.pkts |-> r.pkts[i].length]))

\* The packets one right after the other.
compact_usbd_iso_data(r, descs) ==
  FlattenSeq([i \in DOMAIN r.pkts |->
                SubSeq(r.data, descs[i].offset + 1, descs[i].offset + r.pkts[i].length)])

to_iso_descs(r, descs) ==
  [i \in DOMAIN descs |-> [descs[i] EXCEPT !.actual_length = r.pkts[i].length,
                                           !.status = to_usbip_status(r.pkts[i].status)]]

\* A failed transfer is answered with its buffer (none for OUT) and no descriptors, but
\* with the length and number of packets of one that has them.
done_iso_transfer(o, r) ==
  IF ~r.ok
  THEN [create_stub_res(to_usbip_status(r.status), DeviceBytes(o.len), Len(o.descs))
          EXCEPT !.data = IF o.in THEN @ ELSE <<>>]
  ELSE [create_stub_res(0, IF o.in THEN compact_usbd_iso_data(r, o.descs) ELSE <<>>, Len(o.descs))
          EXCEPT !.descs = to_iso_descs(r, o.descs)]

\* The answer to a request.  Whether a pipe was reset is not looked at.
Answer(o, r) ==
  CASE o.op = "bulk" -> done_bulk_intr_transfer(o, r)
    [] o.op = "iso" -> done_iso_transfer(o, r)
    [] o.op = "reset_pipe" -> create_stub_res(0, <<>>, 0)
    [] o.op = "class" -> create_stub_res(IF r.ok THEN 0 ELSE StallOr1(r),
                                         IF r.ok /\ o.in THEN r.data ELSE <<>>, 0)
    [] o.op = "set_feature" -> create_stub_res(IF r.ok THEN 0 ELSE StallOr1(r), <<>>, 0)
    [] o.op \in {"get_descriptor", "control"} ->
         IF r.ok THEN create_stub_res(0, r.data, 0) ELSE create_stub_res(-32, <<>>, 0)
    [] o.op = "get_status" ->
         IF r.ok THEN create_stub_res(0, r.data, 0) ELSE create_stub_res(-1, <<>>, 0)
    [] OTHER -> create_stub_res(IF r.ok THEN 0 ELSE -1, <<>>, 0)

\* Mutant: the pipes of the new setting are not kept.
Mutupdate_devconf(alt) == {devconf, Lost}

\* select_usb_intf frees the URB before update_devconf reads the new pipes from it.
update_devconf(alt) == {alt, Lost}

\* select_usb_conf takes the default settings; create_devconf may lack memory.
create_devconf == {0, NoConf}

\* The answer to an isochronous OUT transfer is built in a new buffer, as long as its
\* data, into which its descriptors are copied.
IsoOverrun(o) == o.op = "iso" /\ ~o.in /\ o.len < DescSize * Len(o.descs)

\* How the completion of a transfer ends.  A failed isochronous OUT transfer has no
\* buffer, but its length makes the read copy one; one that succeeds may find no memory
\* for the new buffer, or write behind its end.  What that overwrites is not known: the
\* machine stops, or the answer goes out as if nothing had happened.
DoneStages(o, r) ==
  IF o.op # "iso" \/ o.in \/ (~r.ok /\ o.len = 0) THEN {"answered"}
  ELSE IF r.ok THEN {"answered", "crash"} ELSE {"crash"}

DeviceDone ==
  /\ stage = "device"
  /\ res' \in Results(op)
  /\ stage' \in DoneStages(op, res')
  /\ ans' = Answer(op, res')
  /\ devconf' \in CASE op.op = "select_conf" /\ res'.ok -> create_devconf
                    [] op.op = "select_intf" /\ res'.ok -> update_devconf(op.alt)
                    [] OTHER -> {devconf}
  /\ faults' = faults
       \cup (IF op.op \in {"select_conf", "select_intf"} /\ ~res'.ok THEN {"failed"} ELSE {})
       \cup (IF op.op = "select_conf" /\ res'.ok /\ intf_altsetting > 0 THEN {"reselected"} ELSE {})
       \cup (IF op.op = "select_conf" /\ res'.ok /\ devconf' = NoConf THEN {"memory"} ELSE {})
       \cup (IF op.op = "select_intf" /\ devconf' = Lost THEN {"freed"} ELSE {})
  /\ UNCHANGED <<intf_altsetting, configured, resets, urb, command, op, written, out>>

-----------------------------------------------------------------------------
(* The answer reaches the client *)

\* What the header announces, the direction being the one of the command.
AnswerLen(h, a) == (IF h.in THEN a.actual_length ELSE 0) + a.n_pkts

\* An answer that is not as long as announced puts the stream out of step for good.
Fetch ==
  /\ stage = "answered"
  /\ IF Len(ans.data) + Len(ans.descs) # AnswerLen(hdr, ans)
     THEN stage' = "desync" /\ UNCHANGED <<out, resets, configured>>
     ELSE /\ stage' = "done"
          /\ \E stale \in StaleDescs : out' = fetch_urbr(urb, ans, stale)
          /\ resets' = IF ~Stalled(urb, ans) THEN resets
                       ELSE resets \cup {IF urb.fn \in {"bulk", "iso"} THEN urb.ep ELSE DefaultEp}
          /\ configured' = (configured \/ urb.fn = "select_config")
  /\ UNCHANGED <<intf_altsetting, devconf, faults, urb, command, op, written, res, ans>>

\* The next request; one without an answer is cancelled by its owner some time.
Complete ==
  /\ stage \in {"done", "refused", "silent"}
  /\ stage' = "idle" /\ urb' = NoUrb
  /\ hdr' = NoHdr /\ payload' = NoPayload /\ partial' = FALSE
  /\ op' = NoOp /\ written' = FALSE /\ res' = NoRes /\ ans' = NoAns /\ out' = NoOut
  /\ UNCHANGED conf

Next ==
  \/ Submit \/ SelectConfiguration \/ SelectInterface \/ ResetStalled
  \/ ReadHeader \/ ReadPayload \/ StubWrite \/ WriteCompleted \/ DeviceDone \/ Fetch \/ Complete

Spec == Init /\ [][Next]_vars

-----------------------------------------------------------------------------
(* Properties *)

\* A command is as long as its header announces when the forwarder sends it on, and the
\* driver keeps nothing back of it: store_urbr* and get_xfer_len / get_iso_len agree.
CommandFramed ==
  stage = "sent" =>
    /\ Len(payload.data) + Len(payload.descs) = CommandLen(hdr)
    /\ ~partial

\* The setup packet that the URB of a class driver stands for.
SetupMeant(u) ==
  CASE u.fn = "get_status" ->
         build_setup_packet(TRUE, "standard", u.recip, "GET_STATUS", <<0, 0>>, u.index, 2)
    [] u.fn = "get_descriptor" ->
         build_setup_packet(TRUE, "standard", u.recip, "GET_DESCRIPTOR", <<u.dtype, u.index>>,
                            IF u.recip = "interface" \/ u.dtype = 3 THEN u.lang ELSE 0, u.len)
    [] u.fn \in {"class", "vendor"} ->
         build_setup_packet(u.in, u.fn, u.recip, u.request, u.value, u.index, u.len)
    [] u.fn \in {"control", "control_ex"} -> u.setup
    [] u.fn = "select_config" ->
         build_setup_packet(FALSE, "standard", "device", "SET_CONFIGURATION", <<0, u.value>>, 0, 0)
    [] u.fn = "select_interface" ->
         build_setup_packet(FALSE, "standard", "interface", "SET_INTERFACE", <<0, u.alt>>, 0, 0)
    [] u.fn = "reset_pipe" ->
         build_setup_packet(FALSE, "standard", "endpoint", "CLEAR_FEATURE", <<0, 0>>,
                            Address(u.ep), 0)

\* The setup packet that the USB stack sends for a request of the stub.
SetupSent(o) ==
  CASE o.op = "get_status" ->
         build_setup_packet(TRUE, "standard", o.recip, "GET_STATUS", <<0, 0>>, o.index, 2)
    [] o.op = "get_descriptor" ->
         build_setup_packet(TRUE, "standard", "device", "GET_DESCRIPTOR", <<o.dtype, o.index>>,
                            o.lang, o.len)
    [] o.op \in {"control", "class"} -> o.setup
    [] o.op = "set_feature" ->
         build_setup_packet(FALSE, "standard", o.recip, "SET_FEATURE", o.value, o.index, 0)
    [] o.op = "select_conf" ->
         build_setup_packet(FALSE, "standard", "device", "SET_CONFIGURATION", o.value, 0, 0)
    [] o.op = "select_intf" ->
         build_setup_packet(FALSE, "standard", "interface", "SET_INTERFACE", <<0, o.alt>>, 0, 0)
    [] o.op = "reset_pipe" ->
         build_setup_packet(FALSE, "standard", "endpoint", "CLEAR_FEATURE", <<0, 0>>,
                            Address(o.ep), 0)

\* Requests the stub is known to change: a descriptor of an interface (unless it is a
\* report descriptor) is asked of the device, and the status of "other" loses its index.
Changed(s) ==
  \/ s.request = "GET_DESCRIPTOR" /\ s.recip # "device" /\ s.value[1] # 34
  \/ s.request = "GET_STATUS" /\ s.recip = "other"

\* store_iso_data takes the packets of a URB as they are.
Ascending(u) == \A i \in DOMAIN u.offsets : ~Strange(u, i)

\* What process_cmd_submit asks of the device is what the class driver at the client
\* asked: the same setup packet and data on the default pipe (process_control_transfer
\* and what it calls), the same pipe, packets and data on the others
\* (process_data_transfer).  Not claimed, because the code does otherwise: the requests
\* of Changed; a transfer whose flags have the other direction than its pipe
\* (DirectionOfPipe); the data of a bulk OUT transfer once the write of its command is
\* completed (DataKept); an isochronous transfer whose setup packet, which
\* store_urbr_iso does not write, reads like a reset of its pipe, or whose packets do not
\* ascend.
SameRequest ==
  stage = "device" =>
    CASE urb.fn = "bulk" ->
           urb.in = urb.ep.in =>
             /\ op.op = "bulk" /\ op.ep = urb.ep /\ op.in = urb.in /\ op.len = urb.len
             /\ ~written => op.data = IF urb.in THEN <<>> ELSE Content(urb)
      [] urb.fn = "iso" ->
           urb.in = urb.ep.in /\ hdr.setup = ZeroSetup /\ Ascending(urb) =>
             /\ op.op = "iso" /\ op.ep = urb.ep /\ op.in = urb.in /\ op.len = urb.len
             /\ op.flags = urb.flags \cup {"SHORT_OK"}
             /\ op.data = IF urb.in THEN <<>> ELSE Content(urb)
             /\ \A i \in DOMAIN urb.offsets : op.descs[i].offset = urb.offsets[i]
      [] OTHER ->
           \/ Changed(SetupMeant(urb))
           \/ /\ SetupSent(op) = SetupMeant(urb)
              /\ op.op = "class" /\ ~op.in => op.data = Content(urb)

\* An answer is as long as the forwarder takes it to be from its header and the direction
\* of the command (create_stub_res, done_*), but for a failed isochronous transfer.
AnswerFramed ==
  stage = "desync" => op.op = "iso" /\ ~res.ok

\* Errors that both conversion tables of usbd_helper.c name as the same error.
Named ==
  {"STALL_PID", "ERROR_SHORT_TRANSFER", "TIMEOUT", "CANCELED", "PENDING", "BABBLE_DETECTED",
   "DEVICE_GONE", "CRC", "DATA_OVERRUN", "DATA_UNDERRUN", "INSUFFICIENT_RESOURCES", "BTSTUFF"}

\* The class driver is not told of a success that was none, nor of a failure that was
\* none: a request that the stub refused or that failed at the device comes back as
\* failed, from a bulk transfer with the same error if both tables name it and as a
\* stall if the endpoint halted, so that the pipe is reset (the other errors come back
\* as a different one); one that succeeded comes back as succeeded, with what was
\* received, as long as it was.  Not claimed, because the code does otherwise: selections
\* and resets of pipes, whose answers fetch_urbr and process_clear_feature do not look at,
\* so that they always succeed; the failure of a transfer whose URB got no status; and
\* isochronous packets that do not ascend.
RoundTrip ==
  stage = "done" /\ op # NoOp
    /\ urb.fn \notin {"select_config", "select_interface", "reset_pipe"} =>
    /\ op.op = "refuse" => out.status # "SUCCESS"
    /\ op.op \notin {"refuse", "reset_pipe"} /\ ~res.ok /\ res.status # "SUCCESS" =>
         /\ out.status # "SUCCESS"
         /\ op.op = "bulk" =>
              /\ res.status \in Named => out.status = res.status
              /\ res.status = "ENDPOINT_HALTED" => out.status = "STALL_PID"
    /\ op.op \notin {"refuse", "reset_pipe"} /\ res.ok
         /\ (urb.fn = "iso" => Ascending(urb)) =>
         /\ out.nt = "SUCCESS" /\ out.status = "SUCCESS"
         /\ urb.in /\ urb.fn # "iso" =>
              out.len = Len(res.data) /\ SubSeq(out.buf, 1, out.len) = res.data

\* Each packet of an isochronous transfer that succeeded is where the class driver wants
\* it, as long as it was and with its status, and nothing is written between packets:
\* compact_usbd_iso_data and fetch_iso_data undo each other.  Said of the values of
\* packets that ascend; the sizes of the buffers are DescsFit's.
PacketsInPlace ==
  stage = "done" /\ op.op = "iso" /\ res.ok /\ Ascending(urb) =>
    /\ \A i \in DOMAIN urb.offsets :
         /\ out.pkts[i] = res.pkts[i]
         /\ \A k \in 1 .. res.pkts[i].length :
              out.buf[urb.offsets[i] + k] = res.data[urb.offsets[i] + k]
    /\ urb.in => Cardinality({k \in DOMAIN out.buf : out.buf[k] # 0}) = out.len

\* A transfer on a pipe of the setting that the client has selected finds its pipe at the
\* stub, unless a selection failed, the configuration was selected again, memory was
\* short, or the stub read the new pipes from freed memory.
PipeKnown ==
  urb.fn \in {"bulk", "iso"} /\ op.op = "refuse" /\ urb.in = urb.ep.in => faults # {}

\* The data that the device gets are those of the command, as long as the transfer
\* lasts.  It fails: process_bulk_intr_transfer leaves them in the buffer of the write.
DataKept ==
  stage = "device" /\ op.op = "bulk" /\ ~op.in => op.data = payload.data

\* done_iso_transfer writes the descriptors of an OUT transfer into a buffer that holds
\* them.  It fails: the buffer is as long as the data of the transfer.
DescsFit == stage \in {"answered", "crash"} /\ res.ok => ~IsoOverrun(op)

\* What store_urbr_iso_partial hands on are the packets of the URB.  It fails: that
\* store_iso_data has given up is not looked at.
PacketsSent ==
  stage = "sent" /\ urb.fn = "iso" =>
    \A i \in DOMAIN urb.offsets : payload.descs[i].offset = urb.offsets[i]

\* The direction of a command is the one of its pipe: "Use a direction flag in pipe handle".
DirectionOfPipe ==
  stage = "sent" /\ urb.fn = "bulk" => hdr.in = urb.ep.in

=============================================================================
