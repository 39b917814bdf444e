------------------------------ MODULE UrbConv -------------------------------
(***************************************************************************)
(* How the UDE driver writes a URB as a CMD_SUBMIT (vhci_urbr_store*.c,    *)
(* vhci_proto.c), how it reads a RET_SUBMIT back into the URB              *)
(* (vhci_urbr_fetch*.c), and the conversions both drivers share            *)
(* (driver/lib/usbd_helper.c).                                             *)
(*                                                                         *)
(* A URB is a record; what its fields are depends on fn, the URB function. *)
(* A byte is a number and a buffer a sequence of bytes; a packet           *)
(* descriptor counts as one unit of length.  wValue is the pair of its     *)
(* bytes <<high, low>>.  Device and sequence numbers, the interval and the *)
(* start frame are left out: they are copied and nothing depends on them.  *)
(***************************************************************************)
EXTENDS Integers, SequencesExt

CONSTANTS
  iSerial,   \* string index of the serial number, 0 without one
  wserial    \* the serial number the device is given, as string descriptor

ASSUME SerialAssumption == iSerial \in Nat /\ wserial \in Seq(Nat)

Sum(s) == FoldSeq(LAMBDA a, b : a + b, 0, s)

-----------------------------------------------------------------------------
(* Status codes and flags *)

\* Mutant: the device's own code for a lost device is missing.
Mutto_usbip_status(s) == IF s = "DEVICE_GONE" THEN 0 ELSE -22

\* The rest of the USBD codes are errors (negative).
to_usbip_status(s) ==
  LET code == [SUCCESS |-> 0, STALL_PID |-> -32, ENDPOINT_HALTED |-> -32,
               ERROR_SHORT_TRANSFER |-> -121, TIMEOUT |-> -110, CANCELED |-> -104,
               PENDING |-> -115, BABBLE_DETECTED |-> -75, DEVICE_GONE |-> -19,
               CRC |-> -84, DATA_OVERRUN |-> -70, DATA_UNDERRUN |-> -63,
               INSUFFICIENT_RESOURCES |-> -12, BTSTUFF |-> -71,
               INTERNAL_HC_ERROR |-> -71, HUB_INTERNAL_ERROR |-> -71,
               DEV_NOT_RESPONDING |-> -71, ERROR_BUSY |-> -16]
  IN IF s \in DOMAIN code THEN code[s] ELSE -22

to_usbd_status(n) ==
  LET e == IF n < 0 THEN -n ELSE n
  IN CASE e = 0 -> "SUCCESS"
       [] e = 32 -> "STALL_PID"
       [] e = 121 -> "ERROR_SHORT_TRANSFER"
       [] e = 62 -> "DEV_NOT_RESPONDING"
       [] e = 110 -> "TIMEOUT"
       [] e \in {2, 104} -> "CANCELED"
       [] e = 115 -> "PENDING"
       [] e = 75 -> "BABBLE_DETECTED"
       [] e \in {19, 108} -> "DEVICE_GONE"
       [] e = 84 -> "CRC"
       [] e = 70 -> "DATA_OVERRUN"
       [] e = 63 -> "DATA_UNDERRUN"
       [] e = 12 -> "INSUFFICIENT_RESOURCES"
       [] e = 71 -> "BTSTUFF"
       [] e = 28 -> "NO_BANDWIDTH"
       [] e = 18 -> "ISOCH_REQUEST_FAILED"
       [] e = 6 -> "INTERNAL_HC_ERROR"
       [] OTHER -> "INVALID_PARAMETER"

transflag(flags) ==
  (IF "SHORT_OK" \in flags THEN {} ELSE {"SHORT_NOT_OK"})
    \cup (IF "ISO_ASAP" \in flags THEN {"ISO_ASAP"} ELSE {})

to_usbd_flags(flags) ==
  (IF "SHORT_NOT_OK" \in flags THEN {} ELSE {"SHORT_OK"})
    \cup (flags \cap {"ISO_ASAP"})

-----------------------------------------------------------------------------
(* The command of a URB *)

Address(ep) == ep.num + (IF ep.in THEN 128 ELSE 0)
DefaultEp == [num |-> 0, in |-> FALSE, type |-> "control"]

\* build_setup_packet and the assignments that follow its calls.
build_setup_packet(in, type, recip, request, value, index, len) ==
  [in |-> in, type |-> type, recip |-> recip, request |-> request,
   value |-> value, index |-> index, len |-> len]

ZeroSetup == build_setup_packet(FALSE, "standard", "device", "GET_STATUS", <<0, 0>>, 0, 0)

set_cmd_submit_usbip_header(in, ep, flags, len, setup) ==
  [in |-> in, ep |-> ep.num, flags |-> transflag(flags), len |-> len,
   n_pkts |-> 0, setup |-> setup]

NoHdr == set_cmd_submit_usbip_header(FALSE, DefaultEp, {}, 0, ZeroSetup)

\* What a store function leaves: its status, the header, how much the read is
\* told to have got, and whether the rest is left to the next read.
Stored(hdr) == [status |-> "SUCCESS", hdr |-> hdr, got |-> "header", partial |-> FALSE]
StoreFails == [Stored(NoHdr) EXCEPT !.status = "INVALID", !.got = "nothing"]

\* The payload of a URB that is sent: the buffer of an OUT transfer.
Content(u) == [k \in 1 .. u.len |-> k]

\* The payload of an OUT transfer is copied if the read has room for it, else
\* len_sent_partial tells the next read to go on with it.  (Bulk and control
\* transfers that are copied whole announce more or less than they copied, but a
\* header is read with no room for more, so that only len = 0 comes here.)
StoredOut(hdr, len, room) == [Stored(hdr) EXCEPT !.partial = room < len]

store_urbr_get_status(u) ==
  Stored(set_cmd_submit_usbip_header(TRUE, DefaultEp, {"SHORT_OK"}, u.len,
    build_setup_packet(TRUE, "standard", u.recip, "GET_STATUS", <<0, 0>>, u.index,
                       u.len % 2^16)))

\* Mutant: the language of a string is not sent.
Mutstore_urbr_dscr_dev(u) ==
  IF u.dtype \in {1, 2, 3, 4}
  THEN Stored(set_cmd_submit_usbip_header(TRUE, DefaultEp, {"SHORT_OK"}, u.len,
         build_setup_packet(TRUE, "standard", "device", "GET_DESCRIPTOR",
                            <<u.dtype, u.index>>, 0, u.len % 2^16)))
  ELSE StoreFails

\* Descriptor types: 1 device, 2 configuration, 3 string, 4 interface.
store_urbr_dscr_dev(u) ==
  LET index == CASE u.dtype \in {1, 2} -> 0
                 [] u.dtype = 4 -> u.index
                 [] OTHER -> u.lang
  IN IF u.dtype \in {1, 2, 3, 4}
     THEN Stored(set_cmd_submit_usbip_header(TRUE, DefaultEp, {"SHORT_OK"}, u.len,
            build_setup_packet(TRUE, "standard", "device", "GET_DESCRIPTOR",
                               <<u.dtype, u.index>>, index, u.len % 2^16)))
     ELSE StoreFails

store_urbr_dscr_intf(u) ==
  Stored(set_cmd_submit_usbip_header(TRUE, DefaultEp, {"SHORT_OK"}, u.len,
    build_setup_packet(TRUE, "standard", "interface", "GET_DESCRIPTOR",
                       <<u.dtype, u.index>>, u.lang, u.len % 2^16)))

\* The read of an IN request is not told that it got the header.
store_urbr_vendor_class(u, room) ==
  LET hdr == set_cmd_submit_usbip_header(u.in, DefaultEp, u.flags \cup {"SHORT_OK"}, u.len,
               build_setup_packet(u.in, u.fn, u.recip, u.request, u.value, u.index,
                                  u.len % 2^16))
  IN IF u.in THEN [Stored(hdr) EXCEPT !.got = "nothing"] ELSE StoredOut(hdr, u.len, room)

store_urbr_control_transfer(u, room) ==
  LET hdr == set_cmd_submit_usbip_header(u.in, DefaultEp, u.flags \cup {"SHORT_OK"}, u.len,
                                         u.setup)
  IN IF u.in THEN Stored(hdr) ELSE StoredOut(hdr, u.len, room)

is_serial_setup_pkt(setup) ==
  /\ setup.in /\ setup.type = "standard" /\ setup.recip = "device"
  /\ setup.request = "GET_DESCRIPTOR" /\ setup.value = <<3, iSerial>>

\* A request for the serial number is answered on the spot.
store_urbr_control_transfer_ex(u, room) ==
  LET hdr == set_cmd_submit_usbip_header(u.in, DefaultEp, u.flags, u.len, u.setup)
  IN IF iSerial > 0 /\ wserial # <<>> /\ is_serial_setup_pkt(u.setup)
     THEN [Stored(NoHdr) EXCEPT !.status = "COMPLETE", !.got = "nothing"]
     ELSE IF u.in THEN Stored(hdr) ELSE StoredOut(hdr, u.len, room)

\* The direction is taken from the flags of the URB, not from its pipe.
store_urbr_bulk(u, room) ==
  LET hdr == set_cmd_submit_usbip_header(u.in, u.ep, u.flags, u.len, ZeroSetup)
  IN IF u.ep.type # "bulk" THEN StoreFails
     ELSE IF u.in THEN Stored(hdr) ELSE StoredOut(hdr, u.len, room)

\* A packet lasts to the next one, the last to the end of the buffer.
IsoLength(u, i) ==
  (IF i < Len(u.offsets) THEN u.offsets[i + 1] ELSE u.len) - u.offsets[i]

\* Whether a packet begins before the one before it: "strange iso packet offset".
Strange(u, i) == i > 1 /\ u.offsets[i] < u.offsets[i - 1]

\* store_iso_data gives up at such a packet, and its callers do not look at that:
\* the length of the packet before and the descriptors from there on are what the
\* buffer held, stale.
store_iso_data(u, stale) ==
  [data |-> IF u.in THEN <<>> ELSE Content(u),
   descs |-> [i \in DOMAIN u.offsets |->
     IF \E j \in 1 .. i : Strange(u, j) THEN stale
     ELSE [offset |-> u.offsets[i],
           length |-> IF i < Len(u.offsets) /\ Strange(u, i + 1) THEN stale.length
                      ELSE IsoLength(u, i),
           actual_length |-> 0, status |-> 0]]]

get_iso_payload_len(u) == Len(u.offsets) + (IF u.in THEN 0 ELSE u.len)

\* The setup packet of the header is never written: garbage is what the buffer held.
store_urbr_iso(u, room, garbage) ==
  LET hdr == [set_cmd_submit_usbip_header(u.in, u.ep, u.flags \cup {"SHORT_OK"}, u.len, garbage)
                EXCEPT !.n_pkts = Len(u.offsets)]
  IN IF u.ep.type # "iso" THEN StoreFails
     ELSE StoredOut(hdr, get_iso_payload_len(u), room)

store_urbr_select_config(u) ==
  Stored(set_cmd_submit_usbip_header(FALSE, DefaultEp, {}, 0,
    build_setup_packet(FALSE, "standard", "device", "SET_CONFIGURATION", <<0, u.value>>, 0, 0)))

store_urbr_select_interface(u) ==
  Stored(set_cmd_submit_usbip_header(FALSE, DefaultEp, {}, 0,
    build_setup_packet(FALSE, "standard", "interface", "SET_INTERFACE", <<0, u.alt>>, 0, 0)))

store_urbr_reset_pipe(u) ==
  Stored(set_cmd_submit_usbip_header(FALSE, DefaultEp, {}, 0,
    build_setup_packet(FALSE, "standard", "endpoint", "CLEAR_FEATURE", <<0, 0>>,
                       Address(u.ep), 0)))

\* store_urbr and store_urbr_urb; a vendor request to "other" is not handled.
store_urbr(u, room, garbage) ==
  CASE u.fn = "get_status" -> store_urbr_get_status(u)
    [] u.fn = "get_descriptor" /\ u.recip = "device" -> store_urbr_dscr_dev(u)
    [] u.fn = "get_descriptor" /\ u.recip = "interface" -> store_urbr_dscr_intf(u)
    [] u.fn \in {"class", "vendor"} /\ <<u.fn, u.recip>> # <<"vendor", "other">>
         -> store_urbr_vendor_class(u, room)
    [] u.fn = "control" -> store_urbr_control_transfer(u, room)
    [] u.fn = "control_ex" -> store_urbr_control_transfer_ex(u, room)
    [] u.fn = "bulk" -> store_urbr_bulk(u, room)
    [] u.fn = "iso" -> store_urbr_iso(u, room, garbage)
    [] u.fn = "select_config" -> store_urbr_select_config(u)
    [] u.fn = "select_interface" -> store_urbr_select_interface(u)
    [] u.fn = "reset_pipe" -> store_urbr_reset_pipe(u)
    [] OTHER -> StoreFails

NoPayload == [data |-> <<>>, descs |-> <<>>]

\* The payload that the read after a partial one gets.
store_urbr_partial(u, stale) ==
  IF u.fn = "iso" THEN store_iso_data(u, stale) ELSE [data |-> Content(u), descs |-> <<>>]

-----------------------------------------------------------------------------
(* The answer to a URB *)

\* What the URB says when it is completed: NTSTATUS of the request, status of the URB,
\* its buffer and length, and the packets of an isochronous one.
Unfetched(u) ==
  [nt |-> "SUCCESS", status |-> "none", len |-> u.len,
   buf |-> [k \in 1 .. u.len |-> IF u.in THEN 0 ELSE k], pkts |-> <<>>]

copy_to_transfer_buffer(u, data, len) ==
  IF u.len < len THEN [Unfetched(u) EXCEPT !.nt = "INVALID"]
  ELSE [Unfetched(u) EXCEPT !.len = len,
          !.buf = [k \in 1 .. u.len |-> IF k <= len THEN data[k] ELSE @[k]]]

\* fetch_urbr_status and fetch_urbr_dscr always copy, the others in direction IN.
fetch_urbr_copied(u, ans) == copy_to_transfer_buffer(u, ans.data, ans.actual_length)

fetch_urbr_vendor_or_class(u, ans) ==
  IF u.in THEN fetch_urbr_copied(u, ans)
  ELSE [Unfetched(u) EXCEPT !.len = ans.actual_length]

\* fetch_urbr_control_transfer, its _ex, and fetch_urbr_bulk_or_interrupt.
fetch_urbr_transfer(u, ans) == IF u.in THEN fetch_urbr_copied(u, ans) ELSE Unfetched(u)

save_iso_desc(u, descs) ==
  [i \in DOMAIN u.offsets |-> [length |-> descs[i].actual_length,
                               status |-> to_usbd_status(descs[i].status)]]

\* Packet i is copied from behind the packets before it to its offset, unless one of
\* the packets up to it does not fit the buffer or the data.
fetch_iso_data(u, src, pkts) ==
  LET from(i) == Sum([j \in 1 .. i - 1 |-> pkts[j].length])
      fits(i) == /\ u.offsets[i] + pkts[i].length <= u.len
                 /\ from(i) + pkts[i].length <= Len(src)
      copied == {i \in DOMAIN pkts : \A j \in 1 .. i : pkts[j].length = 0 \/ fits(j)}
      at(k) == {i \in copied : k \in u.offsets[i] + 1 .. u.offsets[i] + pkts[i].length}
  IN [k \in 1 .. u.len |->
        IF at(k) = {} THEN 0
        ELSE LET i == CHOOSE j \in at(k) : TRUE IN src[from(i) + k - u.offsets[i]]]

\* As many descriptors are read as the URB has packets, however many the answer has:
\* behind it is what the buffer held, stale.
fetch_urbr_iso(u, ans, stale) ==
  LET descs == [i \in DOMAIN u.offsets |-> IF i <= Len(ans.descs) THEN ans.descs[i] ELSE stale]
      pkts == save_iso_desc(u, descs)
  IN IF \E i \in DOMAIN u.offsets : descs[i].offset > u.offsets[i]
     THEN [Unfetched(u) EXCEPT !.nt = "INVALID"]
     ELSE IF ~u.in THEN [Unfetched(u) EXCEPT !.pkts = pkts]
     ELSE [Unfetched(u) EXCEPT !.pkts = pkts, !.len = ans.actual_length,
             !.buf = fetch_iso_data(u, ans.data, pkts)]

\* Requests that are no URB (selections, resets) do not look at the answer.
fetch_urbr(u, ans, stale) ==
  LET urb == CASE u.fn \in {"get_status", "get_descriptor"} -> fetch_urbr_copied(u, ans)
               [] u.fn \in {"class", "vendor"} -> fetch_urbr_vendor_or_class(u, ans)
               [] u.fn \in {"control", "control_ex", "bulk"} -> fetch_urbr_transfer(u, ans)
               [] u.fn = "iso" -> fetch_urbr_iso(u, ans, stale)
               [] OTHER -> Unfetched(u)
  IN IF u.fn \in {"select_config", "select_interface", "reset_pipe"} THEN Unfetched(u)
     ELSE IF urb.nt = "SUCCESS" \/ ans.status # 0
          THEN [urb EXCEPT !.status = to_usbd_status(ans.status)] ELSE urb

\* A stalled pipe is reset without the client asking for it.
Stalled(u, ans) ==
  /\ u.fn \notin {"select_config", "select_interface", "reset_pipe"}
  /\ to_usbd_status(ans.status) = "STALL_PID"

\* The serial number is put into the URB that asks for it.
fetch_done_urbr_control_transfer_ex(u) ==
  copy_to_transfer_buffer(u, wserial, IF u.len < Len(wserial) THEN u.len ELSE Len(wserial))

=============================================================================
