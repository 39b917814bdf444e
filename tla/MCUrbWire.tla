----------------------------- MODULE MCUrbWire ------------------------------
(* Small instance of UrbWire: every URB function, recipient and descriptor  *)
(* type, buffers of up to three bytes, packets with gaps and short ones.    *)
EXTENDS UrbWire

Recipients == {"device", "interface", "endpoint", "other"}

BulkIn == [num |-> 1, in |-> TRUE, type |-> "bulk"]
BulkOut == [num |-> 2, in |-> FALSE, type |-> "bulk"]
IsoIn == [num |-> 3, in |-> TRUE, type |-> "iso"]
IsoOut == [num |-> 4, in |-> FALSE, type |-> "iso"]

\* Setting 1 shares an endpoint with setting 0, behind another one.
MCPipes == [s \in {0, 1} |-> IF s = 0 THEN <<BulkIn, BulkOut>>
                             ELSE <<IsoIn, BulkIn, IsoOut>>]

\* The device itself has no index.
StatusUrbs ==
  {[fn |-> "get_status", recip |-> r, in |-> TRUE, len |-> 2, index |-> i] :
     r \in Recipients \ {"device"}, i \in {0, 1}}
  \cup {[fn |-> "get_status", recip |-> "device", in |-> TRUE, len |-> 2, index |-> 0]}

DescriptorUrbs ==
  [fn : {"get_descriptor"}, recip : {"device", "interface"}, in : {TRUE}, len : {0, 2},
   dtype : {1, 2, 3, 4, 34}, index : {0, 1}, lang : {0, 9}]

VendorUrbs ==
  [fn : {"class", "vendor"}, recip : Recipients, in : BOOLEAN, len : {0, 2}, flags : {{}},
   request : {"R"}, value : {<<0, 1>>}, index : {1}]

Setups ==
  {build_setup_packet(TRUE, "standard", r, "GET_STATUS", <<0, 0>>,
                      IF r = "device" THEN 0 ELSE 1, 2) : r \in Recipients}
  \cup {build_setup_packet(TRUE, "standard", r, "GET_DESCRIPTOR", <<t, i>>,
                           IF t = 3 THEN 9 ELSE 0, 3) :
          r \in {"device", "interface"}, t \in {1, 2, 3, 34}, i \in {0, 2}}
  \cup {build_setup_packet(FALSE, "standard", r, "CLEAR_FEATURE", <<0, 0>>, 129, 0) :
          r \in Recipients}
  \cup {build_setup_packet(FALSE, "standard", r, "SET_FEATURE", <<0, 1>>, 1, 0) : r \in Recipients}
  \cup {build_setup_packet(TRUE, "standard", "device", "GET_CONFIGURATION", <<0, 0>>, 0, 1)}
  \cup {build_setup_packet(in, t, r, "R", <<1, 2>>, 1, l) :
          in \in BOOLEAN, t \in {"class", "vendor"}, r \in Recipients, l \in {0, 2}}
  \cup {build_setup_packet(TRUE, "reserved", "device", "R", <<0, 0>>, 0, 1)}

ControlUrbs ==
  {[fn |-> f, in |-> s.in, len |-> s.len, flags |-> {}, setup |-> s] :
     f \in {"control", "control_ex"}, s \in Setups}

MCUrbs == StatusUrbs \cup DescriptorUrbs \cup VendorUrbs \cup ControlUrbs

\* The packets of the last two do not ascend.
Offsets == {<<0>>, <<0, 1>>, <<0, 2>>, <<0, 1, 3>>, <<0, 2, 1>>, <<2, 0>>}

\* The direction of a bulk URB may not be the one of its pipe.
MCTransfers ==
  [fn : {"bulk"}, in : BOOLEAN, len : {0, 1, 3}, flags : {{}}, ep : {BulkIn, BulkOut, IsoIn}]
  \cup {[fn |-> "iso", in |-> e.in, len |-> 3, flags |-> f, ep |-> e, offsets |-> o] :
          e \in {IsoIn, IsoOut, BulkIn}, f \in {{}, {"ISO_ASAP"}}, o \in Offsets}

\* Every error of usbd_helper.c, one that it does not know, and none at all.
MCFailures ==
  Named \cup {"ENDPOINT_HALTED", "INTERNAL_HC_ERROR", "HUB_INTERNAL_ERROR",
              "DEV_NOT_RESPONDING", "ERROR_BUSY", "NO_BANDWIDTH", "ISOCH_REQUEST_FAILED",
              "unknown", "SUCCESS"}
MCSerial == <<8, 3, 65>>
=============================================================================
