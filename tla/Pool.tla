-------------------------------- MODULE Pool --------------------------------
(***************************************************************************)
(* The threads of the server daemon that carry the commands and answers of *)
(* the clients of one exported device: usbipdThreadpool.c,                 *)
(* usbipConsumerThread.c and the buffers of lib/usbip_forward.c.           *)
(*                                                                         *)
(* A connection has two devbufs, one for its socket and one for the stub,  *)
(* each with a list of buffers that hold one message: bufc, the first, is  *)
(* written to the other side while bufp, the last, is filled.  Three       *)
(* threads serve a connection: the reader fills the socket's bufp, the     *)
(* producer writes the stub's bufc to the socket, and the refresher drops  *)
(* a written bufc and appends a new bufp.  One consumer per device goes    *)
(* round the connections; it writes a connection's requests to the stub    *)
(* and reads answers for it.                                               *)
(*                                                                         *)
(* I/O is overlapped: its completion routine runs in the thread that       *)
(* started it, and only while that thread is in its alertable wait.  A     *)
(* turn of a thread's loop is one step, for everything it tests is written *)
(* by itself, or only ever changes in the direction that makes it loop     *)
(* again.  A byte stream is a sequence of units <<client, number, index>>; *)
(* HdrLen units make a header, one unit the payload, one the isochronous   *)
(* descriptors.                                                            *)
(***************************************************************************)
EXTENDS Integers, Sequences, FiniteSets, SequencesExt

CONSTANTS
  Conn,       \* connections, each to a client of its own
  NoConn,     \* no connection, the NULL SocketQueue
  HdrLen,     \* units of a header
  MaxNumber,  \* bound: the sequence numbers of a client
  CacheSize,  \* HDRS_CACHE_SIZE
  Scenarios   \* what the clients send and what may go wrong, see TypeOK

Kind == {"in", "out", "isoin", "isoout", "unlink"}
Side == {"sock", "dev"}
Faults == {"open", "work", "malloc", "close", "device", "interrupt", "together"}

ASSUME ConstantsAssumption ==
  /\ NoConn \notin Conn
  /\ HdrLen \in Nat \ {0} /\ MaxNumber \in Nat /\ CacheSize \in Nat \ {0}
  /\ \A s \in Scenarios : /\ s.kinds \in [Conn -> Seq(Kind)]
                          /\ \A c \in Conn : Len(s.kinds[c]) <= MaxNumber
                          /\ s.faults \subseteq Faults

VARIABLES
  scenario,                \* what happens in this behaviour
  producer, reader, refresher, consumer,   \* where the threads are
  at,                      \* the connection a consumer serves
  next,                    \* Next of a SocketQueue; of NoConn, FirstSocketContainer
  seen,                    \* whose Next a thread found to be NULL
  consumerThreadList,
  bufs,                    \* the buffers from bufc to bufp of a devbuf
  in_reading,              \* what the read in progress asks for, 0 when there is none
  in_writing, invalid,
  rev, wev,                \* hEventForReader and hEventForWriter
  hdrs_cache,              \* the entries: a sequence number and its direction
  interrupted,
  sent, wire, closed,      \* a client: commands sent, bytes under way, gone
  devq, todo, gone,        \* the stub: answers to read, commands at work, unplugged
  forwarded, answered,     \* history: messages written to the stub, to the socket
  kept,                    \* history: commands that hdrs_cache has been told of
  clash                    \* history: an entry has been needed by two commands

threads == <<producer, reader, refresher, consumer, at>>
lists == <<next, seen, consumerThreadList>>
devbuf == <<bufs, in_reading, in_writing, invalid>>
events == <<rev, wev>>
clients == <<sent, wire, closed>>
stub == <<devq, todo, gone>>
history == <<forwarded, answered>>
caches == <<hdrs_cache, kept, clash>>
vars == <<scenario, threads, lists, devbuf, events, caches, interrupted,
          clients, stub, history>>

Peer(s) == IF s = "sock" THEN "dev" ELSE "sock"

(***************************************************************************)
(* Messages.  A client numbers its own commands from one.                  *)
(***************************************************************************)
KindOf(c, n) == scenario.kinds[c][n]
DirectionOf(k) == IF k \in {"in", "isoin"} THEN "in" ELSE "out"

\* The payload a command or an answer carries on the wire.
PayloadLen(is_req, k) ==
  IF k = "unlink" \/ (DirectionOf(k) = "in") = is_req THEN 0 ELSE 1

\* number_of_packets descriptors
get_iso_len(k) == IF k \in {"isoin", "isoout"} THEN 1 ELSE 0

Message(c, n, is_req) ==
  [i \in 1 .. HdrLen + PayloadLen(is_req, KindOf(c, n)) + get_iso_len(KindOf(c, n))
     |-> <<c, n, i>>]

\* hdrs_cache_insert, for a command whose header is complete: it takes the entry of
\* its number, whoever has it.
Entry(n) == n % CacheSize
hdrs_cache_insert(hdr) ==
  LET k == KindOf(hdr[1], hdr[2])
  IN IF k = "unlink" THEN hdrs_cache
     ELSE [hdrs_cache EXCEPT ![Entry(hdr[2])] =
             [seqnum |-> hdr[2], direction |-> DirectionOf(k)]]

\* hdrs_cache_direction: where the entry is another number's, what the header of the
\* answer says; the stub has zeroed it (create_stub_res), which is OUT.
hdrs_cache_direction(hdr) ==
  LET e == hdrs_cache[Entry(hdr[2])]
  IN IF e.seqnum = hdr[2] THEN e.direction ELSE "out"

\* Mutant: an answer is taken to carry what its command carried.
Mutget_xfer_len(s, hdr) == PayloadLen(TRUE, KindOf(hdr[1], hdr[2]))

\* The payload that read_dev expects after a header: a command says it itself,
\* of an answer the direction kept for its sequence number decides.
get_xfer_len(s, hdr) ==
  LET k == KindOf(hdr[1], hdr[2])
  IN IF s = "sock" THEN PayloadLen(TRUE, k)
     ELSE IF k # "unlink" /\ hdrs_cache_direction(hdr) = "in" THEN 1 ELSE 0

Numbers == 1 .. MaxNumber      \* sequence numbers

NewBuffer == [step |-> 0, data |-> <<>>, off |-> 0]
bufp(c, s) == Last(bufs[<<c, s>>])
bufc(c, s) == Head(bufs[<<c, s>>])
WithBufp(c, s, b) == [bufs EXCEPT ![<<c, s>>][Len(bufs[<<c, s>>])] = b]

\* bufc is whole and not written yet.
Unwritten(b) == b.step = 3 /\ Len(b.data) > b.off

Unit == Conn \X Numbers \X (1 .. HdrLen + 2)
Buffer == [step : 0 .. 3, data : Seq(Unit), off : 0 .. HdrLen + 2]

TypeOK ==
  /\ scenario \in Scenarios
  /\ producer \in [Conn -> {"none", "lookup", "add", "link", "run", "wait", "ended"}]
  /\ reader \in [Conn -> {"none", "run", "wait", "ended"}]
  /\ refresher \in [Conn -> {"none", "run", "ended"}]
  /\ consumer \in [Conn -> {"none", "look", "add", "refused", "run", "wait"}]
  /\ at \in [Conn -> Conn \cup {NoConn}]
  /\ next \in [Conn \cup {NoConn} -> Conn \cup {NoConn}]
  /\ seen \in [Conn -> Conn \cup {NoConn}]
  /\ consumerThreadList \subseteq Conn
  /\ bufs \in [Conn \X Side -> Seq(Buffer) \ {<<>>}]
  /\ in_reading \in [Conn \X Side -> 0 .. HdrLen + 2]
  /\ in_writing \in [Conn \X Side -> BOOLEAN]
  /\ invalid \in [Conn \X Side -> BOOLEAN]
  /\ rev \in [Conn \X Side -> BOOLEAN] /\ wev \in [Conn \X Side -> BOOLEAN]
  /\ hdrs_cache \in [0 .. CacheSize - 1 ->
                      [seqnum : Numbers \cup {0}, direction : {"in", "out"}]]
  /\ interrupted \in BOOLEAN /\ gone \in BOOLEAN
  /\ sent \in [Conn -> Numbers \cup {0}] /\ closed \in [Conn -> BOOLEAN]
  /\ wire \in [Conn -> Seq(Unit)]
  /\ devq \in Seq(Seq(Unit)) /\ todo \subseteq Conn \X Numbers
  /\ forwarded \in [Conn -> Seq(Seq(Unit))]
  /\ answered \in [Conn -> Seq(Seq(Unit))]
  /\ kept \subseteq Conn \X Numbers /\ clash \in BOOLEAN

Init ==
  /\ scenario \in Scenarios
  /\ producer = [c \in Conn |-> "none"] /\ reader = [c \in Conn |-> "none"]
  /\ refresher = [c \in Conn |-> "none"] /\ consumer = [c \in Conn |-> "none"]
  /\ at = [c \in Conn |-> NoConn]
  /\ next = [x \in Conn \cup {NoConn} |-> NoConn]
  /\ seen = [c \in Conn |-> NoConn] /\ consumerThreadList = {}
  /\ bufs = [x \in Conn \X Side |-> <<NewBuffer>>]
  /\ in_reading = [x \in Conn \X Side |-> 0]
  /\ in_writing = [x \in Conn \X Side |-> FALSE]
  /\ invalid = [x \in Conn \X Side |-> FALSE]
  /\ rev = [x \in Conn \X Side |-> FALSE] /\ wev = [x \in Conn \X Side |-> FALSE]
  /\ hdrs_cache = [e \in 0 .. CacheSize - 1 |-> [seqnum |-> 0, direction |-> "out"]]
  /\ interrupted = FALSE
  /\ sent = [c \in Conn |-> 0] /\ wire = [c \in Conn |-> <<>>]
  /\ closed = [c \in Conn |-> FALSE]
  /\ devq = <<>> /\ todo = {} /\ gone = FALSE
  /\ forwarded = [c \in Conn |-> <<>>] /\ answered = [c \in Conn |-> <<>>]
  /\ kept = {} /\ clash = FALSE

(***************************************************************************)
(* ThreadForProduceRequest up to its loop.                                 *)
(***************************************************************************)

\* A connection is being set up.
Joining(c) == producer[c] \in {"lookup", "add", "link"} \/ consumer[c] \in {"look", "add"}

\* export_device submits the work of a connection whose client imports.
Export(c) ==
  /\ producer[c] = "none" /\ Len(scenario.kinds[c]) > 0 /\ ~interrupted
  /\ "together" \in scenario.faults \/ \A d \in Conn : ~Joining(d)
  /\ producer' = [producer EXCEPT ![c] = "lookup"]
  /\ UNCHANGED <<scenario, reader, refresher, consumer, at, lists, devbuf, events,
                 caches, interrupted, clients, stub, history>>

\* DeciveIsExist, or open_stub_dev
Lookup(c) ==
  /\ producer[c] = "lookup"
  /\ \/ producer' = [producer EXCEPT ![c] = "add"]
     \/ /\ next[NoConn] = NoConn /\ "open" \in scenario.faults
        /\ producer' = [producer EXCEPT ![c] = "ended"]
  /\ UNCHANGED <<scenario, reader, refresher, consumer, at, lists, devbuf, events,
                 caches, interrupted, clients, stub, history>>

\* The connections that a walk from FirstSocketContainer meets.
Listed ==
  {c \in Conn : \A S \in SUBSET Conn :
     (\A x \in S \cup {NoConn} : next[x] \in S \cup {NoConn}) => c \in S}

\* init_devbufStatic twice, then AddToArray finds the end of the list or is
\* out of memory.
AddToArray(c) ==
  /\ producer[c] = "add"
  /\ \/ /\ producer' = [producer EXCEPT ![c] = "link"]
        /\ \E x \in Listed \cup {NoConn} :
             next[x] = NoConn /\ seen' = [seen EXCEPT ![c] = x]
     \/ /\ "malloc" \in scenario.faults
        /\ producer' = [producer EXCEPT ![c] = "ended"]
        /\ UNCHANGED seen
  /\ UNCHANGED <<scenario, reader, refresher, consumer, at, next, consumerThreadList,
                 devbuf, events, caches, interrupted, clients, stub, history>>

\* AddToArray links the connection where it found the end; the refresher, the
\* consumer and the reader are submitted one after the other, n of them.
Link(c) ==
  /\ producer[c] = "link"
  /\ next' = [next EXCEPT ![seen[c]] = c]
  /\ \E n \in 0 .. 3 :
       /\ n = 3 \/ "work" \in scenario.faults
       /\ refresher' = [refresher EXCEPT ![c] = IF n >= 1 THEN "run" ELSE "none"]
       /\ consumer' = [consumer EXCEPT ![c] = IF n >= 2 THEN "look" ELSE "none"]
       /\ reader' = [reader EXCEPT ![c] = IF n = 3 THEN "run" ELSE "none"]
       /\ producer' = [producer EXCEPT ![c] = IF n = 3 THEN "run" ELSE "ended"]
  /\ UNCHANGED <<scenario, at, seen, consumerThreadList, devbuf, events, caches,
                 interrupted, clients, stub, history>>

(***************************************************************************)
(* read_dev and write_devbuf.                                              *)
(***************************************************************************)

\* Mutant: the descriptors of an isochronous transfer are not waited for.
MutExpected(s, b) ==
  IF Len(b.data) < HdrLen THEN HdrLen ELSE HdrLen + get_xfer_len(s, b.data[1])

\* How long a buffer must become before read_dev takes its next step.
Expected(s, b) ==
  IF Len(b.data) < HdrLen THEN HdrLen
  ELSE HdrLen + get_xfer_len(s, b.data[1])
              + get_iso_len(KindOf(b.data[1][1], b.data[1][2]))

\* read_dev: the buffer after it, and what it asks for when nothing is being
\* read (read_devbuf).
read_dev(s, b) ==
  [b EXCEPT !.step = IF Len(b.data) < HdrLen THEN 1
                     ELSE IF b.step = 3 THEN 3
                     ELSE IF Len(b.data) < Expected(s, b) THEN 2 ELSE 3]
Asks(s, b) == IF read_dev(s, b).step = 3 THEN 0 ELSE Expected(s, b) - Len(b.data)

\* write_devbuf starts a write to side w of a connection.
CanWrite(c, w) == Unwritten(bufc(c, Peer(w))) /\ ~in_writing[<<c, w>>]

\* write_completion moves offc by what was written.
Written(c, s) == [bufs EXCEPT ![<<c, s>>][1].off = Len(bufs[<<c, s>>][1].data)]

(***************************************************************************)
(* ThreadForReader.                                                        *)
(***************************************************************************)

\* The client is gone and all it sent has been read.
Drained(c) == closed[c] /\ wire[c] = <<>>

\* The client has not got the answer to command x yet.
Unanswered(x) ==
  \A c \in Conn : \A i \in 1 .. Len(answered[c]) : answered[c][i][1] # <<x[1], x[2], 1>>

\* Commands x and y need one entry of hdrs_cache for two numbers or two directions.
\* From then on an answer may be cut at the wrong place, and a piece of its payload be
\* taken for a header: nothing is claimed of such answers.
Clash(x, y) ==
  LET kx == KindOf(x[1], x[2])
      ky == KindOf(y[1], y[2])
  IN /\ kx # "unlink" /\ ky # "unlink"
     /\ Entry(x[2]) = Entry(y[2])
     /\ x[2] # y[2] \/ DirectionOf(kx) # DirectionOf(ky)

\* read_dev has the header of a command in b.  An entry is two stores, without a lock,
\* but only commands that clash can find one of them without the other.
Keeps(b) ==
  LET y == <<b.data[1][1], b.data[1][2]>>
  IN IF b.step \in {1, 2} /\ Len(b.data) >= HdrLen
       THEN /\ hdrs_cache' = hdrs_cache_insert(b.data[1])
            /\ kept' = kept \cup {y}
            /\ clash' = (clash \/ \E x \in kept : Unanswered(x) /\ Clash(x, y))
       ELSE UNCHANGED caches

\* A turn of the loop.  read_dev is called before invalid is looked at, and
\* ReadFileEx fails on a connection that the client has dropped.
ReaderTurn(c) ==
  LET b == bufp(c, "sock")
      asks == in_reading[<<c, "sock">>] = 0 /\ Asks("sock", b) > 0
  IN /\ reader[c] = "run"
     /\ \/ /\ interrupted
           /\ reader' = [reader EXCEPT ![c] = "ended"]
           /\ UNCHANGED <<bufs, in_reading, caches>>
        \/ /\ ~interrupted
           /\ reader' = [reader EXCEPT ![c] = IF invalid[<<c, "sock">>] THEN "ended" ELSE "wait"]
           /\ bufs' = WithBufp(c, "sock", read_dev("sock", b))
           /\ in_reading' = [in_reading EXCEPT ![<<c, "sock">>] =
                               IF asks THEN Asks("sock", b) ELSE @]
           /\ Keeps(b)
        \/ /\ ~interrupted /\ asks /\ Drained(c)
           /\ reader' = [reader EXCEPT ![c] = "ended"]
           /\ bufs' = WithBufp(c, "sock", read_dev("sock", b))
           /\ Keeps(b)
           /\ UNCHANGED in_reading
     /\ UNCHANGED <<scenario, producer, refresher, consumer, at, lists, in_writing,
                    invalid, events, interrupted, clients, stub, history>>

\* The wait is over because the event is set.
ReaderWake(c) ==
  /\ reader[c] = "wait" /\ rev[<<c, "sock">>]
  /\ reader' = [reader EXCEPT ![c] = "run"]
  /\ rev' = [rev EXCEPT ![<<c, "sock">>] = FALSE]
  /\ UNCHANGED <<scenario, producer, refresher, consumer, at, lists, devbuf, wev,
                 caches, interrupted, clients, stub, history>>

\* The wait is over because read_completion ran: n units arrived, or the
\* client is gone.
ReaderApc(c) ==
  /\ reader[c] = "wait" /\ in_reading[<<c, "sock">>] > 0
  /\ \/ \E n \in 1 .. in_reading[<<c, "sock">>] :
          /\ n <= Len(wire[c])
          /\ bufs' = WithBufp(c, "sock",
                       [bufp(c, "sock") EXCEPT !.data = @ \o SubSeq(wire[c], 1, n)])
          /\ wire' = [wire EXCEPT ![c] = SubSeq(@, n + 1, Len(@))]
          /\ UNCHANGED invalid
     \/ /\ Drained(c)
        /\ invalid' = [invalid EXCEPT ![<<c, "sock">>] = TRUE]
        /\ UNCHANGED <<bufs, wire>>
  /\ in_reading' = [in_reading EXCEPT ![<<c, "sock">>] = 0]
  /\ reader' = [reader EXCEPT ![c] = "run"]
  /\ rev' = [rev EXCEPT ![<<c, "sock">>] = FALSE]
  /\ wev' = [wev EXCEPT ![<<c, "dev">>] = TRUE]
  /\ UNCHANGED <<scenario, producer, refresher, consumer, at, lists, in_writing,
                 caches, interrupted, sent, closed, stub, history>>

(***************************************************************************)
(* The loop of ThreadForProduceRequest.                                    *)
(***************************************************************************)

\* A turn of the loop; WriteFileEx may fail once the client is gone.
ProducerTurn(c) ==
  /\ producer[c] = "run"
  /\ \/ /\ interrupted
        /\ producer' = [producer EXCEPT ![c] = "ended"]
        /\ UNCHANGED in_writing
     \/ /\ ~interrupted
        /\ producer' = [producer EXCEPT ![c] = "wait"]
        /\ in_writing' = [in_writing EXCEPT ![<<c, "sock">>] = @ \/ CanWrite(c, "sock")]
     \/ /\ ~interrupted /\ CanWrite(c, "sock") /\ closed[c]
        /\ producer' = [producer EXCEPT ![c] = "ended"]
        /\ UNCHANGED in_writing
  /\ UNCHANGED <<scenario, reader, refresher, consumer, at, lists, bufs, in_reading,
                 invalid, events, caches, interrupted, clients, stub, history>>

ProducerWake(c) ==
  /\ producer[c] = "wait" /\ wev[<<c, "sock">>]
  /\ producer' = [producer EXCEPT ![c] = "run"]
  /\ wev' = [wev EXCEPT ![<<c, "sock">>] = FALSE]
  /\ UNCHANGED <<scenario, reader, refresher, consumer, at, lists, devbuf, rev,
                 caches, interrupted, clients, stub, history>>

\* write_completion: the answer is through, or the client is gone.
ProducerApc(c) ==
  /\ producer[c] = "wait" /\ in_writing[<<c, "sock">>]
  /\ \/ /\ bufs' = Written(c, "dev")
        /\ answered' = [answered EXCEPT ![c] = Append(@, bufc(c, "dev").data)]
     \/ closed[c] /\ UNCHANGED <<bufs, answered>>
  /\ in_writing' = [in_writing EXCEPT ![<<c, "sock">>] = FALSE]
  /\ producer' = [producer EXCEPT ![c] = "run"]
  /\ wev' = [wev EXCEPT ![<<c, "sock">>] = FALSE]
  /\ UNCHANGED <<scenario, reader, refresher, consumer, at, lists, in_reading, invalid,
                 rev, caches, interrupted, clients, stub, forwarded>>

(***************************************************************************)
(* ThreadToRefreshBuffer: DealWithBufpAndBufc for both devbufs.            *)
(***************************************************************************)

\* bufc is written and the next buffer is whole.
CanDrop(c, s) ==
  /\ bufc(c, s).off = Len(bufc(c, s).data)
  /\ Len(bufs[<<c, s>>]) > 1 /\ bufs[<<c, s>>][2].step = 3

\* Mutant: nobody is told that there is another buffer to write.
MutDropWakes(c, s) == wev

\* The writer of the other side is told.
DropWakes(c, s) == [wev EXCEPT ![<<c, Peer(s)>>] = TRUE]

DropBufc(c, s) ==
  /\ refresher[c] = "run" /\ CanDrop(c, s)
  /\ bufs' = [bufs EXCEPT ![<<c, s>>] = Tail(@)]
  /\ wev' = DropWakes(c, s)
  /\ UNCHANGED <<scenario, threads, lists, in_reading, in_writing, invalid, rev,
                 caches, interrupted, clients, stub, history>>

NewBufp(c, s) ==
  /\ refresher[c] = "run" /\ bufp(c, s).step = 3
  /\ \/ /\ bufs' = [bufs EXCEPT ![<<c, s>>] = Append(@, NewBuffer)]
        /\ rev' = [rev EXCEPT ![<<c, s>>] = TRUE]
        /\ UNCHANGED refresher
     \/ /\ "malloc" \in scenario.faults
        /\ refresher' = [refresher EXCEPT ![c] = "ended"]
        /\ UNCHANGED <<bufs, rev>>
  /\ UNCHANGED <<scenario, producer, reader, consumer, at, lists, in_reading, in_writing,
                 invalid, wev, caches, interrupted, clients, stub, history>>

RefresherEnds(c) ==
  /\ refresher[c] = "run" /\ interrupted
  /\ refresher' = [refresher EXCEPT ![c] = "ended"]
  /\ UNCHANGED <<scenario, producer, reader, consumer, at, lists, devbuf, events,
                 caches, interrupted, clients, stub, history>>

(***************************************************************************)
(* ThreadForConsumerRequest.  A consumer goes by the connection that       *)
(* submitted it.  interrupted is a static of each file and this file's is  *)
(* never set: a consumer does not stop.                                    *)
(***************************************************************************)

\* AddNewConsumerThreadForDevice finds an entry of the device, or the end of
\* the list ...
ConsumerLook(k) ==
  /\ consumer[k] = "look"
  /\ consumer' = [consumer EXCEPT ![k] = IF consumerThreadList = {} THEN "add" ELSE "refused"]
  /\ UNCHANGED <<scenario, producer, reader, refresher, at, lists, devbuf, events,
                 caches, interrupted, clients, stub, history>>

\* ... where it puts its own.
ConsumerAdd(k) ==
  /\ consumer[k] = "add"
  /\ \/ /\ consumer' = [consumer EXCEPT ![k] = "run"]
        /\ consumerThreadList' = consumerThreadList \cup {k}
     \/ /\ "malloc" \in scenario.faults
        /\ consumer' = [consumer EXCEPT ![k] = "refused"]
        /\ UNCHANGED consumerThreadList
  /\ UNCHANGED <<scenario, producer, reader, refresher, at, next, seen, devbuf, events,
                 caches, interrupted, clients, stub, history>>

\* GetFirstOne
ConsumerFirst(k) ==
  /\ consumer[k] = "run" /\ at[k] = NoConn
  /\ at' = [at EXCEPT ![k] = next[NoConn]]
  /\ UNCHANGED <<scenario, producer, reader, refresher, consumer, lists, devbuf, events,
                 caches, interrupted, clients, stub, history>>

\* Mutant: a connection is left although an answer is being read for it.
MutLeaves(c, asked, writing) == ~Unwritten(bufc(c, "sock")) /\ ~writing

\* The consumer is through with a connection.
Leaves(c, asked, writing) ==
  ~Unwritten(bufc(c, "sock")) /\ asked = 0 /\ ~writing

\* A turn of the inner loop.  When the device is gone ReadFileEx and WriteFileEx
\* fail and the outer loop comes back to the same connection: nothing changes.
ConsumerTurn(k) ==
  LET c == at[k]
      write == CanWrite(c, "dev")
      writing == write \/ in_writing[<<c, "dev">>]
      b == bufp(c, "dev")
      read == writing \/ b.step \in {1, 2}
      starts == read /\ in_reading[<<c, "dev">>] = 0 /\ Asks("dev", b) > 0
      asked == IF starts THEN Asks("dev", b) ELSE in_reading[<<c, "dev">>]
  IN /\ consumer[k] = "run" /\ c # NoConn
     /\ ~(gone /\ (write \/ starts))
     /\ in_writing' = [in_writing EXCEPT ![<<c, "dev">>] = writing]
     /\ todo' = IF write THEN todo \cup {<<c, bufc(c, "sock").data[1][2]>>} ELSE todo
     /\ bufs' = IF read THEN WithBufp(c, "dev", read_dev("dev", b)) ELSE bufs
     /\ in_reading' = [in_reading EXCEPT ![<<c, "dev">>] = asked]
     /\ at' = [at EXCEPT ![k] = IF Leaves(c, asked, writing) THEN next[c] ELSE @]
     /\ consumer' = [consumer EXCEPT ![k] =
                       IF /\ ~Leaves(c, asked, writing)
                          /\ asked > 0 /\ (writing \/ ~Unwritten(bufc(c, "sock")))
                       THEN "wait" ELSE "run"]
     /\ UNCHANGED <<scenario, producer, reader, refresher, lists, invalid, events,
                    caches, interrupted, clients, devq, gone, history>>

\* The consumer's wait for the two events of the connection is over.
ConsumerGoesOn(k) ==
  /\ consumer[k] = "wait"
  /\ consumer' = [consumer EXCEPT ![k] = "run"]
  /\ rev' = [rev EXCEPT ![<<at[k], "dev">>] = FALSE]

ConsumerWake(k) ==
  /\ ConsumerGoesOn(k)
  /\ rev[<<at[k], "dev">>] \/ wev[<<at[k], "dev">>]
  /\ wev' = [wev EXCEPT ![<<at[k], "dev">>] = FALSE]
  /\ UNCHANGED <<scenario, producer, reader, refresher, at, lists, devbuf, caches,
                 interrupted, clients, stub, history>>

\* read_completion: the stub delivers what is left of one answer, at most what
\* was asked for, or says that the device is gone.
ConsumerReadApc(k) ==
  LET c == at[k]
      asked == in_reading[<<c, "dev">>]
      Gets(data) == WithBufp(c, "dev", [bufp(c, "dev") EXCEPT !.data = @ \o data])
  IN /\ ConsumerGoesOn(k)
     /\ asked > 0
     /\ \/ /\ devq # <<>> /\ ~gone
           /\ \/ /\ Len(Head(devq)) <= asked
                 /\ bufs' = Gets(Head(devq))
                 /\ devq' = Tail(devq)
              \/ /\ Len(Head(devq)) > asked
                 /\ bufs' = Gets(SubSeq(Head(devq), 1, asked))
                 /\ devq' = [devq EXCEPT ![1] = SubSeq(@, asked + 1, Len(@))]
           /\ UNCHANGED invalid
        \/ /\ gone
           /\ invalid' = [invalid EXCEPT ![<<c, "dev">>] = TRUE]
           /\ UNCHANGED <<bufs, devq>>
     /\ in_reading' = [in_reading EXCEPT ![<<c, "dev">>] = 0]
     /\ wev' = [wev EXCEPT ![<<c, "dev">>] = FALSE, ![<<c, "sock">>] = TRUE]
     /\ UNCHANGED <<scenario, producer, reader, refresher, at, lists, in_writing,
                    caches, interrupted, clients, todo, gone, history>>

ConsumerWriteApc(k) ==
  LET c == at[k]
  IN /\ ConsumerGoesOn(k)
     /\ in_writing[<<c, "dev">>]
     /\ in_writing' = [in_writing EXCEPT ![<<c, "dev">>] = FALSE]
     /\ \/ /\ bufs' = Written(c, "sock")
           /\ forwarded' = [forwarded EXCEPT ![c] = Append(@, bufc(c, "sock").data)]
        \/ gone /\ UNCHANGED <<bufs, forwarded>>
     /\ wev' = [wev EXCEPT ![<<c, "dev">>] = FALSE]
     /\ UNCHANGED <<scenario, producer, reader, refresher, at, lists, in_reading, invalid,
                    caches, interrupted, clients, stub, answered>>

(***************************************************************************)
(* The clients, the stub (both external) and CTRL-C.                       *)
(***************************************************************************)

ClientSend(c) ==
  /\ producer[c] # "none" /\ ~closed[c] /\ sent[c] < Len(scenario.kinds[c])
  /\ sent' = [sent EXCEPT ![c] = @ + 1]
  /\ wire' = [wire EXCEPT ![c] = @ \o Message(c, sent[c] + 1, TRUE)]
  /\ UNCHANGED <<scenario, threads, lists, devbuf, events, caches, interrupted,
                 closed, stub, history>>

ClientClose(c) ==
  /\ "close" \in scenario.faults /\ producer[c] # "none" /\ ~closed[c]
  /\ closed' = [closed EXCEPT ![c] = TRUE]
  /\ UNCHANGED <<scenario, threads, lists, devbuf, events, caches, interrupted,
                 sent, wire, stub, history>>

\* The stub has the answer of a command; all connections share its queue.
StubAnswer ==
  \E x \in todo :
    /\ ~gone
    /\ todo' = todo \ {x}
    /\ devq' = Append(devq, Message(x[1], x[2], FALSE))
    /\ UNCHANGED <<scenario, threads, lists, devbuf, events, caches, interrupted,
                   clients, gone, history>>

DeviceGone ==
  /\ "device" \in scenario.faults /\ ~gone
  /\ gone' = TRUE
  /\ UNCHANGED <<scenario, threads, lists, devbuf, events, caches, interrupted,
                 clients, devq, todo, history>>

\* Mutant: the handler wakes only the readers.
MutHandlerWakes(e, s) == IF s = "reader" THEN [x \in Conn \X Side |-> e[x] \/ x[2] = "sock"] ELSE e

\* signalhandlerPool sets both events of the sockets in the list.
HandlerWakes(e, s) ==
  [x \in Conn \X Side |-> e[x] \/ (x[2] = "sock" /\ x[1] \in Listed)]

signalhandlerPool ==
  /\ "interrupt" \in scenario.faults /\ ~interrupted
  /\ interrupted' = TRUE
  /\ rev' = HandlerWakes(rev, "reader")
  /\ wev' = HandlerWakes(wev, "writer")
  /\ UNCHANGED <<scenario, threads, lists, devbuf, caches, clients, stub, history>>

Join(c) == Export(c) \/ Lookup(c) \/ AddToArray(c) \/ Link(c)
ReaderThread(c) == ReaderTurn(c) \/ ReaderWake(c) \/ ReaderApc(c)
ProducerThread(c) == ProducerTurn(c) \/ ProducerWake(c) \/ ProducerApc(c)
RefresherThread(c) ==
  (\E s \in Side : DropBufc(c, s) \/ NewBufp(c, s)) \/ RefresherEnds(c)
ConsumerThread(k) ==
  \/ ConsumerLook(k) \/ ConsumerAdd(k) \/ ConsumerFirst(k) \/ ConsumerTurn(k)
  \/ ConsumerWake(k) \/ ConsumerReadApc(k) \/ ConsumerWriteApc(k)
Environment ==
  \/ \E c \in Conn : ClientSend(c) \/ ClientClose(c)
  \/ StubAnswer \/ DeviceGone \/ signalhandlerPool

Next ==
  \/ \E c \in Conn : Join(c) \/ ReaderThread(c) \/ ProducerThread(c) \/ RefresherThread(c)
  \/ \E k \in Conn : ConsumerThread(k)
  \/ Environment

Spec == Init /\ [][Next]_vars

\* Threads run, and I/O that can complete does.  Clients may stay silent and
\* the stub need not answer.
Fairness ==
  \A c \in Conn :
    /\ WF_vars(Lookup(c) \/ AddToArray(c) \/ Link(c))
    /\ WF_vars(ReaderThread(c)) /\ WF_vars(ProducerThread(c))
    /\ WF_vars(RefresherThread(c)) /\ WF_vars(ConsumerThread(c))

FairSpec == Spec /\ Fairness

(***************************************************************************)
(* Properties.                                                             *)
(***************************************************************************)

\* What a connection has written to the stub is what its client sent, command
\* for command, each whole, once and in order, however the socket cut the
\* bytes and the threads exchanged the buffers.
CommandsInOrder ==
  \A c \in Conn : \A i \in 1 .. Len(forwarded[c]) :
    i <= sent[c] /\ forwarded[c][i] = Message(c, i, TRUE)

\* Every answer written to a socket is one whole answer of the stub, and no answer is
\* written twice, on whatever connections: until two commands whose answers are still
\* to be sent clash in hdrs_cache, which the code does nothing to prevent.  Every client
\* numbers from one, so those of two clients may clash at any time, those of one when
\* it has more than CacheSize of them under way.  Connections are set up one after the
\* other.
AnswersWhole ==
  ~clash =>
    /\ \A c \in Conn : \A i \in 1 .. Len(answered[c]) :
         \E d \in Conn : \E n \in 1 .. sent[d] : answered[c][i] = Message(d, n, FALSE)
    /\ \A c, d \in Conn : \A i \in 1 .. Len(answered[c]), j \in 1 .. Len(answered[d]) :
         answered[c][i] = answered[d][j] => c = d /\ i = j

\* One connection at a time reads from the stub: an answer whose header one
\* connection has read is not finished by another.
OneReader ==
  \A c, d \in Conn :
    (c # d /\ (in_reading[<<c, "dev">>] > 0 \/ bufp(c, "dev").step \in {1, 2}))
      => in_reading[<<d, "dev">>] = 0 /\ bufp(d, "dev").step \in {0, 3}

\* usbip_forward.c, of hdrs_cache: "Cache info is used when RET_SUBMIT packets
\* with the same sequence number arrive": a whole answer has the payload that
\* the direction of its command calls for.
DirectionRestored ==
  \A c \in Conn : \A i \in 1 .. Len(bufs[<<c, "dev">>]) :
    LET b == bufs[<<c, "dev">>][i]
    IN b.step = 3 => b.data = Message(b.data[1][1], b.data[1][2], FALSE)

\* The answers read whole for a connection and not written yet.
Waiting(c) ==
  {i \in 1 .. Len(bufs[<<c, "dev">>]) : Unwritten(bufs[<<c, "dev">>][i])}

\* All commands of a client reach the stub, while its connection is the
\* device's only one and nothing fails, however fast it sends them and
\* whether or not the stub answers.
CommandsForwarded ==
  (/\ scenario.faults = {}
   /\ Cardinality({c \in Conn : scenario.kinds[c] # <<>>}) = 1
   /\ \A c \in Conn : sent[c] = Len(scenario.kinds[c]))
    ~> \A c \in Conn : Len(forwarded[c]) = sent[c]

\* Once two answers have been read for a connection, the client gets them
\* when nothing fails.  (The first alone may stay behind: the event that
\* announces it is set before the consumer marks it whole.)
AnswersSent ==
  (scenario.faults = {} /\ \E c \in Conn : Len(answered[c]) + Cardinality(Waiting(c)) = 2)
    ~> \E c \in Conn : Len(answered[c]) = 2

\* After CTRL-C the reader and the producer of every connection end, wherever
\* they were waiting.
InterruptStops ==
  interrupted ~> \A c \in Conn : /\ reader[c] \in {"none", "ended"}
                                 /\ producer[c] \in {"none", "ended"}
=============================================================================
