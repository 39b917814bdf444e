--------------------------- MODULE SessionProofs ---------------------------
(***************************************************************************)
(* Proofs about the sessions of Session, for any number of clients, any    *)
(* listening sockets and any faults but the loss of a client during the    *)
(* server's reply.                                                         *)
(***************************************************************************)
EXTENDS Session, FiniteSetTheorems, TLAPS

\* What the main loop does for the client c.
Phase(c) ==
  IF serving = c /\ server \notin {"select", "accept", "close"} THEN server ELSE "none"

\* The server has not taken the request of c yet.
Fresh(c) == handle[c] = 0 \/ Phase(c) = "recv_op"

\* What is on a stream: one message, two messages.
One(s, t) == Len(s) = 1 /\ s[1][1] = t
Two(s, t1, t2) == Len(s) = 2 /\ s[1][1] = t1 /\ s[2][1] = t2

Tag == {"attach", "list", "busid", "cmd", "ok", "nodev", "na", "udev", "junk", "ndev",
        "ret", "data", "err"}
Argument ==
  Nat \cup {FetchSeq(k) : k \in Nat} \cup {DriverSeq(n) : n \in Nat}
Message == Tag \X Argument

AttacherStep == {"none", "read_hdev", "read_sock", "forward", "shutdown", "exit"}

Types ==
  /\ scenario \in Scenarios
  /\ tool \in [Client -> ToolStep]
  /\ DOMAIN count = Client
  /\ attacher \in [Client -> AttacherStep]
  /\ sock \in [Client -> SUBSET {"tool", "attacher"}]
  /\ backlog \in [Listener -> Seq(Client)]
  /\ server \in ServerStep /\ ready \subseteq Listener
  /\ serving \in Client \cup {NoClient}
  /\ table \in [Handle -> Client \cup {NoClient}]
  /\ handle \in [Client -> Handle \cup {0}]
  /\ thread \in [Client -> {"none", "open", "serve", "ended"}]
  /\ shut \in [Client -> BOOLEAN] /\ broken \in [Client -> BOOLEAN]
  /\ up \in [Client -> Seq(Message)] /\ down \in [Client -> Seq(Message)]
  /\ used \in [Client -> Seq(Argument)]

\* Nobody loses a client while the server replies to it.
NoVanish == "vanish" \notin scenario.faults

\* A connection waits for its accept once, at one listener.
Accepts ==
  /\ \A l \in ready : backlog[l] # <<>>
  /\ \A l \in Listener : \A i \in 1 .. Len(backlog[l]) :
       handle[backlog[l][i]] = 0 /\ tool[backlog[l][i]] # "start"
  /\ \A l, m \in Listener : \A i \in 1 .. Len(backlog[l]), j \in 1 .. Len(backlog[m]) :
       backlog[l][i] = backlog[m][j] => l = m /\ i = j
  /\ \A c \in Client : tool[c] = "start" => handle[c] = 0

\* A handle belongs to the connection that accept gave it to, until it is closed.
Handles ==
  /\ \A h \in Handle : table[h] # NoClient => handle[table[h]] = h
  /\ server \notin {"select", "accept"} =>
       serving \in Client /\ handle[serving] # 0 /\ table[handle[serving]] = serving
  /\ \A c \in Client : thread[c] # "none" => handle[c] # 0
  /\ server = "close" => thread[serving] \notin {"open", "serve"}
  /\ OwnSocket

\* Who uses the client's end of a connection.
Users(c) ==
  /\ tool[c] \notin {"start", "exit"} => "tool" \in sock[c]
  /\ broken[c] => up[c] = <<>> /\ down[c] = <<>>
  /\ tool[c] \in {"rep_list", "ndev", "devs"} => scenario.op[c] = "list"
  /\ tool[c] = "op" => scenario.op[c] \in {"attach", "list"}
  /\ tool[c] \notin {"start", "op", "rep_list", "ndev", "devs", "exit"} =>
       scenario.op[c] = "attach"
  /\ thread[c] # "none" => scenario.op[c] = "attach"
  /\ attacher[c] # "none" =>
       tool[c] \in {"dup_hdev", "dup_sock", "write_hdev", "write_sock", "close", "exit"}

\* The request of c, until the server has taken it.
Requested(c) ==
  /\ Fresh(c) =>
       /\ tool[c] \in {"start", "op", "import", "rep_op", "rep_list", "exit"}
       /\ tool[c] \in {"start", "op"} => up[c] = <<>>
       /\ tool[c] \in {"import", "rep_op", "rep_list"} => broken[c] \/ up[c] # <<>>
       /\ up[c] # <<>> => /\ tool[c] = "import" => One(up[c], "attach")
                          /\ tool[c] = "rep_op" => Two(up[c], "attach", "busid")
                          /\ tool[c] = "rep_list" => One(up[c], "list")
                          /\ tool[c] = "exit" => One(up[c], scenario.op[c])
  /\ Phase(c) = "recv_import" =>
       /\ scenario.op[c] = "attach" /\ tool[c] \in {"import", "rep_op", "exit"}
       /\ tool[c] \in {"import", "exit"} => up[c] = <<>>
       /\ tool[c] = "rep_op" => broken[c] \/ Len(up[c]) = 1
  /\ Fresh(c) \/ Phase(c) \in {"recv_import", "export", "reply_list"} =>
       thread[c] = "none" /\ down[c] = <<>> /\ ~shut[c] /\ attacher[c] = "none"
  /\ tool[c] = "op" => Fresh(c) \/ broken[c]
  /\ tool[c] = "import" => Fresh(c) \/ Phase(c) = "recv_import" \/ broken[c]

\* While the server replies to an import the client is there, and waits.
Replied(c) ==
  /\ Phase(c) \in {"export", "reply_op", "reply_udev"} =>
       ~broken[c] /\ ~shut[c] /\ up[c] = <<>> /\ tool[c] \in {"rep_op", "rep_udev"}
  /\ Phase(c) \in {"export", "reply_op"} => tool[c] = "rep_op" /\ down[c] = <<>>
  /\ Phase(c) = "reply_udev" => \/ tool[c] = "rep_op" /\ One(down[c], "ok")
                                \/ tool[c] = "rep_udev" /\ down[c] = <<>>
  /\ Phase(c) = "reply_list" => tool[c] \in {"rep_list", "exit"}

\* What is on its way to the tool.
Answered(c) ==
  /\ tool[c] = "rep_op" /\ down[c] # <<>> =>
       \/ One(down[c], "nodev") \/ One(down[c], "na")
       \/ One(down[c], "ok") /\ Phase(c) = "reply_udev"
       \/ Two(down[c], "ok", "udev") \/ Two(down[c], "ok", "junk")
  /\ tool[c] = "rep_udev" /\ down[c] # <<>> => One(down[c], "udev") \/ One(down[c], "junk")
  /\ tool[c] = "rep_op" => up[c] = <<>> \/ Fresh(c) \/ Phase(c) = "recv_import"
  /\ tool[c] \in {"rep_udev", "fetch", "data"} => up[c] = <<>>
  /\ tool[c] = "fetch" => down[c] = <<>>
  /\ tool[c] = "ret" =>
       \/ up[c] = <<>>
       \/ down[c] = <<>> /\ Len(up[c]) = 1
  /\ tool[c] = "ret" /\ down[c] # <<>> => Two(down[c], "ret", "data") \/ One(down[c], "err")
  /\ tool[c] = "data" /\ down[c] # <<>> => One(down[c], "data")
  /\ tool[c] = "rep_list" /\ down[c] # <<>> =>
       /\ Len(down[c]) >= 2 /\ down[c][1][1] = "list" /\ down[c][2][1] = "ndev"
       /\ \A i \in 3 .. Len(down[c]) : down[c][i][1] = "udev"
  /\ tool[c] = "ndev" /\ down[c] # <<>> =>
       down[c][1][1] = "ndev" /\ \A i \in 2 .. Len(down[c]) : down[c][i][1] = "udev"
  /\ tool[c] = "devs" => \A i \in 1 .. Len(down[c]) : down[c][i][1] = "udev"

\* What is on its way to or from the attacher.
DriverSeqs == {DriverSeq(n) : n \in 1 .. MaxCmds}
Driven(c) ==
  /\ \A i \in 1 .. Len(up[c]) : up[c][i][2] \in DriverSeqs
  /\ \A i \in 1 .. Len(down[c]) : down[c][i][2] \in DriverSeqs
Commanded(c) ==
  /\ tool[c] \in {"start", "op", "import", "rep_op", "rep_udev"} =>
       count[c] = 0 /\ used[c] = <<>>
  /\ tool[c] \in {"fetch", "ret", "data"} =>
       /\ count[c] \in 0 .. 3
       /\ Len(used[c]) = IF tool[c] = "fetch" THEN count[c] ELSE count[c] + 1
  /\ attacher[c] # "none" \/ tool[c] \in {"plugin", "process", "dup_hdev", "dup_sock",
                                          "write_hdev", "write_sock", "close"} =>
       Driven(c) /\ Len(used[c]) >= 4

Connection(c) == Users(c) /\ Requested(c) /\ Replied(c) /\ Answered(c) /\ Commanded(c)
SessionInv == Types /\ NoVanish /\ Accepts /\ Handles /\ \A c \in Client : Connection(c)
-----------------------------------------------------------------------------
(* Sequences, and what the operations on the streams do.                    *)

LEMMA TailFacts ==
  ASSUME NEW S, NEW s \in Seq(S), s # <<>>
  PROVE  /\ Len(s) \in Nat /\ Len(s) > 0 /\ Head(s) = s[1] /\ s[1] \in S
         /\ Tail(s) \in Seq(S) /\ Len(Tail(s)) = Len(s) - 1
         /\ \A i \in 1 .. (Len(s) - 1) : Tail(s)[i] = s[i + 1]
  OBVIOUS

LEMMA AppendFacts ==
  ASSUME NEW S, NEW s \in Seq(S), NEW m \in S
  PROVE  /\ Append(s, m) \in Seq(S) /\ Append(s, m) # <<>>
         /\ Len(Append(s, m)) = Len(s) + 1 /\ Append(s, m)[Len(s) + 1] = m
         /\ \A i \in 1 .. Len(s) : Append(s, m)[i] = s[i]
  OBVIOUS

LEMMA ConcatFacts ==
  ASSUME NEW S, NEW s \in Seq(S), NEW t \in Seq(S)
  PROVE  /\ s \o t \in Seq(S) /\ Len(s \o t) = Len(s) + Len(t)
         /\ \A i \in 1 .. Len(s) : (s \o t)[i] = s[i]
         /\ \A i \in 1 .. Len(t) : (s \o t)[Len(s) + i] = t[i]
  OBVIOUS

LEMMA LenFacts ==
  ASSUME NEW S, NEW s \in Seq(S)
  PROVE  Len(s) \in Nat /\ (s = <<>> <=> Len(s) = 0) /\ \A i \in 1 .. Len(s) : s[i] \in S
  OBVIOUS

Streams == [Client -> Seq(Message)]

\* t is s and then m.
Longer(t, s, m) ==
  /\ t # <<>> /\ Len(t) = Len(s) + 1 /\ t[Len(s) + 1] = m
  /\ \A i \in 1 .. Len(s) : t[i] = s[i]

\* t is s without its first message.
Shorter(t, s) ==
  /\ Len(s) \in Nat /\ Len(s) > 0 /\ Len(t) = Len(s) - 1
  /\ (t = <<>> <=> Len(t) = 0)
  /\ \A i \in 1 .. (Len(s) - 1) : t[i] = s[i + 1]

LEMMA TailShorter ==
  ASSUME NEW S, NEW s \in Seq(S), s # <<>>
  PROVE  Shorter(Tail(s), s)
<1>1. Tail(s) \in Seq(S)
  BY TailFacts
<1>2. Tail(s) = <<>> <=> Len(Tail(s)) = 0
  BY <1>1, LenFacts
<1> QED  BY <1>2, TailFacts DEF Shorter

LEMMA UpEffect ==
  ASSUME Types, NEW c \in Client, NEW m \in Message, Up(c, m)
  PROVE  /\ up' \in Streams
         /\ \A d \in Client \ {c} : up'[d] = up[d]
         /\ broken[c] => up'[c] = up[c]
         /\ ~broken[c] => Longer(up'[c], up[c], m)
<1>1. up[c] \in Seq(Message)
  BY DEF Types
<1>2. up' \in Streams /\ \A d \in Client \ {c} : up'[d] = up[d]
  BY <1>1, AppendFacts DEF Up, Types, Streams
<1>3. up'[c] = IF broken[c] THEN up[c] ELSE Append(up[c], m)
  BY DEF Up, Types
<1> QED  BY <1>1, <1>2, <1>3, AppendFacts DEF Longer

LEMMA TakenEffect ==
  ASSUME Types, NEW c \in Client, down[c] # <<>>, Taken(c)
  PROVE  /\ down' \in Streams
         /\ \A d \in Client \ {c} : down'[d] = down[d]
         /\ Head(down[c]) = down[c][1] /\ down[c][1] \in Message
         /\ Shorter(down'[c], down[c])
<1>1. down[c] \in Seq(Message)
  BY DEF Types
<1>2. down' \in Streams /\ \A d \in Client \ {c} : down'[d] = down[d]
  BY <1>1, TailFacts DEF Taken, Types, Streams
<1>3. down'[c] = Tail(down[c])
  BY DEF Taken, Types
<1>4. Shorter(Tail(down[c]), down[c])
  BY <1>1, TailShorter
<1> QED  BY <1>1, <1>2, <1>3, <1>4, TailFacts

LEMMA TakenUpEffect ==
  ASSUME Types, NEW c \in Client, up[c] # <<>>, up' = [up EXCEPT ![c] = Tail(@)]
  PROVE  /\ up' \in Streams
         /\ \A d \in Client \ {c} : up'[d] = up[d]
         /\ Head(up[c]) = up[c][1] /\ up[c][1] \in Message
         /\ Shorter(up'[c], up[c])
<1>1. up[c] \in Seq(Message)
  BY DEF Types
<1>2. up' \in Streams /\ \A d \in Client \ {c} : up'[d] = up[d]
  BY <1>1, TailFacts DEF Types, Streams
<1>3. up'[c] = Tail(up[c])
  BY DEF Types
<1>4. Shorter(Tail(up[c]), up[c])
  BY <1>1, TailShorter
<1> QED  BY <1>1, <1>2, <1>3, <1>4, TailFacts

LEMMA DownEffect ==
  ASSUME Types, NEW c \in Client, NEW ms \in Seq(Message), Down(c, ms)
  PROVE  /\ down' \in Streams
         /\ \A d \in Client \ {c} : down'[d] = down[d]
         /\ ClientGone(c) => down'[c] = down[c]
         /\ ~ClientGone(c) =>
              /\ Len(down'[c]) = Len(down[c]) + Len(ms)
              /\ \A i \in 1 .. Len(down[c]) : down'[c][i] = down[c][i]
              /\ \A i \in 1 .. Len(ms) : down'[c][Len(down[c]) + i] = ms[i]
<1>1. down[c] \in Seq(Message)
  BY DEF Types
<1>2. down' = [down EXCEPT ![c] = IF ClientGone(c) THEN down[c] ELSE down[c] \o ms]
  BY DEF Down, Types
<1>3. down' \in Streams /\ \A d \in Client \ {c} : down'[d] = down[d]
  BY <1>1, <1>2, ConcatFacts DEF Types, Streams
<1>4. down'[c] = IF ClientGone(c) THEN down[c] ELSE down[c] \o ms
  BY <1>2 DEF Types
<1> QED  BY <1>1, <1>3, <1>4, ConcatFacts

LEMMA MessageFacts ==
  /\ \A t \in Tag : <<t, 0>> \in Message
  /\ \A k \in Nat : <<"cmd", FetchSeq(k)>> \in Message /\ FetchSeq(k) \in Argument
  /\ \A n \in Nat : <<"cmd", DriverSeq(n)>> \in Message /\ DriverSeq(n) \in Argument
  BY DEF Message, Tag, Argument

-----------------------------------------------------------------------------
(* How a step is put together.                                              *)

\* A step leaves what belongs to the client d as it is.
Same(d) ==
  /\ tool'[d] = tool[d] /\ count'[d] = count[d] /\ attacher'[d] = attacher[d]
  /\ sock'[d] = sock[d] /\ handle'[d] = handle[d] /\ thread'[d] = thread[d]
  /\ up'[d] = up[d] /\ down'[d] = down[d] /\ used'[d] = used[d]
  /\ shut'[d] = shut[d] /\ broken'[d] = broken[d] /\ Phase(d)' = Phase(d)

LEMMA Frame ==
  ASSUME scenario' = scenario, NEW d \in Client, Connection(d), Same(d)
  PROVE  Connection(d)'
<1>1. Fresh(d)' = Fresh(d)
  BY DEF Same, Fresh
<1>2. Users(d)'
  BY DEF Same, Connection, Users
<1>3. Requested(d)'
  BY <1>1 DEF Same, Connection, Requested, One, Two
<1>4. Replied(d)'
  BY DEF Same, Connection, Replied, One
<1>5. Answered(d)'
  BY SMTT(30), <1>1 DEF Same, Connection, Answered, One, Two
<1>6. Commanded(d)'
  BY DEF Same, Connection, Commanded, Driven
<1> QED  BY <1>2, <1>3, <1>4, <1>5, <1>6 DEF Connection

LEMMA Assemble ==
  ASSUME SessionInv, scenario' = scenario, Types', Accepts', Handles',
         NEW c \in Client, Connection(c)', \A d \in Client \ {c} : Same(d)
  PROVE  SessionInv'
<1>1. \A d \in Client : Connection(d)'
  BY Frame DEF SessionInv
<1> QED  BY <1>1 DEF SessionInv, NoVanish

\* A step of the tool or the attacher of c that sends or receives or does not.
Moves(c) ==
  /\ UNCHANGED <<scenario, loop, thread, shut, broken>>
  /\ tool' \in [Client -> ToolStep] /\ tool'[c] # "start"
  /\ DOMAIN count' = Client
  /\ attacher' \in [Client -> AttacherStep]
  /\ sock' \in [Client -> SUBSET {"tool", "attacher"}]
  /\ up' \in Streams /\ down' \in Streams
  /\ used' \in [Client -> Seq(Argument)]
  /\ \A d \in Client \ {c} :
       /\ tool'[d] = tool[d] /\ count'[d] = count[d] /\ attacher'[d] = attacher[d]
       /\ sock'[d] = sock[d] /\ up'[d] = up[d] /\ down'[d] = down[d]
       /\ used'[d] = used[d]

LEMMA ClientStep ==
  ASSUME SessionInv, NEW c \in Client, Moves(c), Connection(c)'
  PROVE  SessionInv'
<1>1. Types'
  BY DEF SessionInv, Types, Moves, loop, Streams
<1>2. \A d \in Client : tool'[d] = "start" => tool[d] = "start"
  BY DEF Moves
<1>3. Accepts'
  <2>1. \A d \in Client : tool[d] # "start" => tool'[d] # "start"
    BY <1>2
  <2>2. \A l \in Listener : \A i \in 1 .. Len(backlog[l]) : backlog[l][i] \in Client
    BY LenFacts DEF SessionInv, Types
  <2>3. \A l \in Listener : \A i \in 1 .. Len(backlog[l]) :
          tool'[backlog[l][i]] # "start"
    BY <2>1, <2>2 DEF SessionInv, Accepts
  <2>4. \A d \in Client : tool'[d] = "start" => handle[d] = 0
    BY <1>2 DEF SessionInv, Accepts
  <2>5. /\ backlog' = backlog /\ handle' = handle /\ ready' = ready
    BY DEF Moves, loop
  <2> QED  BY <2>3, <2>4, <2>5 DEF SessionInv, Accepts
<1>4. Handles'
  BY DEF SessionInv, Handles, OwnSocket, Moves, loop
<1>5. \A d \in Client \ {c} : Same(d)
  BY DEF Moves, Same, Phase, loop
<1> QED  BY <1>1, <1>3, <1>4, <1>5, Assemble DEF Moves

\* The tool of c ends.
LEMMA LeaveStep ==
  ASSUME SessionInv, NEW c \in Client, Leave(c),
         UNCHANGED <<scenario, loop, thread, shut, broken, attacher, up, used>>,
         down' = down \/ (down[c] # <<>> /\ Taken(c)),
         count' = count \/ \E k : count' = [count EXCEPT ![c] = k],
         tool[c] \in {"rep_op", "rep_udev"} =>
           broken[c] \/ (~Fresh(c) /\ Phase(c) \notin {"recv_import", "export", "reply_op",
                                                      "reply_udev"})
  PROVE  SessionInv'
<1> USE DEF SessionInv
<1>1. Types /\ Connection(c)
  OBVIOUS
<1>2. /\ tool' \in [Client -> ToolStep] /\ tool'[c] = "exit"
      /\ sock' \in [Client -> SUBSET {"tool", "attacher"}]
      /\ \A d \in Client \ {c} : tool'[d] = tool[d] /\ sock'[d] = sock[d]
  BY <1>1 DEF Leave, Release, Types, ToolStep
<1>3. /\ down' \in Streams /\ \A d \in Client \ {c} : down'[d] = down[d]
      /\ down'[c] = down[c] \/ (Shorter(down'[c], down[c]) /\ down[c] # <<>>)
  BY <1>1, TakenEffect DEF Types, Streams
<1>4. DOMAIN count' = Client /\ \A d \in Client \ {c} : count'[d] = count[d]
  BY <1>1 DEF Types
<1>5. Moves(c)
  BY <1>1, <1>2, <1>3, <1>4 DEF Moves, Types, Streams
<1>6. Phase(c)' = Phase(c) /\ Fresh(c)' = Fresh(c)
  BY DEF Phase, Fresh, loop
<1>7. Users(c)'
  <2>1. broken[c] => down'[c] = <<>>
    BY <1>1, <1>3 DEF Connection, Users
  <2> QED  BY <1>1, <1>2, <2>1 DEF Connection, Users
<1>8. Requested(c)'
  <2>1. Fresh(c) \/ Phase(c) \in {"recv_import", "export", "reply_list"} => down'[c] = <<>>
    BY <1>1, <1>3 DEF Connection, Requested
  <2>2. Fresh(c) /\ up[c] # <<>> => One(up[c], scenario.op[c])
    BY <1>1 DEF Connection, Requested, Users
  <2>3. Phase(c) = "recv_import" => up[c] = <<>>
    BY <1>1 DEF Connection, Requested, Users
  <2> QED  BY <1>1, <1>2, <1>6, <2>1, <2>2, <2>3 DEF Connection, Requested, One
<1>9. Replied(c)'
  BY <1>1, <1>2, <1>6 DEF Connection, Replied
<1>10. Answered(c)'
  BY <1>2 DEF Answered
<1>11. Commanded(c)'
  <2>1. Driven(c) => Driven(c)'
    BY SMTT(30), <1>3 DEF Driven, Shorter
  <2> QED  BY <1>1, <1>2, <2>1 DEF Connection, Commanded
<1> QED  BY <1>5, <1>7, <1>8, <1>9, <1>10, <1>11, ClientStep DEF Connection
-----------------------------------------------------------------------------
(* The tool.                                                                *)

LEMMA GotoEffect ==
  ASSUME Types, NEW c \in Client, NEW step \in ToolStep, Goto(c, step)
  PROVE  /\ tool' \in [Client -> ToolStep] /\ tool'[c] = step
         /\ \A d \in Client \ {c} : tool'[d] = tool[d]
         /\ sock' = sock
  BY DEF Goto, Types

\* Scenarios hold what ConstantsAssumption says.
LEMMA ScenarioFacts ==
  ASSUME Types, NEW c \in Client
  PROVE  /\ scenario.op[c] \in {"attach", "list", "detach", "none"}
         /\ scenario.to[c] \in Listener
  BY ConstantsAssumption DEF Types, Op, Listener

LEMMA ConnectStep ==
  ASSUME SessionInv, NEW c \in Client, Connect(c)
  PROVE  SessionInv'
<1>1. Types /\ Accepts /\ Handles /\ Connection(c) /\ tool[c] = "start"
  BY DEF SessionInv, Connect
<1>2. CASE Leave(c) /\ UNCHANGED backlog
  <2>1. UNCHANGED <<scenario, loop, thread, shut, broken, attacher, up, used, down, count>>
    BY <1>2 DEF Connect, loop, net
  <2> QED  BY <1>1, <1>2, <2>1, LeaveStep DEF loop
<1>3. CASE ~(Leave(c) /\ UNCHANGED backlog)
  <2> DEFINE l == scenario.to[c]
  <2>1. /\ tool' = [tool EXCEPT ![c] = "op"] /\ sock' = [sock EXCEPT ![c] = {"tool"}]
        /\ backlog' = [backlog EXCEPT ![l] = Append(@, c)]
        /\ UNCHANGED <<scenario, count, attacher, server, ready, serving, table, handle,
                       thread, up, down, shut, broken, used>>
        /\ scenario.op[c] \in {"attach", "list"}
    BY <1>3 DEF Connect, net
  <2>2. l \in Listener /\ backlog[l] \in Seq(Client)
    BY <1>1, ScenarioFacts DEF Types
  <2>3. /\ Append(backlog[l], c) \in Seq(Client) /\ Append(backlog[l], c) # <<>>
        /\ Len(Append(backlog[l], c)) = Len(backlog[l]) + 1
        /\ Append(backlog[l], c)[Len(backlog[l]) + 1] = c
        /\ \A i \in 1 .. Len(backlog[l]) : Append(backlog[l], c)[i] = backlog[l][i]
        /\ Len(backlog[l]) \in Nat
    BY <2>2, AppendFacts, LenFacts
  <2>4. /\ backlog' \in [Listener -> Seq(Client)]
        /\ backlog'[l] = Append(backlog[l], c)
        /\ \A m \in Listener \ {l} : backlog'[m] = backlog[m]
    BY <1>1, <2>1, <2>2, <2>3 DEF Types
  <2>5. /\ tool' \in [Client -> ToolStep] /\ tool'[c] = "op"
        /\ \A d \in Client \ {c} : tool'[d] = tool[d]
        /\ sock' \in [Client -> SUBSET {"tool", "attacher"}] /\ sock'[c] = {"tool"}
        /\ \A d \in Client \ {c} : sock'[d] = sock[d]
    BY <1>1, <2>1 DEF Types, ToolStep
  <2>6. Types'
    BY <1>1, <2>1, <2>4, <2>5 DEF Types
  <2>7. Accepts'
    <3>1. \A m \in ready : backlog'[m] # <<>>
      BY <1>1, <2>3, <2>4 DEF Accepts, Types
    <3>2. \A m \in Listener : \A i \in 1 .. Len(backlog[m]) :
            backlog[m][i] \in Client /\ backlog[m][i] # c
      BY SMTT(30), <1>1, LenFacts DEF Accepts, Types
    <3>3. \A m \in Listener : \A i \in 1 .. Len(backlog'[m]) :
            \/ i \in 1 .. Len(backlog[m]) /\ backlog'[m][i] = backlog[m][i]
            \/ m = l /\ i = Len(backlog[l]) + 1 /\ backlog'[m][i] = c
      BY SMTT(30), <2>3, <2>4
    <3>4. \A m \in Listener : \A i \in 1 .. Len(backlog'[m]) :
            handle[backlog'[m][i]] = 0 /\ tool'[backlog'[m][i]] # "start"
      BY <1>1, <2>5, <3>2, <3>3 DEF Accepts
    <3>5. \A m, n \in Listener :
            \A i \in 1 .. Len(backlog'[m]), j \in 1 .. Len(backlog'[n]) :
              backlog'[m][i] = backlog'[n][j] => m = n /\ i = j
      BY SMTT(30), <1>1, <3>2, <3>3 DEF Accepts
    <3>6. \A d \in Client : tool'[d] = "start" => handle[d] = 0
      BY <1>1, <2>5 DEF Accepts
    <3> QED  BY SMTT(30), <2>1, <3>1, <3>4, <3>5, <3>6 DEF Accepts
  <2>8. Handles'
    BY <1>1, <2>1 DEF Handles, OwnSocket
  <2>9. Phase(c)' = Phase(c) /\ Fresh(c)' = Fresh(c) /\ Fresh(c)
    BY <1>1, <2>1 DEF Phase, Fresh, Accepts
  <2>10. Connection(c)'
    <3>1. Users(c)'
      BY <1>1, <2>1, <2>5 DEF Connection, Users
    <3>2. Requested(c)'
      BY <1>1, <2>1, <2>5, <2>9 DEF Connection, Requested
    <3>3. Replied(c)'
      BY <1>1, <2>1, <2>5, <2>9 DEF Connection, Requested, Replied
    <3>4. Answered(c)'
      BY <2>5 DEF Answered
    <3>5. Commanded(c)'
      BY <1>1, <2>1, <2>5 DEF Connection, Commanded, Users
    <3> QED  BY <3>1, <3>2, <3>3, <3>4, <3>5 DEF Connection
  <2>11. \A d \in Client \ {c} : Same(d)
    BY <2>1, <2>5 DEF Same, Phase
  <2> QED  BY <2>1, <2>6, <2>7, <2>8, <2>10, <2>11, Assemble
<1> QED  BY <1>2, <1>3

LEMMA SendRequestStep ==
  ASSUME SessionInv, NEW c \in Client, SendRequest(c)
  PROVE  SessionInv'
<1>1. Types /\ Accepts /\ Handles /\ Connection(c) /\ tool[c] \in {"op", "import"}
  BY DEF SessionInv, SendRequest
<1>2. CASE Leave(c) /\ UNCHANGED up
  BY <1>1, <1>2, LeaveStep DEF SendRequest
<1>3. CASE ~(Leave(c) /\ UNCHANGED up)
  <2> DEFINE t == IF tool[c] = "op" THEN scenario.op[c] ELSE "busid"
             step == IF scenario.op[c] = "list" THEN "rep_list"
                     ELSE IF tool[c] = "op" THEN "import" ELSE "rep_op"
  <2>1. /\ Up(c, <<t, 0>>) /\ Goto(c, step)
        /\ UNCHANGED <<scenario, count, attacher, loop, thread, down, shut, broken, used>>
    BY <1>3 DEF SendRequest
  <2>2. /\ tool[c] = "op" => scenario.op[c] \in {"attach", "list"}
        /\ tool[c] = "import" => scenario.op[c] = "attach"
    BY <1>1 DEF Connection, Users
  <2>3. <<t, 0>> \in Message /\ step \in ToolStep
    BY <1>1, <2>2, MessageFacts DEF Tag, ToolStep
  <2> HIDE DEF step
  <2>4. /\ tool' \in [Client -> ToolStep] /\ tool'[c] = step
        /\ \A d \in Client \ {c} : tool'[d] = tool[d]
        /\ sock' = sock
    BY <1>1, <2>1, <2>3, GotoEffect
  <2>5. /\ up' \in Streams /\ \A d \in Client \ {c} : up'[d] = up[d]
        /\ broken[c] => up'[c] = up[c]
        /\ ~broken[c] => Longer(up'[c], up[c], <<t, 0>>)
    BY <1>1, <2>1, <2>3, UpEffect
  <2>6. /\ tool[c] = "op" /\ scenario.op[c] = "attach" => step = "import"
        /\ tool[c] = "op" /\ scenario.op[c] = "list" => step = "rep_list"
        /\ tool[c] = "import" => step = "rep_op"
    BY <2>2 DEF step
  <2>7. Moves(c)
    BY <1>1, <2>1, <2>2, <2>4, <2>5, <2>6 DEF Moves, Types, Streams
  <2>8. Phase(c)' = Phase(c) /\ Fresh(c)' = Fresh(c)
    BY <2>1 DEF Phase, Fresh, loop
  <2>9. Users(c)'
    BY <1>1, <2>1, <2>2, <2>4, <2>5, <2>6 DEF Connection, Users
  <2>10. /\ up[c] = <<>> \/ One(up[c], "attach")
         /\ ~broken[c] /\ Fresh(c) => tool[c] = "op" <=> up[c] = <<>>
         /\ Phase(c) = "recv_import" /\ tool[c] = "import" => up[c] = <<>>
         /\ Fresh(c) \/ broken[c] \/ (Phase(c) = "recv_import" /\ tool[c] = "import")
         /\ broken[c] => up[c] = <<>>
    BY <1>1, <2>2 DEF Connection, Users, Requested
  <2>11. /\ up[c] = <<>> /\ ~broken[c] => One(up'[c], t)
         /\ One(up[c], "attach") /\ ~broken[c] /\ tool[c] = "import" =>
              Two(up'[c], "attach", "busid")
         /\ broken[c] => up'[c] = <<>>
         /\ ~broken[c] => up'[c] # <<>>
    <3>1. CASE broken[c]
      BY <2>5, <2>10, <3>1
    <3>2. CASE ~broken[c] /\ up[c] = <<>>
      <4>1. Len(up[c]) = 0 /\ ~One(up[c], "attach")
        BY <3>2 DEF One
      <4> QED  BY <2>5, <3>2, <4>1 DEF Longer, One
    <3>3. CASE ~broken[c] /\ up[c] # <<>>
      <4>1. One(up[c], "attach") /\ Longer(up'[c], up[c], <<t, 0>>)
        BY <2>5, <2>10, <3>3
      <4>2. up'[c] # <<>> /\ (tool[c] = "import" => Two(up'[c], "attach", "busid"))
        BY <4>1 DEF Longer, One, Two
      <4> QED  BY <3>3, <4>2
    <3> QED  BY <3>1, <3>2, <3>3
  <2>12. Requested(c)'
    <3>1. CASE tool[c] = "op"
      BY <1>1, <2>1, <2>2, <2>4, <2>6, <2>8, <2>10, <2>11, <3>1
      DEF Connection, Requested, One, Users
    <3>2. CASE tool[c] = "import"
      BY <1>1, <2>1, <2>2, <2>4, <2>6, <2>8, <2>10, <2>11, <3>2
      DEF Connection, Requested, One
    <3> QED  BY <1>1, <3>1, <3>2
  <2>13. Replied(c)'
    BY <1>1, <2>2, <2>4, <2>6, <2>8 DEF Connection, Replied
  <2>14. Answered(c)'
    <3>1. down[c] = <<>>
      BY <1>1, <2>10 DEF Connection, Requested, Users
    <3> QED  BY <1>1, <2>1, <2>2, <2>4, <2>6, <2>8, <2>10, <2>11, <3>1 DEF Answered
  <2>15. Commanded(c)'
    <3>1. attacher[c] = "none"
      BY <1>1 DEF Connection, Users
    <3> QED  BY <1>1, <2>1, <2>2, <2>4, <2>6, <3>1 DEF Connection, Commanded
  <2> QED  BY <2>7, <2>9, <2>12, <2>13, <2>14, <2>15, ClientStep DEF Connection
<1> QED  BY <1>2, <1>3

LEMMA RecvReplyStep ==
  ASSUME SessionInv, NEW c \in Client, RecvReply(c)
  PROVE  SessionInv'
<1>1. Types /\ Accepts /\ Handles /\ Connection(c) /\ tool[c] \in {"rep_op", "rep_udev"}
  BY DEF SessionInv, RecvReply
<1>2. CASE Leave(c)
  <2>1. \/ down[c] # <<>> /\ Taken(c) /\ Head(down[c])[1] \in {"nodev", "na", "junk"}
        \/ (broken[c] \/ shut[c]) /\ UNCHANGED down
        \/ tool'[c] # "exit"
    BY <1>1, <1>2, GotoEffect DEF RecvReply, Ended, ServerGone, ToolStep
  <2>2. tool'[c] = "exit"
    BY <1>1, <1>2 DEF Leave, Types
  <2>3. down' = down \/ (down[c] # <<>> /\ Taken(c))
    BY <2>1, <2>2
  <2>4. ASSUME down[c] # <<>>, down[c][1][1] \in {"nodev", "na", "junk"}
        PROVE  /\ ~Fresh(c)
               /\ Phase(c) \notin {"recv_import", "export", "reply_op", "reply_udev"}
    BY <1>1, <2>4 DEF Connection, Requested, Replied, One
  <2>5. ASSUME shut[c]
        PROVE  /\ ~Fresh(c)
               /\ Phase(c) \notin {"recv_import", "export", "reply_op", "reply_udev"}
    BY <1>1, <2>5 DEF Connection, Requested, Replied
  <2>6. down[c] # <<>> => Head(down[c]) = down[c][1]
    BY <1>1, TailFacts DEF Types
  <2>7. UNCHANGED <<scenario, loop, thread, shut, broken, attacher, up, used, count>>
    BY DEF RecvReply
  <2>8. \/ broken[c]
        \/ /\ ~Fresh(c)
           /\ Phase(c) \notin {"recv_import", "export", "reply_op", "reply_udev"}
    BY <2>1, <2>2, <2>4, <2>5, <2>6
  <2> QED  BY <1>2, <2>3, <2>7, <2>8, LeaveStep
<1>3. CASE ~Leave(c)
  <2>1. /\ down[c] # <<>> /\ Taken(c)
        /\ \/ Head(down[c])[1] = "ok" /\ Goto(c, "rep_udev")
           \/ Head(down[c])[1] \in {"udev", "junk"} /\ Goto(c, "fetch")
        /\ UNCHANGED <<scenario, count, attacher, loop, thread, up, shut, broken, used>>
    BY <1>3 DEF RecvReply
  <2>2. /\ down' \in Streams /\ \A d \in Client \ {c} : down'[d] = down[d]
        /\ Head(down[c]) = down[c][1] /\ Shorter(down'[c], down[c])
    BY <1>1, <2>1, TakenEffect
  <2>3. /\ tool' \in [Client -> ToolStep] /\ sock' = sock
        /\ \/ tool'[c] = "rep_udev" /\ down[c][1][1] = "ok"
           \/ tool'[c] = "fetch" /\ down[c][1][1] \in {"udev", "junk"}
        /\ \A d \in Client \ {c} : tool'[d] = tool[d]
    BY <1>1, <2>1, <2>2, GotoEffect DEF ToolStep
  <2>4. Moves(c)
    BY <1>1, <2>1, <2>2, <2>3 DEF Moves, Types, Streams
  <2>5. Phase(c)' = Phase(c) /\ Fresh(c)' = Fresh(c)
    BY <2>1 DEF Phase, Fresh, loop
  <2>6. /\ ~Fresh(c) /\ Phase(c) \notin {"recv_import", "export", "reply_op", "reply_list"}
        /\ ~broken[c] /\ up[c] = <<>> /\ attacher[c] = "none"
        /\ scenario.op[c] = "attach" /\ "tool" \in sock[c]
        /\ count[c] = 0 /\ used[c] = <<>>
    BY <1>1, <2>1 DEF Connection, Users, Requested, Replied, Answered, Commanded
  <2>7. \/ /\ tool[c] = "rep_op" /\ tool'[c] = "rep_udev"
           /\ \/ One(down[c], "ok") /\ Phase(c) = "reply_udev"
              \/ Two(down[c], "ok", "udev") \/ Two(down[c], "ok", "junk")
        \/ /\ tool[c] = "rep_udev" /\ tool'[c] = "fetch" /\ Phase(c) # "reply_udev"
           /\ One(down[c], "udev") \/ One(down[c], "junk")
    <3>1. CASE tool[c] = "rep_op"
      BY <1>1, <2>1, <2>3, <3>1 DEF Connection, Answered, One, Two
    <3>2. CASE tool[c] = "rep_udev"
      BY <1>1, <2>1, <2>3, <3>2 DEF Connection, Answered, Replied, One
    <3> QED  BY <1>1, <3>1, <3>2
  <2>8. /\ \A t \in Tag : One(down[c], t) => down'[c] = <<>>
        /\ \A t \in Tag : Two(down[c], "ok", t) => One(down'[c], t)
    BY <2>2 DEF Shorter, One, Two
  <2>9. \/ /\ tool'[c] = "rep_udev"
           /\ \/ down'[c] = <<>> /\ Phase(c) = "reply_udev"
              \/ One(down'[c], "udev") \/ One(down'[c], "junk")
        \/ tool'[c] = "fetch" /\ Phase(c) # "reply_udev" /\ down'[c] = <<>>
    BY <2>7, <2>8 DEF Tag
  <2>10. Phase(c) = "reply_udev" => tool'[c] = "rep_udev" /\ down'[c] = <<>>
    BY <1>1, <2>7, <2>8 DEF Connection, Replied, One, Two, Tag
  <2>11. Users(c)'
    BY <1>1, <2>1, <2>3, <2>6, <2>9 DEF Connection, Users
  <2>12. Requested(c)'
    BY <2>5, <2>6, <2>9 DEF Requested
  <2>13. Replied(c)'
    BY <1>1, <2>1, <2>5, <2>6, <2>9, <2>10 DEF Connection, Replied
  <2>14. Answered(c)'
    BY <2>1, <2>6, <2>9 DEF Answered
  <2>15. Commanded(c)'
    BY <2>1, <2>6, <2>9 DEF Commanded
  <2> QED  BY <2>4, <2>11, <2>12, <2>13, <2>14, <2>15, ClientStep DEF Connection
<1> QED  BY <1>2, <1>3

LEMMA SendFetchStep ==
  ASSUME SessionInv, NEW c \in Client, SendFetch(c)
  PROVE  SessionInv'
<1>1. Types /\ Accepts /\ Handles /\ Connection(c) /\ tool[c] = "fetch"
  BY DEF SessionInv, SendFetch
<1>2. CASE Leave(c) /\ UNCHANGED <<up, used>>
  BY <1>1, <1>2, LeaveStep DEF SendFetch
<1>3. CASE ~(Leave(c) /\ UNCHANGED <<up, used>>)
  <2>1. /\ Up(c, <<"cmd", FetchSeq(count[c])>>) /\ Goto(c, "ret")
        /\ used' = [used EXCEPT ![c] = Append(@, FetchSeq(count[c]))]
        /\ UNCHANGED <<scenario, count, attacher, loop, thread, down, shut, broken>>
    BY <1>3 DEF SendFetch
  <2>2. /\ count[c] \in Nat /\ count[c] \in 0 .. 3 /\ Len(used[c]) = count[c]
        /\ up[c] = <<>> /\ down[c] = <<>> /\ attacher[c] = "none"
    BY <1>1 DEF Connection, Commanded, Answered, Users
  <2>3. /\ FetchSeq(count[c]) \in Argument
        /\ <<"cmd", FetchSeq(count[c])>> \in Message
    BY <2>2, MessageFacts
  <2>4. /\ tool' \in [Client -> ToolStep] /\ tool'[c] = "ret" /\ sock' = sock
        /\ \A d \in Client \ {c} : tool'[d] = tool[d]
    BY <1>1, <2>1, GotoEffect DEF ToolStep
  <2>5. /\ up' \in Streams /\ \A d \in Client \ {c} : up'[d] = up[d]
        /\ up'[c] = <<>> \/ Len(up'[c]) = 1
        /\ broken[c] => up'[c] = <<>>
    <3>1. /\ up' \in Streams /\ \A d \in Client \ {c} : up'[d] = up[d]
          /\ broken[c] => up'[c] = up[c]
          /\ ~broken[c] => Longer(up'[c], up[c], <<"cmd", FetchSeq(count[c])>>)
      BY <1>1, <2>1, <2>3, UpEffect
    <3>2. Len(up[c]) = 0
      BY <2>2
    <3> QED  BY <2>2, <3>1, <3>2 DEF Longer
  <2>6. /\ used' \in [Client -> Seq(Argument)] /\ Len(used'[c]) = count[c] + 1
        /\ \A d \in Client \ {c} : used'[d] = used[d]
    <3>1. used[c] \in Seq(Argument)
      BY <1>1 DEF Types
    <3>2. /\ Append(used[c], FetchSeq(count[c])) \in Seq(Argument)
          /\ Len(Append(used[c], FetchSeq(count[c]))) = count[c] + 1
      BY <2>2, <2>3, <3>1, AppendFacts
    <3> HIDE DEF FetchSeq
    <3> QED  BY <1>1, <2>1, <3>2 DEF Types
  <2>7. Moves(c)
    BY <1>1, <2>1, <2>4, <2>5, <2>6 DEF Moves, Types, Streams
  <2>8. Phase(c)' = Phase(c) /\ Fresh(c)' = Fresh(c)
    BY <2>1 DEF Phase, Fresh, loop
  <2>9. Users(c)'
    BY <1>1, <2>1, <2>4, <2>5 DEF Connection, Users
  <2>10. Requested(c)'
    BY <1>1, <2>1, <2>4, <2>8 DEF Connection, Requested
  <2>11. Replied(c)'
    BY <1>1, <2>4, <2>8 DEF Connection, Replied
  <2>12. Answered(c)'
    BY <2>1, <2>2, <2>4, <2>5 DEF Answered
  <2>13. Commanded(c)'
    BY <2>1, <2>2, <2>4, <2>6 DEF Commanded
  <2> QED  BY <2>7, <2>9, <2>10, <2>11, <2>12, <2>13, ClientStep DEF Connection
<1> QED  BY <1>2, <1>3

LEMMA RecvRetStep ==
  ASSUME SessionInv, NEW c \in Client, RecvRet(c)
  PROVE  SessionInv'
<1>1. Types /\ Accepts /\ Handles /\ Connection(c) /\ tool[c] = "ret"
  BY DEF SessionInv, RecvRet
<1>2. CASE Leave(c) /\ UNCHANGED count /\ (down' = down \/ (down[c] # <<>> /\ Taken(c)))
  BY <1>1, <1>2, LeaveStep DEF RecvRet
<1>3. CASE ~(Leave(c) /\ UNCHANGED count /\ (down' = down \/ (down[c] # <<>> /\ Taken(c))))
  <2>1. /\ down[c] # <<>> /\ Taken(c) /\ Head(down[c])[1] # "err" /\ Goto(c, "data")
        /\ count' = [count EXCEPT ![c] = count[c]]
        /\ UNCHANGED <<scenario, attacher, loop, thread, up, shut, broken, used>>
    BY <1>1, <1>3 DEF RecvRet, AfterRet
  <2>2. /\ down' \in Streams /\ \A d \in Client \ {c} : down'[d] = down[d]
        /\ Head(down[c]) = down[c][1] /\ Shorter(down'[c], down[c])
    BY <1>1, <2>1, TakenEffect
  <2>3. /\ tool' \in [Client -> ToolStep] /\ tool'[c] = "data" /\ sock' = sock
        /\ \A d \in Client \ {c} : tool'[d] = tool[d]
    BY <1>1, <2>1, GotoEffect DEF ToolStep
  <2>4. DOMAIN count' = Client /\ \A d \in Client : count'[d] = count[d]
    BY <1>1, <2>1 DEF Types
  <2>5. Two(down[c], "ret", "data")
    BY <1>1, <2>1, <2>2 DEF Connection, Answered, One
  <2>6. One(down'[c], "data") /\ up[c] = <<>> /\ ~broken[c]
    BY <1>1, <2>1, <2>2, <2>5 DEF Two, One, Shorter, Connection, Answered, Users
  <2>7. Moves(c)
    BY <1>1, <2>1, <2>2, <2>3, <2>4 DEF Moves, Types, Streams
  <2>8. Phase(c)' = Phase(c) /\ Fresh(c)' = Fresh(c)
    BY <2>1 DEF Phase, Fresh, loop
  <2>9. Users(c)'
    BY <1>1, <2>1, <2>3, <2>6 DEF Connection, Users
  <2>10. Requested(c)'
    <3>1. ~Fresh(c) /\ Phase(c) \notin {"recv_import", "export", "reply_list"}
      BY <1>1, <2>1 DEF Connection, Requested
    <3> QED  BY <2>3, <2>8, <3>1 DEF Requested
  <2>11. Replied(c)'
    BY <1>1, <2>3, <2>8 DEF Connection, Replied
  <2>12. Answered(c)'
    BY <2>1, <2>3, <2>6 DEF Answered
  <2>13. Commanded(c)'
    BY <1>1, <2>1, <2>3, <2>4 DEF Connection, Commanded, Users
  <2> QED  BY <2>7, <2>9, <2>10, <2>11, <2>12, <2>13, ClientStep DEF Connection
<1> QED  BY <1>2, <1>3

LEMMA RecvDataStep ==
  ASSUME SessionInv, NEW c \in Client, RecvData(c)
  PROVE  SessionInv'
<1>1. Types /\ Accepts /\ Handles /\ Connection(c) /\ tool[c] = "data"
  BY DEF SessionInv, RecvData
<1>2. CASE Leave(c) /\ UNCHANGED <<down, count>>
  BY <1>1, <1>2, LeaveStep DEF RecvData
<1>3. CASE ~(Leave(c) /\ UNCHANGED <<down, count>>)
  <2> DEFINE step == IF count[c] = 3 THEN "plugin" ELSE "fetch"
  <2>1. /\ down[c] # <<>> /\ Taken(c) /\ Goto(c, step)
        /\ count' = [count EXCEPT ![c] = @ + 1]
        /\ UNCHANGED <<scenario, attacher, loop, thread, up, shut, broken, used>>
    BY <1>1, <1>3 DEF RecvData
  <2>2. /\ down' \in Streams /\ \A d \in Client \ {c} : down'[d] = down[d]
        /\ Head(down[c]) = down[c][1] /\ Shorter(down'[c], down[c])
    BY <1>1, <2>1, TakenEffect
  <2>3. step \in ToolStep /\ step \in {"plugin", "fetch"}
    BY DEF ToolStep
  <2>4. /\ tool' \in [Client -> ToolStep] /\ tool'[c] = step /\ sock' = sock
        /\ \A d \in Client \ {c} : tool'[d] = tool[d]
    BY <1>1, <2>1, <2>3, GotoEffect
  <2>5. /\ DOMAIN count' = Client /\ count'[c] = count[c] + 1
        /\ \A d \in Client \ {c} : count'[d] = count[d]
    BY <1>1, <2>1 DEF Types
  <2>6. down'[c] = <<>> /\ up[c] = <<>> /\ ~broken[c]
    BY <1>1, <2>1, <2>2 DEF One, Shorter, Connection, Answered, Users
  <2>7. Moves(c)
    BY <1>1, <2>1, <2>2, <2>3, <2>4, <2>5 DEF Moves, Types, Streams
  <2>8. Phase(c)' = Phase(c) /\ Fresh(c)' = Fresh(c)
    BY <2>1 DEF Phase, Fresh, loop
  <2>9. Users(c)'
    BY <1>1, <2>1, <2>3, <2>4, <2>6 DEF Connection, Users
  <2>10. Requested(c)'
    <3>1. ~Fresh(c) /\ Phase(c) \notin {"recv_import", "export", "reply_list"}
      BY <1>1, <2>1 DEF Connection, Requested
    <3> QED  BY <2>3, <2>4, <2>8, <3>1 DEF Requested
  <2>11. Replied(c)'
    BY <1>1, <2>4, <2>8 DEF Connection, Replied
  <2>12. Answered(c)'
    BY <2>1, <2>3, <2>4, <2>6 DEF Answered
  <2>13. Commanded(c)'
    <3>1. count[c] \in 0 .. 3 /\ Len(used[c]) = count[c] + 1 /\ attacher[c] = "none"
      BY <1>1 DEF Connection, Commanded, Users
    <3>2. CASE count[c] = 3
      BY <2>1, <2>4, <2>5, <2>6, <3>1, <3>2 DEF Commanded, Driven
    <3>3. CASE count[c] # 3
      BY <2>1, <2>4, <2>5, <2>6, <3>1, <3>3 DEF Commanded
    <3> QED  BY <3>2, <3>3
  <2> QED  BY <2>7, <2>9, <2>10, <2>11, <2>12, <2>13, ClientStep DEF Connection
<1> QED  BY <1>2, <1>3

\* From here on the tool hands its connection over to the attacher.
HandOver == {"plugin", "process", "dup_hdev", "dup_sock", "write_hdev", "write_sock",
             "close"}

LEMMA HandOverStep ==
  ASSUME SessionInv, NEW c \in Client, tool[c] \in HandOver,
         NEW step \in HandOver, tool' = [tool EXCEPT ![c] = step],
         UNCHANGED <<scenario, count, loop, thread, net, used>>,
         \/ /\ attacher' = attacher /\ sock' = sock
            /\ attacher[c] = "none" \/ step \notin {"plugin", "process"}
         \/ /\ attacher' = [attacher EXCEPT ![c] = "read_hdev"] /\ step = "dup_hdev"
            /\ sock' = [sock EXCEPT ![c] = @ \cup {"attacher"}]
  PROVE  SessionInv'
<1>1. Types /\ Connection(c)
  BY DEF SessionInv
<1>2. /\ tool' \in [Client -> ToolStep] /\ tool'[c] = step
      /\ \A d \in Client \ {c} : tool'[d] = tool[d]
  BY <1>1 DEF Types, HandOver, ToolStep
<1>3. /\ attacher' \in [Client -> AttacherStep]
      /\ \A d \in Client \ {c} : attacher'[d] = attacher[d]
      /\ attacher'[c] # "none" => attacher[c] # "none" \/ step = "dup_hdev"
  <2>1. CASE attacher' = attacher
    BY <1>1, <2>1 DEF Types
  <2>2. CASE attacher' = [attacher EXCEPT ![c] = "read_hdev"] /\ step = "dup_hdev"
    <3>1. "read_hdev" \in AttacherStep
      BY DEF AttacherStep
    <3> QED  BY <1>1, <2>2, <3>1 DEF Types
  <2> QED  BY <2>1, <2>2
<1>4. /\ sock' \in [Client -> SUBSET {"tool", "attacher"}]
      /\ "tool" \in sock[c] => "tool" \in sock'[c]
      /\ \A d \in Client \ {c} : sock'[d] = sock[d]
  <2>1. CASE sock' = sock
    BY <1>1, <2>1 DEF Types
  <2>2. CASE sock' = [sock EXCEPT ![c] = @ \cup {"attacher"}]
    <3>1. sock[c] \cup {"attacher"} \in SUBSET {"tool", "attacher"}
      BY <1>1 DEF Types
    <3> QED  BY <1>1, <2>2, <3>1 DEF Types
  <2> QED  BY <2>1, <2>2
<1>5. Moves(c)
  BY <1>1, <1>2, <1>3, <1>4 DEF Moves, Types, Streams, HandOver, net
<1>6. Phase(c)' = Phase(c) /\ Fresh(c)' = Fresh(c)
  BY DEF Phase, Fresh, loop
<1>7. up' = up /\ down' = down /\ shut' = shut /\ broken' = broken
  BY DEF net
<1>8. attacher'[c] # "none" => step \notin {"plugin", "process"}
  BY <1>1, <1>3 DEF Types
<1>9. Users(c)'
  BY <1>1, <1>2, <1>4, <1>7, <1>8 DEF Connection, Users, HandOver
<1>10. Requested(c)'
  <2>1. ~Fresh(c) /\ Phase(c) # "recv_import"
    BY <1>1 DEF Connection, Requested, HandOver
  <2>2. Phase(c) \notin {"export", "reply_list"}
    BY <1>1 DEF Connection, Replied, HandOver
  <2> QED  BY <1>2, <1>6, <2>1, <2>2 DEF Requested, HandOver
<1>11. Replied(c)'
  BY <1>1, <1>2, <1>6 DEF Connection, Replied, HandOver
<1>12. Answered(c)'
  BY <1>2 DEF Answered, HandOver
<1>13. Commanded(c)'
  <2>1. Driven(c) /\ Len(used[c]) >= 4
    BY <1>1 DEF Connection, Commanded, HandOver
  <2> QED  BY <1>2, <1>7, <2>1 DEF Commanded, Driven, HandOver
<1> QED  BY <1>5, <1>9, <1>10, <1>11, <1>12, <1>13, ClientStep DEF Connection

LEMMA RecvListStep ==
  ASSUME SessionInv, NEW c \in Client, RecvList(c)
  PROVE  SessionInv'
<1>1. Types /\ Accepts /\ Handles /\ Connection(c) /\ tool[c] \in {"rep_list", "ndev", "devs"}
  BY DEF SessionInv, RecvList
<1>2. /\ UNCHANGED <<scenario, attacher, loop, thread, up, shut, broken, used>>
      /\ DOMAIN count' = Client /\ \A d \in Client \ {c} : count'[d] = count[d]
      /\ count' = count \/ \E k : count' = [count EXCEPT ![c] = k]
      /\ down' = down \/ (down[c] # <<>> /\ Taken(c))
  BY <1>1 DEF RecvList, Types
<1>3. CASE Leave(c)
  BY <1>1, <1>2, <1>3, LeaveStep
<1>4. CASE ~Leave(c)
  <2> DEFINE step == IF tool[c] = "rep_list" THEN "ndev" ELSE "devs"
  <2>1. down[c] # <<>> /\ Taken(c) /\ Goto(c, step)
    BY <1>4 DEF RecvList
  <2>2. /\ down' \in Streams /\ \A d \in Client \ {c} : down'[d] = down[d]
        /\ Head(down[c]) = down[c][1] /\ Shorter(down'[c], down[c])
    BY <1>1, <2>1, TakenEffect
  <2>3. step \in ToolStep
    BY DEF ToolStep
  <2>4. /\ tool' \in [Client -> ToolStep] /\ tool'[c] = step /\ sock' = sock
        /\ \A d \in Client \ {c} : tool'[d] = tool[d]
    BY <1>1, <2>1, <2>3, GotoEffect
  <2>5. Moves(c)
    BY <1>1, <1>2, <2>2, <2>4 DEF Moves, Types, Streams
  <2>6. Phase(c)' = Phase(c) /\ Fresh(c)' = Fresh(c)
    BY <1>2 DEF Phase, Fresh, loop
  <2>7. ~broken[c] /\ ~Fresh(c) /\ attacher[c] = "none"
        /\ Phase(c) \notin {"recv_import", "export", "reply_op", "reply_udev", "reply_list"}
    BY <1>1, <2>1 DEF Connection, Users, Requested, Replied
  <2>8. Users(c)'
    BY <1>1, <1>2, <2>4, <2>7 DEF Connection, Users
  <2>9. Requested(c)'
    BY <2>4, <2>6, <2>7 DEF Requested
  <2>10. Replied(c)'
    BY <2>6, <2>7 DEF Replied
  <2>11. Answered(c)'
    <3>1. CASE tool[c] = "rep_list"
      <4>1. /\ Len(down[c]) >= 2 /\ down[c][2][1] = "ndev"
            /\ \A i \in 3 .. Len(down[c]) : down[c][i][1] = "udev"
        BY <1>1, <2>1, <3>1 DEF Connection, Answered
      <4>2. /\ down'[c][1] = down[c][2] /\ Len(down'[c]) = Len(down[c]) - 1
            /\ \A i \in 2 .. Len(down'[c]) : down'[c][i] = down[c][i + 1]
        BY <2>2, <4>1 DEF Shorter
      <4>3. \A i \in 2 .. Len(down'[c]) : down'[c][i][1] = "udev"
        BY <2>2, <4>1, <4>2 DEF Shorter
      <4> QED  BY <2>4, <3>1, <4>1, <4>2, <4>3 DEF Answered
    <3>2. CASE tool[c] # "rep_list"
      <4>1. \A i \in 2 .. Len(down[c]) : down[c][i][1] = "udev"
        BY <1>1, <2>1, <3>2 DEF Connection, Answered
      <4>2. \A i \in 1 .. Len(down'[c]) : down'[c][i][1] = "udev"
        BY <2>2, <4>1 DEF Shorter
      <4> QED  BY <2>4, <3>2, <4>2 DEF Answered
    <3> QED  BY <3>1, <3>2
  <2>12. Commanded(c)'
    BY <1>2, <2>4, <2>7 DEF Commanded
  <2> QED  BY <2>5, <2>8, <2>9, <2>10, <2>11, <2>12, ClientStep DEF Connection
<1> QED  BY <1>3, <1>4

LEMMA DetachStep ==
  ASSUME SessionInv, NEW c \in Client, Detach(c)
  PROVE  SessionInv'
<1>1. Types /\ Accepts /\ Connection(c) /\ tool[c] = "start"
  BY DEF SessionInv, Detach
<1>2. /\ tool' \in [Client -> ToolStep] /\ tool'[c] = "exit"
      /\ \A d \in Client \ {c} : tool'[d] = tool[d]
  BY <1>1 DEF Types, Detach, ToolStep
<1>3. UNCHANGED <<scenario, count, attacher, sock, loop, thread, up, down, shut, broken,
                  used>>
  BY DEF Detach, net
<1>4. Moves(c)
  BY <1>1, <1>2, <1>3 DEF Moves, Types, Streams
<1>5. Phase(c)' = Phase(c) /\ Fresh(c)' = Fresh(c) /\ Fresh(c)
  BY <1>1, <1>3 DEF Phase, Fresh, loop, Accepts
<1>6. attacher[c] = "none" /\ up[c] = <<>> /\ Phase(c) \in {"none", "recv_op"}
  <2>1. Phase(c) \in {"none", "recv_op", "recv_import", "export", "reply_op", "reply_udev",
                      "reply_list"}
    BY <1>1 DEF Phase, Types, ServerStep
  <2> QED  BY <1>1, <1>5, <2>1 DEF Connection, Users, Requested, Replied
<1>7. Users(c)' /\ Requested(c)' /\ Replied(c)'
  BY <1>1, <1>2, <1>3, <1>5, <1>6 DEF Connection, Users, Requested, Replied
<1>8. Answered(c)' /\ Commanded(c)'
  BY <1>2, <1>3, <1>6 DEF Answered, Commanded
<1> QED  BY <1>4, <1>7, <1>8, ClientStep DEF Connection

LEMMA ToolStepKeeps ==
  ASSUME SessionInv, NEW c \in Client, Tool(c)
  PROVE  SessionInv'
<1>1. CASE ImportDevice(c)
  <2>1. CASE Leave(c)
    BY <1>1, <2>1, LeaveStep DEF ImportDevice, net
  <2>2. CASE ~Leave(c)
    <3>1. attacher[c] = "none"
      BY <1>1 DEF ImportDevice, SessionInv, Types, Connection, Users
    <3> QED  BY <1>1, <2>2, <3>1, HandOverStep DEF ImportDevice, HandOver
  <2> QED  BY <2>1, <2>2
<1>2. CASE CreateProcess(c)
  <2>1. CASE Leave(c) /\ UNCHANGED attacher
    BY <1>2, <2>1, LeaveStep DEF CreateProcess, net
  <2>2. CASE ~(Leave(c) /\ UNCHANGED attacher)
    BY <1>2, <2>2, HandOverStep DEF CreateProcess, HandOver
  <2> QED  BY <2>1, <2>2
<1>3. CASE Duplicate(c)
  <2>1. CASE Leave(c)
    BY <1>3, <2>1, LeaveStep DEF Duplicate, net
  <2>2. CASE ~Leave(c)
    BY <1>3, <2>2, HandOverStep DEF Duplicate, HandOver
  <2> QED  BY <2>1, <2>2
<1>4. CASE WriteHandleValue(c)
  <2>1. CASE Leave(c) /\ UNCHANGED pipe
    BY <1>4, <2>1, LeaveStep DEF WriteHandleValue, net
  <2>2. CASE ~(Leave(c) /\ UNCHANGED pipe)
    BY <1>4, <2>2, HandOverStep DEF WriteHandleValue, Goto, AfterWrite, HandOver
  <2> QED  BY <2>1, <2>2
<1>5. CASE CloseHandles(c)
  BY <1>5, LeaveStep DEF CloseHandles, net
<1> QED  BY <1>1, <1>2, <1>3, <1>4, <1>5, ConnectStep, SendRequestStep, RecvReplyStep,
            SendFetchStep, RecvRetStep, RecvDataStep, RecvListStep, DetachStep DEF Tool
-----------------------------------------------------------------------------
(* The attacher, and what happens to a tool.                                *)

\* A step of an attacher that runs.
LEMMA AttacherMoves ==
  ASSUME SessionInv, NEW c \in Client, attacher[c] # "none",
         NEW step \in {"read_sock", "forward", "shutdown", "exit"},
         attacher' = [attacher EXCEPT ![c] = step],
         sock' = sock \/ sock' = [sock EXCEPT ![c] = @ \ {"attacher"}],
         UNCHANGED <<scenario, tool, count, loop, thread, net, used>>
  PROVE  SessionInv'
<1>1. Types /\ Accepts /\ Connection(c)
  BY DEF SessionInv
<1>2. /\ attacher' \in [Client -> AttacherStep]
      /\ \A d \in Client \ {c} : attacher'[d] = attacher[d]
  <2>1. step \in AttacherStep
    BY DEF AttacherStep
  <2> QED  BY <1>1, <2>1 DEF Types
<1>3. /\ sock' \in [Client -> SUBSET {"tool", "attacher"}]
      /\ "tool" \in sock[c] => "tool" \in sock'[c]
      /\ \A d \in Client \ {c} : sock'[d] = sock[d]
  <2>1. CASE sock' = sock
    BY <1>1, <2>1 DEF Types
  <2>2. CASE sock' = [sock EXCEPT ![c] = @ \ {"attacher"}]
    <3>1. sock[c] \ {"attacher"} \in SUBSET {"tool", "attacher"}
      BY <1>1 DEF Types
    <3> QED  BY <1>1, <2>2, <3>1 DEF Types
  <2> QED  BY <2>1, <2>2
<1>4. tool[c] \in {"dup_hdev", "dup_sock", "write_hdev", "write_sock", "close", "exit"}
  BY <1>1 DEF Connection, Users
<1>5. Moves(c)
  BY <1>1, <1>2, <1>3, <1>4 DEF Moves, Types, Streams, net
<1>6. Phase(c)' = Phase(c) /\ Fresh(c)' = Fresh(c)
  BY DEF Phase, Fresh, loop
<1>7. Users(c)'
  BY <1>1, <1>3, <1>4 DEF Connection, Users, net
<1>8. Requested(c)'
  BY <1>1, <1>4, <1>6 DEF Connection, Requested, net
<1>9. Replied(c)' /\ Answered(c)'
  BY <1>1, <1>4, <1>6 DEF Connection, Replied, Answered, net
<1>10. Commanded(c)'
  <2>1. Driven(c) /\ Len(used[c]) >= 4
    BY <1>1 DEF Connection, Commanded
  <2> QED  BY <1>4, <2>1 DEF Commanded, Driven, net
<1> QED  BY <1>5, <1>7, <1>8, <1>9, <1>10, ClientStep DEF Connection

\* An attacher that forwards sends a command or takes an answer.
LEMMA ForwardMoves ==
  ASSUME SessionInv, NEW c \in Client, attacher[c] = "forward",
         UNCHANGED <<scenario, process, loop, thread, shut, broken>>,
         up' \in Streams, down' \in Streams, used' \in [Client -> Seq(Argument)],
         \A d \in Client \ {c} : up'[d] = up[d] /\ down'[d] = down[d] /\ used'[d] = used[d],
         broken[c] => up'[c] = <<>> /\ down'[c] = <<>>,
         Driven(c)', Len(used'[c]) >= 4
  PROVE  SessionInv'
<1>1. Types /\ Accepts /\ Connection(c)
  BY DEF SessionInv
<1>2. tool[c] \in {"dup_hdev", "dup_sock", "write_hdev", "write_sock", "close", "exit"}
  BY <1>1 DEF Connection, Users
<1>3. Moves(c)
  BY <1>1, <1>2 DEF Moves, Types, Streams, process
<1>4. Phase(c)' = Phase(c) /\ Fresh(c)' = Fresh(c)
  BY DEF Phase, Fresh, loop
<1>5. Users(c)'
  BY <1>1 DEF Connection, Users, process
<1>6. Requested(c)'
  BY <1>1, <1>2, <1>4 DEF Connection, Requested, process
<1>7. Replied(c)' /\ Answered(c)'
  BY <1>1, <1>2, <1>4 DEF Connection, Replied, Answered, process
<1>8. Commanded(c)'
  BY <1>2 DEF Commanded, process
<1> QED  BY <1>3, <1>5, <1>6, <1>7, <1>8, ClientStep DEF Connection

LEMMA AttacherStepKeeps ==
  ASSUME SessionInv, NEW c \in Client, Attacher(c)
  PROVE  SessionInv'
<1>1. Types /\ Connection(c)
  BY DEF SessionInv
<1>2. attacher[c] # "none" => Driven(c) /\ Len(used[c]) >= 4
  BY <1>1 DEF Connection, Commanded
<1>3. broken[c] => up[c] = <<>> /\ down[c] = <<>>
  BY <1>1 DEF Connection, Users
<1>4. CASE ReadHandleValue(c)
  <2>1. \E step \in {"read_sock", "forward"} : attacher' = [attacher EXCEPT ![c] = step]
    BY <1>4 DEF ReadHandleValue
  <2> QED  BY <1>4, <2>1, AttacherMoves DEF ReadHandleValue
<1>5. CASE ForwardEnds(c)
  BY <1>5, AttacherMoves DEF ForwardEnds
<1>6. CASE Shutdown(c)
  BY <1>6, AttacherMoves DEF Shutdown
<1>7. CASE ForwardCommand(c)
  <2> DEFINE n == Len(used[c]) - 4 + 1
  <2>1. /\ attacher[c] = "forward" /\ n <= MaxCmds
        /\ Up(c, <<"cmd", DriverSeq(n)>>)
        /\ used' = [used EXCEPT ![c] = Append(@, DriverSeq(n))]
        /\ UNCHANGED <<scenario, process, loop, thread, down, shut, broken>>
    BY <1>7 DEF ForwardCommand
  <2>2. used[c] \in Seq(Argument) /\ Len(used[c]) \in Nat
    BY <1>1, LenFacts DEF Types
  <2>3. n \in 1 .. MaxCmds /\ n \in Nat
    BY <1>2, <2>1, <2>2, ConstantsAssumption
  <2> HIDE DEF n
  <2>4. /\ DriverSeq(n) \in Argument /\ <<"cmd", DriverSeq(n)>> \in Message
        /\ DriverSeq(n) \in DriverSeqs
    BY <2>3, MessageFacts DEF DriverSeqs
  <2>5. /\ used' \in [Client -> Seq(Argument)] /\ Len(used'[c]) = Len(used[c]) + 1
        /\ \A d \in Client \ {c} : used'[d] = used[d]
    <3>1. /\ Append(used[c], DriverSeq(n)) \in Seq(Argument)
          /\ Len(Append(used[c], DriverSeq(n))) = Len(used[c]) + 1
      BY <2>2, <2>4, AppendFacts
    <3> QED  BY <1>1, <2>1, <3>1 DEF Types
  <2>6. /\ up' \in Streams /\ \A d \in Client \ {c} : up'[d] = up[d]
        /\ broken[c] => up'[c] = up[c]
        /\ ~broken[c] => Longer(up'[c], up[c], <<"cmd", DriverSeq(n)>>)
    BY <1>1, <2>1, <2>4, UpEffect
  <2>7. Driven(c)'
    <3>1. Len(up[c]) \in Nat
      BY <1>1, LenFacts DEF Types
    <3>2. CASE broken[c]
      BY <1>2, <2>1, <2>6, <3>2 DEF Driven
    <3>3. CASE ~broken[c]
      <4>1. \A i \in 1 .. Len(up'[c]) : up'[c][i][2] \in DriverSeqs
        BY SMTT(30), <1>2, <2>1, <2>4, <2>6, <3>1, <3>3 DEF Driven, Longer
      <4> QED  BY <1>2, <2>1, <4>1 DEF Driven
    <3> QED  BY <3>2, <3>3
  <2>8. Len(used'[c]) >= 4
    BY <1>2, <2>1, <2>2, <2>5
  <2>9. down' \in Streams /\ (broken[c] => up'[c] = <<>> /\ down'[c] = <<>>)
    BY <1>1, <1>3, <2>1, <2>6 DEF Types, Streams
  <2> QED  BY <2>1, <2>5, <2>6, <2>7, <2>8, <2>9, ForwardMoves
<1>8. CASE ForwardAnswer(c)
  <2>1. /\ attacher[c] = "forward" /\ down[c] # <<>> /\ Taken(c)
        /\ UNCHANGED <<scenario, process, loop, thread, up, shut, broken, used>>
    BY <1>8 DEF ForwardAnswer
  <2>2. /\ down' \in Streams /\ \A d \in Client \ {c} : down'[d] = down[d]
        /\ Shorter(down'[c], down[c])
    BY <1>1, <2>1, TakenEffect
  <2>3. Driven(c)'
    BY SMTT(30), <1>2, <2>1, <2>2 DEF Driven, Shorter
  <2>4. up' \in Streams /\ used' \in [Client -> Seq(Argument)] /\ ~broken[c]
    BY <1>1, <1>3, <2>1 DEF Types, Streams
  <2> QED  BY <1>2, <2>1, <2>2, <2>3, <2>4, ForwardMoves
<1> QED  BY <1>4, <1>5, <1>6, <1>7, <1>8 DEF Attacher

LEMMA CrashStep ==
  ASSUME SessionInv, NEW c \in Client, Crash(c)
  PROVE  SessionInv'
<1>1. tool[c] \notin {"rep_op", "rep_udev"}
  BY DEF Crash, MayBeLost, SessionInv, NoVanish
<1> QED  BY <1>1, LeaveStep DEF Crash, net

LEMMA ResetStep ==
  ASSUME SessionInv, NEW c \in Client, Reset(c)
  PROVE  SessionInv'
<1>1. Types /\ Accepts /\ Handles /\ Connection(c)
  BY DEF SessionInv
<1>2. /\ broken' = [broken EXCEPT ![c] = TRUE]
      /\ up' = [up EXCEPT ![c] = <<>>] /\ down' = [down EXCEPT ![c] = <<>>]
      /\ UNCHANGED <<scenario, process, loop, thread, shut, used>>
  BY DEF Reset
<1>3. /\ up' \in Streams /\ down' \in Streams /\ broken' \in [Client -> BOOLEAN]
      /\ up'[c] = <<>> /\ down'[c] = <<>> /\ broken'[c]
      /\ \A d \in Client \ {c} : /\ up'[d] = up[d] /\ down'[d] = down[d]
                                 /\ broken'[d] = broken[d]
  BY <1>1, <1>2 DEF Types, Streams
<1>4. tool[c] \notin {"rep_op", "rep_udev", "start"}
  <2>1. CASE attacher[c] = "forward"
    BY <1>1, <2>1 DEF Connection, Users
  <2>2. CASE MayBeLost(c)
    BY <2>2 DEF MayBeLost, SessionInv, NoVanish
  <2> QED  BY <2>1, <2>2 DEF Reset
<1>5. Types'
  BY <1>1, <1>2, <1>3 DEF Types, Streams, process, loop
<1>6. Accepts' /\ Handles'
  BY <1>1, <1>2 DEF Accepts, Handles, OwnSocket, process, loop
<1>7. Phase(c)' = Phase(c) /\ Fresh(c)' = Fresh(c)
  BY <1>2 DEF Phase, Fresh, loop
<1>8. Users(c)'
  BY <1>1, <1>2, <1>3 DEF Connection, Users, process
<1>9. Requested(c)'
  BY <1>1, <1>2, <1>3, <1>7 DEF Connection, Requested, process
<1>10. Replied(c)'
  BY <1>1, <1>2, <1>3, <1>4, <1>7 DEF Connection, Replied, process
<1>11. Answered(c)'
  BY <1>2, <1>3 DEF Answered, process
<1>12. Commanded(c)'
  <2>1. Driven(c)'
    BY <1>3 DEF Driven
  <2> QED  BY <1>1, <1>2, <2>1 DEF Connection, Commanded, process
<1>13. \A d \in Client \ {c} : Same(d)
  BY <1>2, <1>3 DEF Same, Phase, process, loop
<1> QED  BY <1>2, <1>5, <1>6, <1>8, <1>9, <1>10, <1>11, <1>12, <1>13, Assemble
         DEF Connection
-----------------------------------------------------------------------------
(* The server's main loop.                                                  *)

LEMMA PhaseFacts ==
  ASSUME SessionInv, server \notin {"select", "accept", "close"}
  PROVE  /\ serving \in Client /\ Phase(serving) = server /\ handle[serving] # 0
         /\ Connection(serving) /\ Types
  BY DEF SessionInv, Handles, Phase

\* A step of the request of the client that is served.
LEMMA ServingStep ==
  ASSUME SessionInv, server \notin {"select", "accept", "close"},
         NEW c \in Client, c = serving,
         UNCHANGED <<scenario, process, backlog, ready, serving, table, handle, shut, broken,
                     used>>,
         server' \in ServerStep \ {"select", "recv_op"},
         up' \in Streams, down' \in Streams,
         thread' \in [Client -> {"none", "open", "serve", "ended"}],
         \A d \in Client \ {c} :
           up'[d] = up[d] /\ down'[d] = down[d] /\ thread'[d] = thread[d],
         server' = "close" => thread'[c] \notin {"open", "serve"},
         Users(c)', Requested(c)', Replied(c)', Answered(c)', Commanded(c)'
  PROVE  SessionInv'
<1>1. Types /\ Accepts /\ Handles
  BY DEF SessionInv
<1>2. Types'
  BY <1>1 DEF Types, Streams, process
<1>3. Accepts'
  BY <1>1 DEF Accepts, process
<1>4. handle[c] # 0 /\ table[handle[c]] = c
  BY <1>1 DEF Handles
<1>5. Handles'
  <2>1. \A d \in Client : thread'[d] # "none" => handle[d] # 0
    BY <1>1, <1>4 DEF Handles
  <2>2. \A d \in Client : thread'[d] \in {"open", "serve"} => table[handle[d]] = d
    BY <1>1, <1>4 DEF Handles, OwnSocket
  <2> QED  BY <1>1, <1>4, <2>1, <2>2 DEF Handles, OwnSocket
<1>6. \A d \in Client \ {c} : Same(d)
  BY DEF Same, Phase, process
<1> QED  BY <1>2, <1>3, <1>5, <1>6, Assemble DEF Connection

\* What becomes of the phase and of the request that was taken.
LEMMA NextPhase ==
  ASSUME serving' = serving, handle' = handle, NEW c, c = serving, handle[c] # 0,
         server' # "recv_op"
  PROVE  /\ Phase(c)' = IF server' \in {"select", "accept", "close"} THEN "none" ELSE server'
         /\ ~Fresh(c)'
  BY DEF Phase, Fresh

LEMMA RecvOpStep ==
  ASSUME SessionInv, RecvOp
  PROVE  SessionInv'
<1> DEFINE c == serving
<1>1. /\ c \in Client /\ Phase(c) = "recv_op" /\ handle[c] # 0 /\ Connection(c) /\ Types
      /\ server = "recv_op"
  BY PhaseFacts DEF RecvOp
<1>2. UNCHANGED <<scenario, process, backlog, ready, serving, table, handle, thread, down,
                  shut, broken, used>>
  BY DEF RecvOp
<1>3. /\ Fresh(c) /\ thread[c] = "none" /\ down[c] = <<>> /\ ~shut[c]
      /\ attacher[c] = "none"
      /\ tool[c] \in {"start", "op", "import", "rep_op", "rep_list", "exit"}
      /\ tool[c] # "start"
  BY <1>1 DEF Connection, Requested, Fresh, SessionInv, Accepts
<1>4. CASE Ended(up[c], ClientGone(c)) /\ server' = "close" /\ UNCHANGED up
  <2>1. up[c] = <<>> /\ (broken[c] \/ sock[c] = {})
    BY <1>4 DEF Ended, ClientGone
  <2>2. Phase(c)' = "none" /\ ~Fresh(c)'
    BY <1>1, <1>2, <1>4, NextPhase
  <2>3. Users(c)' /\ Replied(c)' /\ Answered(c)' /\ Commanded(c)'
    BY <1>1, <1>2, <1>3, <1>4, <2>1, <2>2
    DEF Connection, Users, Replied, Answered, Commanded, Driven, process
  <2>4. Requested(c)'
    <3>1. tool[c] \in {"op", "import"} => broken[c]
      BY <1>1, <1>3, <2>1 DEF Connection, Users
    <3> QED  BY <1>2, <2>2, <3>1 DEF Requested, process
  <2> QED  BY <1>1, <1>2, <1>3, <1>4, <2>3, <2>4, ServingStep
           DEF ServerStep, Types, Streams
<1>5. CASE ~(Ended(up[c], ClientGone(c)) /\ server' = "close" /\ UNCHANGED up)
  <2>1. /\ up[c] # <<>> /\ up' = [up EXCEPT ![c] = Tail(@)]
        /\ server' = IF Head(up[c])[1] = "list" THEN "reply_list" ELSE "recv_import"
    BY <1>5 DEF RecvOp
  <2>2. /\ up' \in Streams /\ \A d \in Client \ {c} : up'[d] = up[d]
        /\ Head(up[c]) = up[c][1] /\ up[c][1] \in Message /\ Shorter(up'[c], up[c])
    BY <1>1, <2>1, TakenUpEffect
  <2>3. ~broken[c] /\ tool[c] \in {"import", "rep_op", "rep_list", "exit"}
    BY <1>1, <1>3, <2>1 DEF Connection, Users, Requested
  <2>4. /\ tool[c] = "import" => One(up[c], "attach")
        /\ tool[c] = "rep_op" => Two(up[c], "attach", "busid")
        /\ tool[c] = "rep_list" => One(up[c], "list")
        /\ tool[c] = "exit" => One(up[c], scenario.op[c])
    BY <1>1, <1>3, <2>1 DEF Connection, Requested
  <2>5. /\ tool[c] # "rep_op" => up'[c] = <<>>
        /\ tool[c] = "rep_op" => Len(up'[c]) = 1
    BY <2>2, <2>3, <2>4 DEF One, Two, Shorter
  <2>6. up[c][1][1] \in Tag
    BY <2>2 DEF Message
  <2>7. /\ tool[c] \in {"import", "rep_op"} => server' = "recv_import"
        /\ tool[c] = "rep_list" => server' = "reply_list"
        /\ server' = "recv_import" => scenario.op[c] = "attach"
    <3>1. tool[c] \in {"import", "rep_op"} => scenario.op[c] = "attach"
      BY <1>1 DEF Connection, Users
    <3>2. tool[c] = "exit" => up[c][1][1] = scenario.op[c]
      BY <2>4 DEF One
    <3>3. scenario.op[c] \in {"attach", "list", "detach", "none"}
      BY <1>1, ScenarioFacts
    <3>4. tool[c] = "exit" => scenario.op[c] \in {"attach", "list"}
      BY <2>6, <3>2, <3>3 DEF Tag
    <3> QED  BY <2>1, <2>2, <2>3, <2>4, <3>1, <3>2, <3>4 DEF One, Two
  <2>8. server' \in {"recv_import", "reply_list"}
    BY <2>1
  <2>9. Phase(c)' = server' /\ ~Fresh(c)'
    BY <1>1, <1>2, <2>8, NextPhase
  <2>10. Users(c)'
    BY <1>1, <1>2, <1>3, <2>3 DEF Connection, Users, process
  <2>11. Requested(c)'
    BY <1>2, <1>3, <2>3, <2>5, <2>7, <2>8, <2>9 DEF Requested, process
  <2>12. Replied(c)'
    BY <1>2, <2>3, <2>7, <2>8, <2>9 DEF Replied, process
  <2>13. Answered(c)'
    BY <1>2, <1>3, <2>3, <2>7, <2>9 DEF Answered, process
  <2>14. Commanded(c)'
    BY <1>1, <1>2, <1>3, <2>3 DEF Connection, Commanded, process
  <2> QED  BY <1>1, <1>2, <1>3, <2>2, <2>8, <2>10, <2>11, <2>12, <2>13, <2>14, ServingStep
           DEF ServerStep, Types, Streams
<1> QED  BY <1>4, <1>5

LEMMA OneReply ==
  ASSUME Types, NEW c \in Client, NEW t \in Tag, Down(c, <<<<t, 0>>>>)
  PROVE  /\ down' \in Streams /\ \A d \in Client \ {c} : down'[d] = down[d]
         /\ ClientGone(c) => down'[c] = down[c]
         /\ ~ClientGone(c) => /\ down[c] = <<>> => One(down'[c], t)
                              /\ \A u \in Tag : One(down[c], u) => Two(down'[c], u, t)
<1> DEFINE ms == <<<<t, 0>>>>
<1>1. /\ ms \in Seq(Message) /\ Len(ms) = 1 /\ ms[1][1] = t
  BY MessageFacts
<1> HIDE DEF ms
<1>2. Down(c, ms)
  BY DEF ms
<1>3. /\ down' \in Streams /\ \A d \in Client \ {c} : down'[d] = down[d]
      /\ ClientGone(c) => down'[c] = down[c]
      /\ ~ClientGone(c) => /\ Len(down'[c]) = Len(down[c]) + 1
                           /\ \A i \in 1 .. Len(down[c]) : down'[c][i] = down[c][i]
                           /\ down'[c][Len(down[c]) + 1] = ms[1]
  <2>1. /\ down' \in Streams /\ \A d \in Client \ {c} : down'[d] = down[d]
        /\ ClientGone(c) => down'[c] = down[c]
        /\ ~ClientGone(c) =>
             /\ Len(down'[c]) = Len(down[c]) + Len(ms)
             /\ \A i \in 1 .. Len(down[c]) : down'[c][i] = down[c][i]
             /\ \A i \in 1 .. Len(ms) : down'[c][Len(down[c]) + i] = ms[i]
    BY <1>1, <1>2, DownEffect
  <2> QED  BY <1>1, <2>1
<1>4. ~ClientGone(c) /\ down[c] = <<>> => One(down'[c], t)
  BY <1>1, <1>3 DEF One
<1>5. ASSUME ~ClientGone(c), NEW u \in Tag, One(down[c], u)
      PROVE  Two(down'[c], u, t)
  BY <1>1, <1>3, <1>5 DEF One, Two
<1> QED  BY <1>3, <1>4, <1>5

LEMMA RecvImportStep ==
  ASSUME SessionInv, RecvImport
  PROVE  SessionInv'
<1> DEFINE c == serving
<1>1. /\ c \in Client /\ Phase(c) = "recv_import" /\ handle[c] # 0 /\ Connection(c) /\ Types
      /\ server = "recv_import"
  BY PhaseFacts DEF RecvImport
<1>2. UNCHANGED <<scenario, process, backlog, ready, serving, table, handle, thread,
                  shut, broken, used>>
  BY DEF RecvImport
<1>3. /\ thread[c] = "none" /\ down[c] = <<>> /\ ~shut[c] /\ attacher[c] = "none"
      /\ scenario.op[c] = "attach" /\ tool[c] \in {"import", "rep_op", "exit"}
      /\ tool[c] # "exit" => "tool" \in sock[c]
      /\ tool[c] = "rep_op" => broken[c] \/ Len(up[c]) = 1
      /\ tool[c] # "rep_op" => up[c] = <<>>
      /\ broken[c] => up[c] = <<>>
  BY <1>1 DEF Connection, Requested, Users
<1>4. CASE Ended(up[c], ClientGone(c)) /\ server' = "close" /\ UNCHANGED <<up, down>>
  <2>1. up[c] = <<>> /\ (broken[c] \/ sock[c] = {})
    BY <1>4 DEF Ended, ClientGone
  <2>2. Phase(c)' = "none" /\ ~Fresh(c)'
    BY <1>1, <1>2, <1>4, NextPhase
  <2>3. Users(c)' /\ Replied(c)' /\ Answered(c)' /\ Commanded(c)'
    BY <1>1, <1>2, <1>3, <1>4, <2>1, <2>2
    DEF Connection, Users, Replied, Answered, Commanded, Driven, process
  <2>4. Requested(c)'
    BY <1>2, <1>3, <2>1, <2>2 DEF Requested, process
  <2> QED  BY <1>1, <1>2, <1>3, <1>4, <2>3, <2>4, ServingStep
           DEF ServerStep, Types, Streams
<1>5. CASE ~(Ended(up[c], ClientGone(c)) /\ server' = "close" /\ UNCHANGED <<up, down>>)
  <2>1. /\ up[c] # <<>> /\ up' = [up EXCEPT ![c] = Tail(@)]
        /\ \/ server' = "export" /\ UNCHANGED down
           \/ Down(c, <<<<"nodev", 0>>>>) /\ server' = "close"
    BY <1>5 DEF RecvImport
  <2>2. /\ up' \in Streams /\ \A d \in Client \ {c} : up'[d] = up[d]
        /\ Shorter(up'[c], up[c])
    BY <1>1, <2>1, TakenUpEffect
  <2>3. ~broken[c] /\ tool[c] = "rep_op" /\ Len(up[c]) = 1 /\ ~ClientGone(c)
    BY <1>3, <2>1 DEF ClientGone
  <2>4. up'[c] = <<>>
    BY <2>2, <2>3 DEF Shorter
  <2>5. /\ down' \in Streams /\ \A d \in Client \ {c} : down'[d] = down[d]
        /\ \/ server' = "export" /\ down'[c] = <<>>
           \/ server' = "close" /\ One(down'[c], "nodev")
    BY <1>1, <1>3, <2>1, <2>3, OneReply DEF Types, Streams, Tag
  <2>6. /\ Phase(c)' = IF server' = "export" THEN "export" ELSE "none"
        /\ ~Fresh(c)'
    BY <1>1, <1>2, <2>5, NextPhase
  <2>7. Users(c)'
    BY <1>1, <1>2, <1>3, <2>3 DEF Connection, Users, process
  <2>8. Requested(c)'
    BY <1>2, <1>3, <2>3, <2>5, <2>6 DEF Requested, process
  <2>9. Replied(c)'
    BY <1>2, <1>3, <2>3, <2>4, <2>5, <2>6 DEF Replied, process
  <2>10. Answered(c)'
    BY <1>2, <2>3, <2>4, <2>5, <2>6 DEF Answered, One, process
  <2>11. Commanded(c)'
    BY <1>1, <1>2, <1>3, <2>3 DEF Connection, Commanded, process
  <2> QED  BY <1>1, <1>2, <1>3, <2>2, <2>5, <2>7, <2>8, <2>9, <2>10, <2>11, ServingStep
           DEF ServerStep, Types
<1> QED  BY <1>4, <1>5

LEMMA ExportStep ==
  ASSUME SessionInv, Export
  PROVE  SessionInv'
<1> DEFINE c == serving
<1>1. /\ c \in Client /\ Phase(c) = "export" /\ handle[c] # 0 /\ Connection(c) /\ Types
      /\ server = "export"
  BY PhaseFacts DEF Export
<1>2. UNCHANGED <<scenario, process, backlog, ready, serving, table, handle, up,
                  shut, broken, used>>
  BY DEF Export
<1>3. /\ thread[c] = "none" /\ down[c] = <<>> /\ ~shut[c] /\ attacher[c] = "none"
      /\ ~broken[c] /\ up[c] = <<>> /\ tool[c] = "rep_op"
      /\ scenario.op[c] = "attach" /\ "tool" \in sock[c] /\ ~ClientGone(c)
  BY <1>1 DEF Connection, Requested, Replied, Users, ClientGone
<1>4. \/ /\ thread' = [thread EXCEPT ![c] = "open"]
         /\ server' = "reply_op" /\ UNCHANGED down
      \/ Down(c, <<<<"na", 0>>>>) /\ server' = "close" /\ UNCHANGED thread
  BY DEF Export
<1>5. /\ thread' \in [Client -> {"none", "open", "serve", "ended"}]
      /\ \A d \in Client \ {c} : thread'[d] = thread[d]
      /\ server' = "close" => thread'[c] = "none"
  BY <1>1, <1>3, <1>4 DEF Types
<1>6. /\ down' \in Streams /\ \A d \in Client \ {c} : down'[d] = down[d]
      /\ \/ server' = "reply_op" /\ down'[c] = <<>>
         \/ server' = "close" /\ One(down'[c], "na")
  BY <1>1, <1>3, <1>4, OneReply DEF Types, Streams, Tag
<1>7. /\ Phase(c)' = IF server' = "reply_op" THEN "reply_op" ELSE "none"
      /\ ~Fresh(c)'
  BY <1>1, <1>2, <1>6, NextPhase
<1>8. Users(c)'
  BY <1>1, <1>2, <1>3 DEF Connection, Users, process
<1>9. Requested(c)'
  BY <1>2, <1>3, <1>7 DEF Requested, process
<1>10. Replied(c)'
  BY <1>2, <1>3, <1>6, <1>7 DEF Replied, process
<1>11. Answered(c)'
  BY <1>2, <1>3, <1>6, <1>7 DEF Answered, One, process
<1>12. Commanded(c)'
  BY <1>1, <1>2, <1>3 DEF Connection, Commanded, process
<1> QED  BY <1>1, <1>2, <1>5, <1>6, <1>8, <1>9, <1>10, <1>11, <1>12, ServingStep
         DEF ServerStep, Types, Streams

LEMMA ReplyImportStep ==
  ASSUME SessionInv, ReplyImport
  PROVE  SessionInv'
<1> DEFINE c == serving
<1>1. /\ c \in Client /\ Phase(c) = server /\ handle[c] # 0 /\ Connection(c) /\ Types
      /\ server \in {"reply_op", "reply_udev"}
  BY PhaseFacts DEF ReplyImport
<1>2. UNCHANGED <<scenario, process, backlog, ready, serving, table, handle, thread, up,
                  shut, broken, used>>
  BY DEF ReplyImport
<1>3. /\ ~shut[c] /\ ~broken[c] /\ up[c] = <<>> /\ tool[c] \in {"rep_op", "rep_udev"}
      /\ attacher[c] = "none" /\ scenario.op[c] = "attach"
      /\ "tool" \in sock[c] /\ ~ClientGone(c)
  BY <1>1 DEF Connection, Replied, Users, ClientGone
<1>4. PICK m \in {"ok", "udev", "junk"} :
        /\ Down(c, <<<<m, 0>>>>)
        /\ \/ server = "reply_op" /\ server' = "reply_udev" /\ m = "ok"
           \/ server = "reply_udev" /\ server' = "accept" /\ m \in {"udev", "junk"}
  BY <1>3 DEF ReplyImport, AfterImport
<1>5. /\ down' \in Streams /\ \A d \in Client \ {c} : down'[d] = down[d]
      /\ down[c] = <<>> => One(down'[c], m)
      /\ One(down[c], "ok") => Two(down'[c], "ok", m)
  BY <1>1, <1>3, <1>4, OneReply DEF Tag
<1>6. \/ /\ server' = "reply_udev" /\ tool[c] = "rep_op" /\ One(down'[c], "ok")
      \/ /\ server' = "accept" /\ tool[c] = "rep_op"
         /\ Two(down'[c], "ok", "udev") \/ Two(down'[c], "ok", "junk")
      \/ /\ server' = "accept" /\ tool[c] = "rep_udev"
         /\ One(down'[c], "udev") \/ One(down'[c], "junk")
  BY <1>1, <1>4, <1>5 DEF Connection, Replied
<1>7. /\ Phase(c)' = IF server' = "reply_udev" THEN "reply_udev" ELSE "none"
      /\ ~Fresh(c)'
  BY <1>1, <1>2, <1>6, NextPhase
<1>8. Users(c)'
  BY <1>1, <1>2, <1>3 DEF Connection, Users, process
<1>9. Requested(c)'
  BY <1>2, <1>3, <1>7 DEF Requested, process
<1>10. Replied(c)'
  BY <1>2, <1>3, <1>6, <1>7 DEF Replied, process
<1>11. Answered(c)'
  BY <1>2, <1>3, <1>6, <1>7 DEF Answered, process
<1>12. Commanded(c)'
  BY <1>1, <1>2, <1>3 DEF Connection, Commanded, process
<1> QED  BY <1>1, <1>2, <1>5, <1>6, <1>8, <1>9, <1>10, <1>11, <1>12, ServingStep
         DEF ServerStep, Types, Streams

LEMMA ConcatTwo ==
  ASSUME NEW S, NEW s \in Seq(S), NEW t \in Seq(S), NEW n \in Nat
  PROVE  Len(s) = 2 /\ Len(t) = n =>
           /\ s \o t \in Seq(S) /\ Len(s \o t) = 2 + n
           /\ \A i \in 1 .. 2 : (s \o t)[i] = s[i]
           /\ \A i \in 1 .. n : (s \o t)[2 + i] = t[i]
<1> DEFINE u == s \o t
<1>1. /\ u \in Seq(S) /\ Len(u) = Len(s) + Len(t)
      /\ \A i \in 1 .. Len(s) : u[i] = s[i]
      /\ \A i \in 1 .. Len(t) : u[Len(s) + i] = t[i]
  BY ConcatFacts
<1> HIDE DEF u
<1>2. Len(s) = 2 /\ Len(t) = n =>
        /\ u \in Seq(S) /\ Len(u) = 2 + n
        /\ \A i \in 1 .. 2 : u[i] = s[i]
        /\ \A i \in 1 .. n : u[2 + i] = t[i]
  BY <1>1
<1> QED  BY <1>2 DEF u

LEMMA ReplyListStep ==
  ASSUME SessionInv, ReplyList
  PROVE  SessionInv'
<1> DEFINE c == serving
<1>1. /\ c \in Client /\ Phase(c) = "reply_list" /\ handle[c] # 0 /\ Connection(c) /\ Types
      /\ server = "reply_list"
  BY PhaseFacts DEF ReplyList
<1>2. /\ UNCHANGED <<scenario, process, backlog, ready, serving, table, handle, thread, up,
                     shut, broken, used>>
      /\ server' = "close"
  BY DEF ReplyList
<1>3. /\ thread[c] = "none" /\ down[c] = <<>> /\ ~shut[c] /\ attacher[c] = "none"
      /\ tool[c] \in {"rep_list", "exit"} /\ (tool[c] = "rep_list" => "tool" \in sock[c])
  BY <1>1 DEF Connection, Requested, Replied, Users
<1>4. Phase(c)' = "none" /\ ~Fresh(c)'
  BY <1>1, <1>2, NextPhase
<1>5. /\ down' \in Streams /\ \A d \in Client \ {c} : down'[d] = down[d]
      /\ broken[c] => down'[c] = <<>>
      /\ down'[c] # <<>> =>
           /\ Len(down'[c]) >= 2 /\ down'[c][1][1] = "list" /\ down'[c][2][1] = "ndev"
           /\ \A i \in 3 .. Len(down'[c]) : down'[c][i][1] = "udev"
  <2>1. CASE UNCHANGED down
    BY <1>1, <1>3, <2>1 DEF Types, Streams
  <2>2. CASE ~UNCHANGED down
    <3>1. PICK n \in 0 .. MaxDevs :
            Down(c, <<<<"list", 0>>, <<"ndev", n>>>> \o [i \in 1 .. n |-> <<"udev", i>>])
      BY <2>2 DEF ReplyList
    <3> DEFINE s == <<<<"list", 0>>, <<"ndev", n>>>>
               t == [i \in 1 .. n |-> <<"udev", i>>]
               ms == s \o t
    <3>2. n \in Nat
      BY ConstantsAssumption
    <3>3. s \in Seq(Message) /\ Len(s) = 2 /\ s[1][1] = "list" /\ s[2][1] = "ndev"
      BY <3>2 DEF Message, Argument, Tag
    <3>4. t \in Seq(Message) /\ Len(t) = n /\ \A i \in 1 .. Len(t) : t[i][1] = "udev"
      <4>1. \A i \in 1 .. n : <<"udev", i>> \in Message
        BY <3>2 DEF Message, Argument, Tag
      <4> QED  BY <3>2, <4>1
    <3>5. /\ ms \in Seq(Message) /\ Len(ms) = 2 + n
          /\ \A i \in 1 .. 2 : ms[i] = s[i]
          /\ \A i \in 1 .. n : ms[2 + i] = t[i]
      <4> HIDE DEF s, t
      <4> QED  BY SMTT(30), <3>2, <3>3, <3>4, ConcatTwo
    <3>6. Down(c, ms)
      BY <3>1
    <3> HIDE DEF s, t, ms
    <3>7. /\ down' \in Streams /\ \A d \in Client \ {c} : down'[d] = down[d]
          /\ ClientGone(c) => down'[c] = down[c]
          /\ ~ClientGone(c) =>
               /\ Len(down'[c]) = Len(down[c]) + Len(ms)
               /\ \A i \in 1 .. Len(ms) : down'[c][Len(down[c]) + i] = ms[i]
      BY <1>1, <3>5, <3>6, DownEffect
    <3>8. CASE ClientGone(c)
      BY <1>3, <3>7, <3>8
    <3>9. CASE ~ClientGone(c)
      <4>1. Len(down[c]) = 0 /\ ~broken[c]
        BY <1>3, <3>9 DEF ClientGone
      <4>2. Len(down'[c]) = 2 + n /\ \A i \in 1 .. (2 + n) : down'[c][i] = ms[i]
        BY <3>2, <3>5, <3>7, <3>9, <4>1
      <4>3. down'[c][1] = s[1] /\ down'[c][2] = s[2]
        BY <3>2, <3>5, <4>2
      <4>4. \A i \in 3 .. (2 + n) : down'[c][i][1] = "udev"
        <5>1. \A i \in 3 .. (2 + n) : i - 2 \in 1 .. n /\ ms[2 + (i - 2)] = t[i - 2]
          BY <3>2, <3>5
        <5>2. \A i \in 3 .. (2 + n) : 2 + (i - 2) = i
          BY <3>2
        <5> QED  BY SMTT(30), <3>2, <3>4, <4>2, <5>1, <5>2
      <4> QED  BY <3>2, <3>3, <3>7, <4>1, <4>2, <4>3, <4>4
    <3> QED  BY <3>8, <3>9
  <2> QED  BY <2>1, <2>2
<1>6. Users(c)'
  BY <1>1, <1>2, <1>3, <1>5 DEF Connection, Users, process
<1>7. Requested(c)'
  BY <1>2, <1>3, <1>4 DEF Requested, process
<1>8. Replied(c)'
  BY <1>4 DEF Replied
<1>9. Answered(c)'
  BY <1>2, <1>3, <1>5 DEF Answered, process
<1>10. Commanded(c)'
  BY <1>2, <1>3 DEF Commanded, process
<1> QED  BY <1>1, <1>2, <1>3, <1>5, <1>6, <1>7, <1>8, <1>9, <1>10, ServingStep
         DEF ServerStep, Types, Streams

LEMMA CloseSocketStep ==
  ASSUME SessionInv, CloseSocket
  PROVE  SessionInv'
<1> DEFINE c == serving
<1>1. /\ Types /\ Accepts /\ Handles /\ server = "close"
      /\ c \in Client /\ handle[c] \in Handle /\ table[handle[c]] = c
      /\ thread[c] \notin {"open", "serve"} /\ Connection(c)
  BY DEF SessionInv, Handles, CloseSocket, Types
<1>2. /\ server' = "accept" /\ table' = [table EXCEPT ![handle[c]] = NoClient]
      /\ shut' = [shut EXCEPT ![c] = TRUE]
      /\ UNCHANGED <<scenario, process, backlog, ready, serving, handle, thread, up, down,
                     broken, used>>
  BY DEF CloseSocket
<1>3. /\ table' \in [Handle -> Client \cup {NoClient}] /\ table'[handle[c]] = NoClient
      /\ \A h \in Handle \ {handle[c]} : table'[h] = table[h]
      /\ shut' \in [Client -> BOOLEAN] /\ \A d \in Client \ {c} : shut'[d] = shut[d]
  BY <1>1, <1>2 DEF Types
<1>4. Types'
  BY <1>1, <1>2, <1>3 DEF Types, ServerStep, process
<1>5. Accepts'
  <2>1. handle' = handle /\ tool' = tool /\ backlog' = backlog /\ ready' = ready
    BY <1>2 DEF process
  <2> QED  BY <1>1, <2>1 DEF Accepts
<1>6. Handles'
  <2>1. \A d \in Client : thread[d] \in {"open", "serve"} =>
          handle[d] \in Handle \ {handle[c]}
    BY <1>1 DEF Handles, OwnSocket, Types
  <2>2. \A h \in Handle : table'[h] # NoClient => table'[h] = table[h]
    BY <1>3
  <2>3. OwnSocket'
    BY <1>1, <1>2, <1>3, <2>1 DEF Handles, OwnSocket
  <2> QED  BY <1>1, <1>2, <2>2, <2>3 DEF Handles
<1>7. Phase(c) = "none" /\ Phase(c)' = "none" /\ ~Fresh(c) /\ ~Fresh(c)'
  BY <1>1, <1>2, ConstantsAssumption DEF Phase, Fresh, Handle
<1>8. Users(c)'
  BY <1>1, <1>2 DEF Connection, Users, process
<1>9. Requested(c)'
  BY <1>1, <1>2, <1>7 DEF Connection, Requested, process
<1>10. Replied(c)'
  BY <1>7 DEF Replied
<1>11. Answered(c)'
  BY <1>1, <1>2, <1>7 DEF Connection, Answered, One, Two, process
<1>12. Commanded(c)'
  BY <1>1, <1>2 DEF Connection, Commanded, Driven, process
<1>13. \A d \in Client \ {c} : Same(d)
  BY <1>2, <1>3 DEF Same, Phase, process
<1> QED  BY <1>1, <1>2, <1>4, <1>5, <1>6, <1>8, <1>9, <1>10, <1>11, <1>12, <1>13, Assemble
         DEF Connection

LEMMA SelectStep ==
  ASSUME SessionInv, Select
  PROVE  SessionInv'
<1>1. Types /\ Accepts /\ Handles /\ server = "select"
  BY DEF SessionInv, Select
<1>2. /\ server' = "accept" /\ ready' = Watched
      /\ UNCHANGED <<scenario, process, backlog, serving, table, handle, thread, up, down,
                     shut, broken, used>>
  BY DEF Select, net
<1>3. Types'
  BY <1>1, <1>2 DEF Types, ServerStep, Watched, process
<1>4. Accepts'
  <2>1. \A l \in Watched : backlog[l] # <<>>
    BY DEF Watched
  <2>2. \A l \in ready' : backlog'[l] # <<>>
    BY <1>2, <2>1
  <2>3. handle' = handle /\ tool' = tool /\ backlog' = backlog
    BY <1>2 DEF process
  <2> QED  BY <1>1, <2>2, <2>3 DEF Accepts
<1>5. Handles'
  BY <1>1, <1>2 DEF Handles, OwnSocket
<1>6. \A d \in Client : Same(d)
  BY <1>1, <1>2 DEF Same, Phase, process
<1>7. \A d \in Client : Connection(d)'
  BY <1>2, <1>6, Frame DEF SessionInv
<1> QED  BY <1>2, <1>3, <1>4, <1>5, <1>7 DEF SessionInv, NoVanish

\* There is a handle left for a connection that is accepted: the others hold one
\* each at most.
LEMMA FreeHandleExists ==
  ASSUME Types, Handles, NEW c \in Client, handle[c] = 0
  PROVE  FreeHandle \in Handle /\ table[FreeHandle] = NoClient
<1>1. \E h \in Handle : table[h] = NoClient
  <2> SUFFICES ASSUME \A h \in Handle : table[h] # NoClient
               PROVE  FALSE
    OBVIOUS
  <2>1. \A h \in Handle : table[h] \in Client /\ handle[table[h]] = h /\ h # 0
    <3>1. \A h \in Handle : table[h] \in Client /\ handle[table[h]] = h
      BY DEF Types, Handles
    <3>2. \A h \in Handle : h # 0
      BY DEF Handle
    <3> QED  BY <3>1, <3>2
  <2>2. table \in [Handle -> Client \ {c}]
    BY <2>1 DEF Types
  <2>3. IsFiniteSet(Client) /\ Cardinality(Client) \in Nat
    BY ConstantsAssumption, FS_CardinalityType
  <2>4. /\ IsFiniteSet(Client \ {c})
        /\ Cardinality(Client \ {c}) = Cardinality(Client) - 1
    BY <2>3, FS_RemoveElement
  <2>5. IsFiniteSet(Handle) /\ Cardinality(Handle) = Cardinality(Client)
    BY <2>3, FS_Interval DEF Handle
  <2>6. \E g, h \in Handle : g # h /\ table[g] = table[h]
    BY <2>2, <2>3, <2>4, <2>5, FS_PigeonHole
  <2> QED  BY <2>1, <2>6
<1> QED  BY <1>1 DEF FreeHandle

LEMMA AcceptStep ==
  ASSUME SessionInv, Accept
  PROVE  SessionInv'
<1>1. Types /\ Accepts /\ Handles /\ server = "accept"
  BY DEF SessionInv, Accept
<1>2. UNCHANGED <<scenario, process, thread, up, down, shut, broken, used>>
  BY DEF Accept, net
<1>3. CASE server' = "select" /\ UNCHANGED <<ready, serving, table, handle, backlog>>
  <2>1. Types'
    BY <1>1, <1>2, <1>3 DEF Types, ServerStep, process
  <2>2. Accepts' /\ Handles'
    BY <1>1, <1>2, <1>3 DEF Accepts, Handles, OwnSocket, process
  <2>3. \A d \in Client : Same(d)
    BY <1>1, <1>2, <1>3 DEF Same, Phase, process
  <2>4. \A d \in Client : Connection(d)'
    BY <1>2, <2>3, Frame DEF SessionInv
  <2> QED  BY <1>2, <2>1, <2>2, <2>4 DEF SessionInv, NoVanish
<1>4. CASE ~(server' = "select" /\ UNCHANGED <<ready, serving, table, handle, backlog>>)
  <2>1. PICK l \in ready :
          /\ server' = "recv_op" /\ serving' = Head(backlog[l])
          /\ ready' = ready \ {l}
          /\ backlog' = [backlog EXCEPT ![l] = Tail(@)]
          /\ handle' = [handle EXCEPT ![Head(backlog[l])] = FreeHandle]
          /\ table' = [table EXCEPT ![FreeHandle] = Head(backlog[l])]
    BY <1>4 DEF Accept
  <2> DEFINE s == backlog[l]
  <2>2. l \in Listener /\ s \in Seq(Client) /\ s # <<>>
    BY <1>1 DEF Types, Accepts
  <2>c. PICK c \in Client : c = Head(s)
    BY <2>2, TailFacts
  <2>3. /\ Len(s) \in Nat /\ Len(s) > 0 /\ c = s[1]
        /\ Tail(s) \in Seq(Client) /\ Len(Tail(s)) = Len(s) - 1
        /\ \A i \in 1 .. (Len(s) - 1) : Tail(s)[i] = s[i + 1]
    BY <2>2, <2>c, TailFacts
  <2>4. handle[c] = 0 /\ tool[c] # "start"
    BY <1>1, <2>2, <2>3 DEF Accepts
  <2>5. PICK h \in Handle : h = FreeHandle /\ table[h] = NoClient /\ h # 0
    <3>1. FreeHandle \in Handle /\ table[FreeHandle] = NoClient
      BY <1>1, <2>4, FreeHandleExists
    <3> QED  BY <3>1 DEF Handle
  <2>6. /\ handle' \in [Client -> Handle \cup {0}] /\ handle'[c] = h
        /\ \A d \in Client \ {c} : handle'[d] = handle[d]
        /\ table' \in [Handle -> Client \cup {NoClient}] /\ table'[h] = c
        /\ \A g \in Handle \ {h} : table'[g] = table[g]
    <3>1. /\ handle' = [handle EXCEPT ![c] = h] /\ table' = [table EXCEPT ![h] = c]
      BY <2>1, <2>c, <2>5
    <3> QED  BY <1>1, <2>3, <2>5, <3>1 DEF Types
  <2>7. /\ backlog' \in [Listener -> Seq(Client)] /\ backlog'[l] = Tail(s)
        /\ \A m \in Listener \ {l} : backlog'[m] = backlog[m]
    BY <1>1, <2>1, <2>2, <2>3 DEF Types
  <2>8. serving' = c /\ server' = "recv_op" /\ ready' = ready \ {l}
    BY <2>1, <2>c
  <2>9. Types'
    BY <1>1, <1>2, <2>3, <2>6, <2>7, <2>8 DEF Types, ServerStep, process
  <2>10. Accepts'
    <3>1. \A m \in Listener : \A i \in 1 .. Len(backlog'[m]) :
            \/ /\ m # l /\ i \in 1 .. Len(backlog[m])
               /\ backlog'[m][i] = backlog[m][i]
            \/ /\ m = l /\ i + 1 \in 1 .. Len(backlog[m])
               /\ backlog'[m][i] = backlog[m][i + 1] /\ i + 1 # 1
      <4>1. \A i \in 1 .. Len(Tail(s)) : /\ i + 1 \in 1 .. Len(s) /\ i + 1 # 1
                                         /\ Tail(s)[i] = s[i + 1]
        BY <2>3
      <4> QED  BY <2>7, <4>1
    <3>2. \A m \in Listener : \A i \in 1 .. Len(backlog[m]) :
            /\ backlog[m][i] \in Client
            /\ backlog[m][i] = c => m = l /\ i = 1
      <4>1. 1 \in 1 .. Len(backlog[l]) /\ backlog[l][1] = c
        BY <2>3
      <4>2. \A m \in Listener : \A i \in 1 .. Len(backlog[m]) : backlog[m][i] \in Client
        BY <1>1, LenFacts DEF Types
      <4> QED  BY <1>1, <2>2, <4>1, <4>2 DEF Accepts
    <3>3. \A m \in Listener : \A i \in 1 .. Len(backlog'[m]) :
            /\ backlog'[m][i] \in Client /\ backlog'[m][i] # c
            /\ handle[backlog'[m][i]] = 0 /\ tool[backlog'[m][i]] # "start"
      BY <1>1, <3>1, <3>2 DEF Accepts
    <3>4. \A m \in Listener : \A i \in 1 .. Len(backlog'[m]) :
            handle'[backlog'[m][i]] = 0 /\ tool'[backlog'[m][i]] # "start"
      BY <1>2, <2>6, <3>3 DEF process
    <3>5. \A m, n \in Listener :
            \A i \in 1 .. Len(backlog'[m]), j \in 1 .. Len(backlog'[n]) :
              backlog'[m][i] = backlog'[n][j] => m = n /\ i = j
      <4>1. \A m \in Listener : \A i \in 1 .. Len(backlog'[m]) :
              \E k \in 1 .. Len(backlog[m]) : /\ backlog'[m][i] = backlog[m][k]
                                              /\ k = IF m = l THEN i + 1 ELSE i
        BY <3>1
      <4> SUFFICES ASSUME NEW m \in Listener, NEW n \in Listener,
                          NEW i \in 1 .. Len(backlog'[m]), NEW j \in 1 .. Len(backlog'[n]),
                          backlog'[m][i] = backlog'[n][j]
                   PROVE  m = n /\ i = j
        OBVIOUS
      <4>2. PICK k \in 1 .. Len(backlog[m]) : /\ backlog'[m][i] = backlog[m][k]
                                              /\ k = IF m = l THEN i + 1 ELSE i
        BY <4>1
      <4>3. PICK q \in 1 .. Len(backlog[n]) : /\ backlog'[n][j] = backlog[n][q]
                                              /\ q = IF n = l THEN j + 1 ELSE j
        BY <4>1
      <4>4. m = n /\ k = q
        <5>1. backlog[m][k] = backlog[n][q]
          BY <4>2, <4>3
        <5> QED  BY <1>1, <5>1 DEF Accepts
      <4>5. i \in Int /\ j \in Int
        BY <2>9, LenFacts DEF Types
      <4> QED  BY <4>2, <4>3, <4>4, <4>5
    <3>6. \A d \in Client : tool'[d] = "start" => handle'[d] = 0
      BY <1>1, <1>2, <2>4, <2>6 DEF Accepts, process
    <3>7. \A m \in ready' : backlog'[m] # <<>>
      BY <1>1, <2>7, <2>8 DEF Accepts, Types
    <3> QED  BY <3>4, <3>5, <3>6, <3>7 DEF Accepts
  <2>11. thread[c] = "none" /\ Fresh(c)
    BY <1>1, <2>3, <2>4 DEF Handles, Fresh
  <2>12. Handles'
    <3>1. \A g \in Handle : table'[g] # NoClient => handle'[table'[g]] = g
      <4>1. \A g \in Handle \ {h} : table[g] # NoClient => table[g] \in Client \ {c}
        <5>1. \A g \in Handle : g # 0
          BY DEF Handle
        <5> QED  BY <1>1, <2>4, <5>1 DEF Handles, Types
      <4> QED  BY <1>1, <2>5, <2>6, <4>1 DEF Handles
    <3>2. \A d \in Client : thread'[d] # "none" => handle'[d] # 0
      BY <1>1, <1>2, <2>5, <2>6 DEF Handles
    <3>3. OwnSocket'
      <4> SUFFICES ASSUME NEW d \in Client, thread[d] \in {"open", "serve"}
                   PROVE  table'[handle'[d]] = d
        BY <1>2 DEF OwnSocket
      <4>1. table[handle[d]] = d /\ handle[d] \in Handle /\ d # c
        BY <1>1, <2>11 DEF Handles, OwnSocket, Types
      <4>2. handle[d] # h
        BY <2>5, <4>1, ConstantsAssumption
      <4> QED  BY <2>6, <4>1, <4>2
    <3> QED  BY <2>3, <2>5, <2>6, <2>8, <3>1, <3>2, <3>3 DEF Handles
  <2>13. Phase(c)' = "recv_op" /\ Phase(c) = "none" /\ Fresh(c)'
    BY <1>1, <2>8 DEF Phase, Fresh
  <2>14. Connection(c)
    BY <2>3 DEF SessionInv
  <2>15. Users(c)'
    BY <1>2, <2>14 DEF Connection, Users, process
  <2>16. Requested(c)'
    BY <1>2, <2>11, <2>13, <2>14 DEF Connection, Requested, One, Two, process
  <2>17. Replied(c)'
    BY <2>13 DEF Replied
  <2>18. Answered(c)'
    <3>1. down[c] = <<>>
      BY <2>11, <2>14 DEF Connection, Requested
    <3> QED  BY <1>2, <2>11, <2>13, <2>14, <3>1 DEF Connection, Answered, process
  <2>19. Commanded(c)'
    BY <1>2, <2>14 DEF Connection, Commanded, Driven, process
  <2>20. \A d \in Client \ {c} : Same(d)
    BY <1>1, <1>2, <2>6, <2>8 DEF Same, Phase, process
  <2> QED  BY <1>2, <2>3, <2>9, <2>10, <2>12, <2>15, <2>16, <2>17, <2>18, <2>19, <2>20,
              Assemble DEF Connection
<1> QED  BY <1>3, <1>4
-----------------------------------------------------------------------------
(* The threads of a connection.                                             *)

\* A step of the thread of c, of which the stream of c is all that others see.
LEMMA ThreadMoves ==
  ASSUME SessionInv, NEW c \in Client,
         UNCHANGED <<scenario, process, loop, shut, broken, used>>,
         up' \in Streams, down' \in Streams,
         thread' \in [Client -> {"none", "open", "serve", "ended"}],
         \A d \in Client \ {c} :
           up'[d] = up[d] /\ down'[d] = down[d] /\ thread'[d] = thread[d],
         thread[c] \in {"open", "serve"}, thread'[c] # "none",
         Connection(c)'
  PROVE  SessionInv'
<1>1. Types /\ Accepts /\ Handles /\ Connection(c)
  BY DEF SessionInv
<1>2. Types'
  BY <1>1 DEF Types, Streams, process, loop
<1>3. Accepts'
  <2>1. handle' = handle /\ tool' = tool /\ backlog' = backlog /\ ready' = ready
    BY DEF process, loop
  <2> QED  BY <1>1, <2>1 DEF Accepts
<1>4. Handles'
  <2>1. /\ server' = server /\ serving' = serving /\ table' = table /\ handle' = handle
    BY DEF loop
  <2>2. \A d \in Client : thread'[d] # "none" => thread[d] # "none"
    OBVIOUS
  <2>3. OwnSocket'
    BY <1>1, <2>1 DEF Handles, OwnSocket
  <2>4. server = "close" => thread'[serving] \notin {"open", "serve"}
    BY <1>1 DEF Handles
  <2> QED  BY <1>1, <2>1, <2>2, <2>3, <2>4 DEF Handles
<1>5. \A d \in Client \ {c} : Same(d)
  BY DEF Same, Phase, process, loop
<1> QED  BY <1>2, <1>3, <1>4, <1>5, Assemble

\* What a connection that is served is like.
LEMMA ServedFacts ==
  ASSUME SessionInv, NEW c \in Client, thread[c] \in {"open", "serve"}
  PROVE  /\ table[handle[c]] = c /\ scenario.op[c] = "attach" /\ ~Fresh(c)
         /\ Phase(c) \notin {"recv_import", "export", "reply_list"}
         /\ Types /\ Connection(c)
<1>1. Types /\ Handles /\ Connection(c)
  BY DEF SessionInv
<1>2. table[handle[c]] = c
  BY <1>1 DEF Handles, OwnSocket
<1> QED  BY <1>1, <1>2 DEF Connection, Users, Requested

LEMMA ThreadsStep ==
  ASSUME SessionInv, NEW c \in Client, Threads(c)
  PROVE  SessionInv'
<1>1. Types /\ Connection(c)
  BY DEF SessionInv
<1>2. ASSUME thread[c] \in {"open", "serve"},
             NEW s \in {"serve", "ended"}, thread' = [thread EXCEPT ![c] = s],
             UNCHANGED <<scenario, process, loop, net, used>>
      PROVE  SessionInv'
  <2>1. /\ thread' \in [Client -> {"none", "open", "serve", "ended"}] /\ thread'[c] = s
        /\ \A d \in Client \ {c} : thread'[d] = thread[d]
    BY <1>1, <1>2 DEF Types
  <2>2. Phase(c)' = Phase(c) /\ Fresh(c)' = Fresh(c)
    BY <1>2 DEF Phase, Fresh, loop
  <2>3. /\ scenario.op[c] = "attach" /\ ~Fresh(c)
        /\ Phase(c) \notin {"recv_import", "export", "reply_list"}
    BY <1>2, ServedFacts
  <2>4. Users(c)' /\ Replied(c)' /\ Answered(c)' /\ Commanded(c)'
    <3>1. Users(c)'
      BY <1>1, <1>2, <2>3 DEF Connection, Users, process, net
    <3>2. Replied(c)'
      BY <1>1, <1>2, <2>2 DEF Connection, Replied, One, process, net
    <3>3. Answered(c)'
      BY <1>1, <1>2, <2>2 DEF Connection, Answered, One, Two, process, net
    <3>4. Commanded(c)'
      BY <1>1, <1>2 DEF Connection, Commanded, Driven, process, net
    <3> QED  BY <3>1, <3>2, <3>3, <3>4
  <2>5. Requested(c)'
    BY <1>1, <1>2, <2>2, <2>3 DEF Connection, Requested, process, net
  <2> QED  BY <1>1, <1>2, <2>1, <2>4, <2>5, ThreadMoves DEF Connection, Types, Streams, net
<1>3. CASE OpenStubDev(c)
  <2>1. \E s \in {"serve", "ended"} : thread' = [thread EXCEPT ![c] = s]
    BY <1>3 DEF OpenStubDev
  <2> QED  BY <1>2, <1>3, <2>1 DEF OpenStubDev
<1>4. CASE ThreadEnds(c)
  BY <1>2, <1>4 DEF ThreadEnds
<1>5. CASE Serve(c)
  <2>1. /\ thread[c] = "serve" /\ table[handle[c]] = c
        /\ scenario.op[c] = "attach" /\ ~Fresh(c)
        /\ Phase(c) \notin {"recv_import", "export", "reply_list"}
    BY <1>5, ServedFacts DEF Serve
  <2>2. /\ up[c] # <<>> /\ up' = [up EXCEPT ![c] = Tail(@)]
        /\ \/ Down(c, <<<<"ret", Head(up[c])[2]>>, <<"data", Head(up[c])[2]>>>>)
           \/ Down(c, <<<<"err", Head(up[c])[2]>>>>)
        /\ UNCHANGED <<scenario, process, loop, thread, shut, broken, used>>
    BY <1>5, <2>1 DEF Serve
  <2>3. /\ up' \in Streams /\ \A d \in Client \ {c} : up'[d] = up[d]
        /\ Head(up[c]) = up[c][1] /\ up[c][1] \in Message /\ Shorter(up'[c], up[c])
    BY <1>1, <2>2, TakenUpEffect
  <2>4. PICK q \in Argument : q = Head(up[c])[2]
    BY <2>3 DEF Message
  <2> DEFINE ms2 == <<<<"ret", q>>, <<"data", q>>>>
             ms1 == <<<<"err", q>>>>
  <2>5. /\ ms1 \in Seq(Message) /\ Len(ms1) = 1 /\ ms1[1] = <<"err", q>>
        /\ ms2 \in Seq(Message) /\ Len(ms2) = 2
        /\ ms2[1] = <<"ret", q>> /\ ms2[2] = <<"data", q>>
    BY DEF Message, Tag
  <2>6. Down(c, ms1) \/ Down(c, ms2)
    BY <2>2, <2>4
  <2> HIDE DEF ms1, ms2
  <2>7. PICK ms \in {ms1, ms2} : Down(c, ms)
    BY <2>6
  <2>8. /\ ms \in Seq(Message) /\ Len(ms) \in {1, 2}
        /\ \A i \in 1 .. Len(ms) : ms[i][2] = q
        /\ \/ Len(ms) = 1 /\ ms[1][1] = "err"
           \/ Len(ms) = 2 /\ ms[1][1] = "ret" /\ ms[2][1] = "data"
    <3>1. CASE ms = ms1
      BY <2>5, <3>1
    <3>2. CASE ms = ms2
      BY SMTT(30), <2>5, <3>2
    <3> QED  BY <3>1, <3>2
  <2>9. /\ down' \in Streams /\ \A d \in Client \ {c} : down'[d] = down[d]
        /\ ClientGone(c) => down'[c] = down[c]
        /\ ~ClientGone(c) =>
             /\ Len(down'[c]) = Len(down[c]) + Len(ms)
             /\ \A i \in 1 .. Len(down[c]) : down'[c][i] = down[c][i]
             /\ \A i \in 1 .. Len(ms) : down'[c][Len(down[c]) + i] = ms[i]
    BY <1>1, <2>7, <2>8, DownEffect
  <2>10. Phase(c)' = Phase(c) /\ Fresh(c)' = Fresh(c)
    BY <2>2 DEF Phase, Fresh, loop
  <2>11. ~broken[c]
    BY <1>1, <2>2 DEF Connection, Users
  <2>12. tool[c] \notin {"op", "import", "rep_op", "rep_udev", "fetch", "data", "rep_list",
                        "ndev", "devs"}
    BY <1>1, <2>1, <2>2, <2>11 DEF Connection, Users, Requested, Answered
  <2>13. Phase(c) \notin {"reply_op", "reply_udev"}
    BY <1>1, <2>2 DEF Connection, Replied
  <2>14. Users(c)'
    BY <1>1, <2>2, <2>11 DEF Connection, Users, process
  <2>15. Requested(c)'
    BY <2>1, <2>2, <2>10, <2>12 DEF Requested, process
  <2>16. Replied(c)'
    BY <2>1, <2>10, <2>13 DEF Replied
  <2>17. Answered(c)'
    <3>1. CASE tool[c] = "ret"
      <4>1. down[c] = <<>> /\ Len(up[c]) = 1 /\ "tool" \in sock[c]
        BY <1>1, <2>2, <3>1 DEF Connection, Answered, Users
      <4>2. up'[c] = <<>> /\ ~ClientGone(c) /\ Len(down[c]) = 0
        BY <2>3, <2>11, <4>1 DEF Shorter, ClientGone
      <4>3. /\ Len(down'[c]) = Len(ms)
            /\ \A i \in 1 .. Len(ms) : down'[c][i] = ms[i]
        BY <2>8, <2>9, <4>2
      <4>4. Two(down'[c], "ret", "data") \/ One(down'[c], "err")
        BY <2>8, <4>3 DEF One, Two
      <4> QED  BY <2>2, <3>1, <4>2, <4>4 DEF Answered, process
    <3>2. CASE tool[c] # "ret"
      BY <2>2, <2>12, <3>2 DEF Answered, process
    <3> QED  BY <3>1, <3>2
  <2>18. Commanded(c)'
    <3>1. ASSUME Driven(c)
          PROVE  Driven(c)'
      <4>1. q \in DriverSeqs /\ \A i \in 1 .. Len(up'[c]) : up'[c][i][2] \in DriverSeqs
        <5>1. q = up[c][1][2] /\ 1 \in 1 .. Len(up[c])
          BY <2>3, <2>4 DEF Shorter
        <5>2. \A i \in 1 .. Len(up'[c]) : /\ up'[c][i] = up[c][i + 1]
                                           /\ i + 1 \in 1 .. Len(up[c])
          BY <2>3 DEF Shorter
        <5> QED  BY <3>1, <5>1, <5>2 DEF Driven
      <4>2. CASE ClientGone(c)
        BY <2>9, <3>1, <4>1, <4>2 DEF Driven
      <4>3. CASE ~ClientGone(c)
        <5>1. Len(down[c]) \in Nat
          BY <1>1, LenFacts DEF Types
        <5>2. ASSUME NEW i \in 1 .. Len(down'[c])
              PROVE  down'[c][i][2] \in DriverSeqs
          <6>1. CASE i \in 1 .. Len(down[c])
            BY <2>9, <3>1, <4>3, <6>1 DEF Driven
          <6>2. CASE i \notin 1 .. Len(down[c])
            <7>1. i - Len(down[c]) \in 1 .. Len(ms) /\ Len(down[c]) + (i - Len(down[c])) = i
              BY <2>8, <2>9, <4>3, <5>1, <6>2
            <7>2. down'[c][i] = ms[i - Len(down[c])]
              BY <2>9, <4>3, <7>1
            <7>3. ms[i - Len(down[c])][2] = q
              BY <2>8, <7>1
            <7> QED  BY <4>1, <7>2, <7>3
          <6> QED  BY <6>1, <6>2
        <5> QED  BY <4>1, <5>2 DEF Driven
      <4> QED  BY <4>2, <4>3
    <3> QED  BY <1>1, <2>2, <2>12, <3>1 DEF Connection, Commanded, process
  <2> QED  BY <1>1, <2>1, <2>2, <2>3, <2>9, <2>14, <2>15, <2>16, <2>17, <2>18, ThreadMoves
           DEF Connection, Types
<1> QED  BY <1>3, <1>4, <1>5 DEF Threads
-----------------------------------------------------------------------------
(* The invariant, and what it says.                                         *)

LEMMA InitHolds == NoVanish /\ Init => SessionInv
<1> SUFFICES ASSUME NoVanish, Init
             PROVE  SessionInv
  OBVIOUS
<1>1. Types
  BY DEF Init, Types, ToolStep, ServerStep, AttacherStep, Op
<1>2. Accepts
  BY DEF Init, Accepts
<1>3. Handles
  BY DEF Init, Handles, OwnSocket
<1>4. ASSUME NEW c \in Client
      PROVE  Connection(c)
  <2>1. Fresh(c) /\ Phase(c) = "none" /\ tool[c] \in {"start", "exit"}
    BY DEF Init, Fresh, Phase
  <2>2. Users(c)
    BY <2>1 DEF Init, Users
  <2>3. Requested(c)
    BY <2>1 DEF Init, Requested
  <2>4. Replied(c) /\ Answered(c) /\ Commanded(c)
    BY <2>1 DEF Init, Replied, Answered, Commanded
  <2> QED  BY <2>2, <2>3, <2>4 DEF Connection
<1> QED  BY <1>1, <1>2, <1>3, <1>4 DEF SessionInv

LEMMA StutterKeeps ==
  ASSUME SessionInv, UNCHANGED vars
  PROVE  SessionInv'
<1>1. /\ UNCHANGED <<scenario, process, loop, thread, up, down, shut, broken, used>>
  BY DEF vars, net
<1>2. Types' /\ Accepts' /\ Handles'
  BY <1>1 DEF SessionInv, Types, Accepts, Handles, OwnSocket, process, loop
<1>3. \A d \in Client : Same(d)
  BY <1>1 DEF Same, Phase, process, loop
<1>4. \A d \in Client : Connection(d)'
  BY <1>1, <1>3, Frame DEF SessionInv
<1> QED  BY <1>1, <1>2, <1>4 DEF SessionInv, NoVanish

LEMMA NextKeeps == SessionInv /\ [Next]_vars => SessionInv'
<1> SUFFICES ASSUME SessionInv, [Next]_vars
             PROVE  SessionInv'
  OBVIOUS
<1>1. CASE Server
  BY <1>1, SelectStep, AcceptStep, RecvOpStep, RecvImportStep, ExportStep, ReplyImportStep,
     ReplyListStep, CloseSocketStep DEF Server
<1>2. CASE \E c \in Client : Tool(c) \/ Attacher(c) \/ Threads(c) \/ Crash(c) \/ Reset(c)
  BY <1>2, ToolStepKeeps, AttacherStepKeeps, ThreadsStep, CrashStep, ResetStep
<1>3. CASE UNCHANGED vars
  BY <1>3, StutterKeeps
<1> QED  BY <1>1, <1>2, <1>3 DEF Next

LEMMA InvImpliesInStep == SessionInv => StreamInStep
<1> SUFFICES ASSUME SessionInv, NEW c \in Client
             PROVE  /\ (down[c] # <<>> /\ Awaited(tool[c]) # {})
                         => Head(down[c])[1] \in Awaited(tool[c])
                    /\ attacher[c] = "forward"
                         => \A i \in 1 .. Len(down[c]) :
                              \E n \in 1 .. MaxCmds : down[c][i][2] = DriverSeq(n)
  BY DEF StreamInStep
<1>1. Types /\ Connection(c)
  BY DEF SessionInv
<1>2. ASSUME down[c] # <<>>, Awaited(tool[c]) # {}
      PROVE  Head(down[c])[1] \in Awaited(tool[c])
  <2>1. Head(down[c]) = down[c][1] /\ Len(down[c]) \in Nat /\ Len(down[c]) > 0
    BY <1>1, <1>2, TailFacts DEF Types
  <2>2. tool[c] \in {"rep_op", "rep_udev", "ret", "data", "rep_list", "ndev", "devs"}
    BY <1>2 DEF Awaited
  <2>3. CASE tool[c] \in {"rep_op", "rep_udev"}
    BY <1>1, <1>2, <2>1, <2>3 DEF Connection, Answered, One, Two, Awaited
  <2>4. CASE tool[c] \in {"ret", "data"}
    BY <1>1, <1>2, <2>1, <2>4 DEF Connection, Answered, One, Two, Awaited
  <2>5. CASE tool[c] \in {"rep_list", "ndev", "devs"}
    BY <1>1, <1>2, <2>1, <2>5 DEF Connection, Answered, Awaited
  <2> QED  BY <2>2, <2>3, <2>4, <2>5
<1>3. ASSUME attacher[c] = "forward", NEW i \in 1 .. Len(down[c])
      PROVE  \E n \in 1 .. MaxCmds : down[c][i][2] = DriverSeq(n)
  BY <1>1, <1>3 DEF Connection, Commanded, Driven, DriverSeqs
<1> QED  BY <1>2, <1>3

\* As long as no client is lost during the server's reply to its import, a tool
\* takes no message for another, and an attacher finds nothing on its connection
\* but answers to the driver's commands.
THEOREM NothingMistaken == NoVanish /\ Spec => []StreamInStep
  BY InitHolds, NextKeeps, InvImpliesInStep, PTL DEF Spec
=============================================================================
