----------------------------- MODULE PoolProofs -----------------------------
(***************************************************************************)
(* Proofs about the threads of Pool, for any number of connections, any    *)
(* commands of their clients and any length of a header.                   *)
(***************************************************************************)
EXTENDS Pool, SequenceTheorems, TLAPS

\* The commands of a client c that sends commands of the kinds ks.
CmdLen(ks, n) == HdrLen + PayloadLen(TRUE, ks[n]) + get_iso_len(ks[n])
Command(c, ks, n) == [i \in 1 .. CmdLen(ks, n) |-> <<c, n, i>>]

\* What every buffer is like ...
Sound(b) ==
  /\ b.step = 3 => Len(b.data) >= HdrLen
  /\ Len(b.data) <= HdrLen + 2
  /\ b.off <= Len(b.data)

\* ... and a devbuf that r is being read into.
Shaped(q, r) ==
  /\ q \in Seq(Buffer) /\ q # <<>>
  /\ \A i \in 1 .. Len(q) : Sound(q[i])
  /\ Len(Last(q).data) + r <= HdrLen + 2

\* A consumer that waits serves a connection.
WaitsAt == \A k \in Conn : consumer[k] = "wait" => at[k] # NoConn

TypeInv ==
  /\ TypeOK /\ WaitsAt
  /\ \A x \in Conn \X Side : Shaped(bufs[x], in_reading[x])
  /\ \A c \in Conn : sent[c] <= Len(scenario.kinds[c])
-----------------------------------------------------------------------------
(* The stream of commands of a connection.                                  *)

\* The units of a stream belong to commands 1 to m, those of one command follow
\* one another, and the next command begins behind its end.
Units(c, ks, st, m) ==
  \A k \in 1 .. Len(st) : \E a \in 1 .. m : \E i \in 1 .. CmdLen(ks, a) :
    st[k] = <<c, a, i>>
Runs(c, ks, st, m) ==
  \A a \in 1 .. m : \A i \in 1 .. CmdLen(ks, a) : \A j, k \in 1 .. Len(st) :
    st[k] = <<c, a, i>> /\ i + j - k \in 1 .. CmdLen(ks, a) => st[j] = <<c, a, i + j - k>>
Follows(c, ks, st, m) ==
  \A a \in 1 .. m : \A k \in 1 .. Len(st) - 1 :
    st[k] = <<c, a, CmdLen(ks, a)>> => st[k + 1] = <<c, a + 1, 1>>

\* The units st are what is left of a client's commands from the start of
\* command n to the end of its command m.
Stream(c, ks, st, n, m) ==
  /\ st = <<>> => n = m + 1
  /\ st # <<>> => st[1] = <<c, n, 1>> /\ st[Len(st)] = <<c, m, CmdLen(ks, m)>>
  /\ Units(c, ks, st, m) /\ Runs(c, ks, st, m) /\ Follows(c, ks, st, m)

\* The buffers q of a socket, of which r units are being read and bufc is being
\* written if w; the units v are under way behind them, the client has sent m
\* commands and the messages f are written to the stub.

\* The number of the command before the one in bufc.
Base(q, f) == IF Head(q).off = 0 THEN Len(f) ELSE Len(f) - 1

\* The number of the command in bufp.
Filling(q, f) == Base(q, f) + Len(q)

\* Buffers hold one command each, in order, and only bufc is ever written.
OneEach(c, ks, q, m, f) ==
  \A i \in 1 .. Len(q) :
    /\ i < Len(q) => q[i].step = 3
    /\ q[i].step = 3 => /\ Base(q, f) + i <= m
                        /\ q[i].data = Command(c, ks, Base(q, f) + i)
    /\ q[i].off # 0 => i = 1 /\ q[i].step = 3 /\ q[i].off = Len(q[i].data)

\* bufp and what is under way behind it are the rest of what was sent.
Rest(c, ks, q, v, m, f) ==
  /\ Base(q, f) \in Nat
  /\ Last(q).data # <<>> => Len(Last(q).data) <= CmdLen(ks, Filling(q, f))
  /\ Stream(c, ks, Last(q).data \o v, Filling(q, f), m)

\* What a read asks for ends with the header or with the command.
ReadsOne(ks, q, r, f) ==
  r > 0 =>
    /\ Last(q).step \in {1, 2}
    /\ r = (IF Len(Last(q).data) < HdrLen THEN HdrLen ELSE CmdLen(ks, Filling(q, f)))
              - Len(Last(q).data)

Forwarded(c, ks, m, f) ==
  \A i \in 1 .. Len(f) : i <= m /\ f[i] = Command(c, ks, i)

\* What is being written stays in bufc.
Sock(c, ks, q, r, w, v, m, f) ==
  /\ OneEach(c, ks, q, m, f)
  /\ Rest(c, ks, q, v, m, f)
  /\ ReadsOne(ks, q, r, f)
  /\ w => Unwritten(Head(q))
  /\ Forwarded(c, ks, m, f)

SockInv(c) ==
  Sock(c, scenario.kinds[c], bufs[<<c, "sock">>], in_reading[<<c, "sock">>],
       in_writing[<<c, "dev">>], wire[c], sent[c], forwarded[c])
-----------------------------------------------------------------------------
(* Buffers as sequences.                                                    *)

\* The last element replaced.
LEMMA LastReplaced ==
  ASSUME NEW q \in Seq(Buffer), q # <<>>, NEW b \in Buffer,
         NEW p, p = [q EXCEPT ![Len(q)] = b]
  PROVE  /\ p \in Seq(Buffer) /\ p # <<>> /\ Len(p) = Len(q) /\ Len(q) \in Nat \ {0}
         /\ \A i \in 1 .. Len(q) : p[i] = IF i = Len(q) THEN b ELSE q[i]
         /\ Last(p) = b
         /\ Head(p) = IF Len(q) = 1 THEN b ELSE Head(q)
<1>1. Len(q) \in Nat \ {0} /\ Len(q) \in 1 .. Len(q)
  BY EmptySeq
<1>2. /\ p \in Seq(Buffer) /\ Len(p) = Len(q)
      /\ \A i \in 1 .. Len(q) : p[i] = IF i = Len(q) THEN b ELSE q[i]
  BY <1>1, ExceptSeq
<1>3. p # <<>> /\ Head(p) = p[1] /\ Head(q) = q[1]
  BY <1>1, <1>2
<1> QED  BY <1>1, <1>2, <1>3 DEF Last

\* The first element changed.
LEMMA FirstReplaced ==
  ASSUME NEW S, NEW q \in Seq(S), q # <<>>, NEW b \in S,
         NEW p, p = [q EXCEPT ![1] = b]
  PROVE  /\ p \in Seq(S) /\ p # <<>> /\ Len(p) = Len(q) /\ Len(q) \in Nat \ {0}
         /\ \A i \in 1 .. Len(q) : p[i] = IF i = 1 THEN b ELSE q[i]
         /\ Last(p) = IF Len(q) = 1 THEN b ELSE Last(q)
         /\ Head(p) = b
<1>1. Len(q) \in Nat \ {0} /\ 1 \in 1 .. Len(q)
  BY EmptySeq
<1>2. /\ p \in Seq(S) /\ Len(p) = Len(q)
      /\ \A i \in 1 .. Len(q) : p[i] = IF i = 1 THEN b ELSE q[i]
  BY <1>1, ExceptSeq
<1>3. p # <<>> /\ Head(p) = p[1]
  BY <1>1, <1>2
<1> QED  BY <1>1, <1>2, <1>3 DEF Last

\* An element at the end.
LEMMA Longer ==
  ASSUME NEW q \in Seq(Buffer), q # <<>>, NEW b \in Buffer,
         NEW p, p = Append(q, b)
  PROVE  /\ p \in Seq(Buffer) /\ p # <<>> /\ Len(p) = Len(q) + 1 /\ Len(q) \in Nat \ {0}
         /\ \A i \in 1 .. Len(p) : p[i] = IF i = Len(p) THEN b ELSE q[i]
         /\ Last(p) = b /\ Head(p) = Head(q)
<1>1. Len(q) \in Nat \ {0}
  BY EmptySeq
<1>2. /\ p \in Seq(Buffer) /\ p # <<>> /\ Len(p) = Len(q) + 1
      /\ \A i \in 1 .. Len(q) : p[i] = q[i]
      /\ p[Len(q) + 1] = b
  BY <1>1, AppendProperties
<1>3. Head(p) = p[1] /\ Head(q) = q[1]
  BY <1>1, <1>2
<1> QED  BY <1>1, <1>2, <1>3 DEF Last

\* The first element dropped.
LEMMA Shorter ==
  ASSUME NEW S, NEW q \in Seq(S), Len(q) > 1, NEW p, p = Tail(q)
  PROVE  /\ p \in Seq(S) /\ p # <<>> /\ Len(p) = Len(q) - 1 /\ Len(q) \in Nat \ {0}
         /\ \A i \in 1 .. Len(p) : p[i] = q[i + 1]
         /\ Last(p) = Last(q) /\ Head(p) = q[2]
<1>1. Len(q) \in Nat \ {0} /\ q # <<>>
  BY EmptySeq
<1>2. /\ p \in Seq(S) /\ Len(p) = Len(q) - 1
      /\ \A i \in 1 .. Len(p) : p[i] = q[i + 1]
  BY <1>1, HeadTailProperties
<1>3. p # <<>> /\ Head(p) = p[1] /\ p[1] = q[2]
  BY SMTT(30), <1>1, <1>2
<1>4. p[Len(p)] = q[Len(q)]
  <2>1. Len(p) \in 1 .. Len(p) /\ Len(p) + 1 = Len(q)
    BY <1>1, <1>2
  <2> QED  BY <1>2, <2>1
<1> QED  BY <1>1, <1>2, <1>3, <1>4 DEF Last
-----------------------------------------------------------------------------
(* Messages and streams of commands.                                        *)

LEMMA Lengths ==
  /\ HdrLen \in Nat /\ HdrLen > 0
  /\ \A ks, n : CmdLen(ks, n) \in Nat /\ CmdLen(ks, n) > 0
  /\ \A ks, n : HdrLen <= CmdLen(ks, n) /\ CmdLen(ks, n) <= HdrLen + 2
<1>1. \A k : PayloadLen(TRUE, k) \in {0, 1} /\ get_iso_len(k) \in {0, 1}
  BY DEF PayloadLen, get_iso_len
<1>2. ASSUME NEW x \in {0, 1}, NEW y \in {0, 1}
      PROVE  /\ HdrLen + x + y \in Nat /\ HdrLen + x + y > 0
             /\ HdrLen <= HdrLen + x + y /\ HdrLen + x + y <= HdrLen + 2
  BY ConstantsAssumption
<1>3. ASSUME NEW ks, NEW n
      PROVE  /\ CmdLen(ks, n) \in Nat /\ CmdLen(ks, n) > 0
             /\ HdrLen <= CmdLen(ks, n) /\ CmdLen(ks, n) <= HdrLen + 2
  <2> DEFINE x == PayloadLen(TRUE, ks[n])
             y == get_iso_len(ks[n])
  <2>1. x \in {0, 1} /\ y \in {0, 1}
    BY <1>1, Zenon
  <2>2. CmdLen(ks, n) = HdrLen + x + y
    BY DEF CmdLen
  <2> HIDE DEF x, y
  <2> QED  BY <1>2, <2>1, <2>2
<1>4. HdrLen \in Nat /\ HdrLen > 0
  BY ConstantsAssumption
<1> QED  BY <1>3, <1>4

LEMMA Commands ==
  ASSUME NEW c, NEW ks, NEW n
  PROVE  /\ Command(c, ks, n) \in Seq({c} \X {n} \X Nat)
         /\ Len(Command(c, ks, n)) = CmdLen(ks, n)
         /\ \A i \in 1 .. CmdLen(ks, n) : Command(c, ks, n)[i] = <<c, n, i>>
<1>1. CmdLen(ks, n) \in Nat
  BY Lengths
<1>2. Command(c, ks, n) = [i \in 1 .. CmdLen(ks, n) |-> <<c, n, i>>]
  BY DEF Command, CmdLen
<1> QED  BY <1>1, <1>2

\* The next command behind the stream.
LEMMA StreamGrows ==
  ASSUME NEW c, NEW ks, NEW m \in Nat, NEW n \in Nat, NEW S,
         NEW st \in Seq(S), Stream(c, ks, st, n, m)
  PROVE  Stream(c, ks, st \o Command(c, ks, m + 1), n, m + 1)
<1> DEFINE msg == Command(c, ks, m + 1)
           L == CmdLen(ks, m + 1)
           T == S \cup ({c} \X {m + 1} \X Nat)
           p == st \o msg
<1>1. /\ msg \in Seq(T) /\ st \in Seq(T)
      /\ Len(msg) = L /\ L \in Nat /\ L > 0
      /\ \A i \in 1 .. L : msg[i] = <<c, m + 1, i>>
  <2>1. /\ msg \in Seq({c} \X {m + 1} \X Nat) /\ Len(msg) = L
        /\ \A i \in 1 .. L : msg[i] = <<c, m + 1, i>>
    BY Commands
  <2>2. L \in Nat /\ L > 0
    BY Lengths
  <2>3. {c} \X {m + 1} \X Nat \subseteq T /\ S \subseteq T
    OBVIOUS
  <2>4. msg \in Seq(T) /\ st \in Seq(T)
    <3> HIDE DEF msg, T
    <3> QED  BY <2>1, <2>3, SeqMonotonic
  <2> QED  BY <2>1, <2>2, <2>4
<1>2. Len(st) \in Nat
  BY EmptySeq
<1>3. /\ Len(p) = Len(st) + L /\ p # <<>>
      /\ \A i \in 1 .. Len(st) : p[i] = st[i]
      /\ \A i \in 1 .. Len(p) : i > Len(st) => p[i] = <<c, m + 1, i - Len(st)>>
  <2> HIDE DEF msg, L, T
  <2>1. /\ p \in Seq(T) /\ Len(p) = Len(st) + L
        /\ \A i \in 1 .. Len(st) + L : p[i] = IF i <= Len(st) THEN st[i] ELSE msg[i - Len(st)]
    BY <1>1, <1>2, ConcatProperties
  <2>2. p # <<>>
    BY <1>1, <1>2, <2>1
  <2>3. \A i \in 1 .. Len(p) : i > Len(st) => i - Len(st) \in 1 .. L
    BY <1>1, <1>2, <2>1
  <2>4. \A i \in 1 .. Len(p) : i > Len(st) => p[i] = <<c, m + 1, i - Len(st)>>
    BY <1>1, <1>2, <2>1, <2>3
  <2> QED  BY <1>1, <1>2, <2>1, <2>2, <2>4
<1> HIDE DEF msg, L, T, p
<1>4. p[1] = <<c, n, 1>>
  <2>1. CASE st = <<>>
    BY <1>1, <1>2, <1>3, <2>1 DEF Stream
  <2>2. CASE st # <<>>
    <3>1. 1 \in 1 .. Len(st)
      BY <2>2, EmptySeq
    <3> QED  BY <1>3, <2>2, <3>1 DEF Stream
  <2> QED  BY <2>1, <2>2
<1>5. p[Len(p)] = <<c, m + 1, L>>
  BY <1>1, <1>2, <1>3
<1>6. Len(p) \in Nat /\ m + 1 \in Nat /\ m \in 1 .. m + 1 \cup {0}
  BY <1>1, <1>2, <1>3
<1>7. Units(c, ks, p, m + 1)
  <2> SUFFICES ASSUME NEW k \in 1 .. Len(p)
               PROVE  \E a \in 1 .. m + 1 : \E i \in 1 .. CmdLen(ks, a) : p[k] = <<c, a, i>>
    BY DEF Units
  <2>1. CASE k <= Len(st)
    <3>1. k \in 1 .. Len(st)
      BY <1>2, <2>1
    <3>2. PICK a \in 1 .. m : \E i \in 1 .. CmdLen(ks, a) : st[k] = <<c, a, i>>
      BY <3>1 DEF Stream, Units
    <3>3. a \in 1 .. m + 1
      OBVIOUS
    <3> QED  BY <1>3, <3>1, <3>2, <3>3
  <2>2. CASE k > Len(st)
    <3>1. k - Len(st) \in 1 .. L /\ m + 1 \in 1 .. m + 1
      BY <1>1, <1>2, <1>3, <2>2
    <3>2. p[k] = <<c, m + 1, k - Len(st)>>
      BY <1>3, <2>2
    <3> QED  BY <3>1, <3>2 DEF L
  <2>3. k <= Len(st) \/ k > Len(st)
    BY <1>2, <1>6
  <2> QED  BY <2>1, <2>2, <2>3
\* No command before is continued behind st.
<1>8. ASSUME NEW a \in 1 .. m, NEW i \in 1 .. CmdLen(ks, a), NEW k \in 1 .. Len(st),
             st[k] = <<c, a, i>>
      PROVE  /\ i + Len(st) - k >= CmdLen(ks, a)
             /\ k = Len(st) => a = m
  <2>1. st[Len(st)] = <<c, m, CmdLen(ks, m)>> /\ Len(st) \in 1 .. Len(st)
    <3>1. Len(st) \in 1 .. Len(st)
      BY <1>2
    <3>2. st # <<>>
      BY <3>1
    <3> QED  BY <3>1, <3>2 DEF Stream
  <2>2. CmdLen(ks, a) \in Nat /\ i \in Int /\ k \in Int
    BY <1>2, Lengths
  <2>3. CASE i + Len(st) - k \in 1 .. CmdLen(ks, a)
    <3>1. st[Len(st)] = <<c, a, i + Len(st) - k>>
      BY <1>8, <2>1, <2>3 DEF Stream, Runs
    <3>2. a = m /\ i + Len(st) - k = CmdLen(ks, a)
      BY <2>1, <3>1
    <3> QED  BY <1>2, <2>2, <3>2
  <2>4. CASE i + Len(st) - k \notin 1 .. CmdLen(ks, a)
    <3>1. i + Len(st) - k \in Nat /\ i + Len(st) - k >= 1
      BY <1>2, <2>2
    <3>2. k = Len(st) => i + Len(st) - k = i
      BY <1>2, <2>2
    <3>3. i + Len(st) - k > CmdLen(ks, a)
      BY <2>2, <2>4, <3>1
    <3>4. k # Len(st)
      BY <2>2, <2>4, <3>2
    <3> QED  BY <1>2, <2>2, <3>3, <3>4
  <2> QED  BY <2>3, <2>4
<1>9. Runs(c, ks, p, m + 1)
  <2> SUFFICES ASSUME NEW a \in 1 .. m + 1, NEW i \in 1 .. CmdLen(ks, a),
                      NEW j \in 1 .. Len(p), NEW k \in 1 .. Len(p), p[k] = <<c, a, i>>,
                      i + j - k \in 1 .. CmdLen(ks, a)
               PROVE  p[j] = <<c, a, i + j - k>>
    BY DEF Runs
  <2>1. CmdLen(ks, a) \in Nat /\ i \in Int /\ j \in Int /\ k \in Int
    BY <1>6, Lengths
  <2>2. CASE k <= Len(st)
    <3>1. k \in 1 .. Len(st) /\ st[k] = <<c, a, i>>
      BY SMTT(30), <1>2, <1>3, <2>2
    <3>2. a \in 1 .. m
      <4>1. PICK d \in 1 .. m : \E e \in 1 .. CmdLen(ks, d) : st[k] = <<c, d, e>>
        BY <3>1 DEF Stream, Units
      <4> QED  BY <3>1, <4>1
    <3>3. i + Len(st) - k >= CmdLen(ks, a)
      BY <1>8, <3>1, <3>2
    <3>4. j \in 1 .. Len(st)
      <4>1. i + j - k <= CmdLen(ks, a)
        BY <2>1
      <4> QED  BY SMTT(30), <1>2, <2>1, <3>3, <4>1
    <3>5. st[j] = <<c, a, i + j - k>>
      BY <3>1, <3>2, <3>4 DEF Stream, Runs
    <3> QED  BY <1>3, <3>4, <3>5
  <2>3. CASE k > Len(st)
    <3>1. p[k] = <<c, m + 1, k - Len(st)>>
      BY <1>3, <2>3
    <3>2. a = m + 1 /\ i = k - Len(st)
      BY <3>1
    <3>3. j > Len(st) /\ i + j - k = j - Len(st)
      BY <1>2, <2>1, <3>2
    <3> QED  BY <1>3, <3>2, <3>3
  <2> QED  BY <1>2, <1>6, <2>2, <2>3
<1>10. Follows(c, ks, p, m + 1)
  <2> SUFFICES ASSUME NEW a \in 1 .. m + 1, NEW k \in 1 .. Len(p) - 1,
                      p[k] = <<c, a, CmdLen(ks, a)>>
               PROVE  p[k + 1] = <<c, a + 1, 1>>
    BY DEF Follows
  <2>1. k \in 1 .. Len(p) /\ k + 1 \in 1 .. Len(p)
    BY <1>6
  <2>2. CASE k <= Len(st)
    <3>1. k \in 1 .. Len(st) /\ st[k] = <<c, a, CmdLen(ks, a)>>
      <4>1. k \in 1 .. Len(st)
        BY <1>2, <2>1, <2>2
      <4> QED  BY <1>3, <4>1
    <3>2. a \in 1 .. m
      <4>1. PICK d \in 1 .. m : \E e \in 1 .. CmdLen(ks, d) : st[k] = <<c, d, e>>
        BY <3>1 DEF Stream, Units
      <4> QED  BY <3>1, <4>1
    <3>3. CASE k < Len(st)
      <4>1. k \in 1 .. Len(st) - 1 /\ k + 1 \in 1 .. Len(st)
        BY <1>2, <3>3
      <4>2. st[k + 1] = <<c, a + 1, 1>>
        BY <3>1, <3>2, <4>1 DEF Stream, Follows
      <4> QED  BY <1>3, <4>1, <4>2
    <3>4. CASE k = Len(st)
      <4>1. a = m
        <5>1. CmdLen(ks, a) \in Nat /\ CmdLen(ks, a) > 0
          BY Lengths
        <5>2. CmdLen(ks, a) \in 1 .. CmdLen(ks, a)
          BY <5>1
        <5> QED  BY <1>8, <3>1, <3>2, <3>4, <5>2
      <4>2. k + 1 > Len(st) /\ k + 1 - Len(st) = 1
        BY <1>2, <3>4
      <4> QED  BY <1>3, <2>1, <4>1, <4>2
    <3> QED  BY <1>2, <2>2, <3>3, <3>4
  <2>3. CASE k > Len(st)
    <3>1. p[k] = <<c, m + 1, k - Len(st)>>
      BY <1>3, <2>1, <2>3
    <3>2. a = m + 1 /\ L = k - Len(st)
      BY <3>1 DEF L
    <3>3. k = Len(p)
      BY <1>1, <1>2, <1>3, <3>2
    <3> QED  BY <1>6, <3>3
  <2> QED  BY <1>2, <2>2, <2>3
<1> QED  BY <1>3, <1>4, <1>5, <1>7, <1>9, <1>10 DEF Stream, p, msg, L

\* What is at the front of a stream.
LEMMA StreamFirst ==
  ASSUME NEW c, NEW ks, NEW m \in Nat, NEW n \in Nat,
         NEW st \in Seq(Unit), Stream(c, ks, st, n, m), st # <<>>
  PROVE  n \in 1 .. m /\ 1 \in 1 .. Len(st) /\ st[1] = <<c, n, 1>>
<1>1. 1 \in 1 .. Len(st) /\ st[1] = <<c, n, 1>>
  BY EmptySeq DEF Stream
<1>2. PICK a \in 1 .. m : \E i \in 1 .. CmdLen(ks, a) : st[1] = <<c, a, i>>
  BY <1>1 DEF Stream, Units
<1> QED  BY <1>1, <1>2

LEMMA StreamFront ==
  ASSUME NEW c, NEW ks, NEW m \in Nat, NEW n \in Nat,
         NEW st \in Seq(Unit), Stream(c, ks, st, n, m),
         NEW j \in 1 .. Len(st), j <= CmdLen(ks, n)
  PROVE  st[j] = <<c, n, j>>
<1>1. st # <<>>
  BY EmptySeq
<1>2. n \in 1 .. m /\ 1 \in 1 .. Len(st) /\ st[1] = <<c, n, 1>>
  BY <1>1, StreamFirst
<1>3. j \in 1 .. CmdLen(ks, n) /\ 1 \in 1 .. CmdLen(ks, n) /\ 1 + j - 1 = j
  <2>1. CmdLen(ks, n) \in Nat /\ CmdLen(ks, n) > 0
    BY Lengths
  <2> QED  BY <1>2, <2>1
<1>4. st[j] = <<c, n, 1 + j - 1>>
  BY <1>2, <1>3 DEF Stream, Runs
<1> QED  BY <1>3, <1>4

\* The stream behind its first command.
LEMMA StreamDrops ==
  ASSUME NEW c, NEW ks, NEW m \in Nat, NEW n \in Nat, NEW S, NEW w \in Seq(S),
         Stream(c, ks, Command(c, ks, n) \o w, n, m)
  PROVE  Stream(c, ks, w, n + 1, m)
<1> DEFINE msg == Command(c, ks, n)
           L == CmdLen(ks, n)
           T == S \cup ({c} \X {n} \X Nat)
           st == msg \o w
<1>1. /\ msg \in Seq(T) /\ w \in Seq(T)
      /\ Len(msg) = L /\ L \in Nat /\ L > 0
      /\ \A i \in 1 .. L : msg[i] = <<c, n, i>>
  <2>1. /\ msg \in Seq({c} \X {n} \X Nat) /\ Len(msg) = L
        /\ \A i \in 1 .. L : msg[i] = <<c, n, i>>
    BY Commands
  <2>2. L \in Nat /\ L > 0
    BY Lengths
  <2>3. {c} \X {n} \X Nat \subseteq T /\ S \subseteq T
    OBVIOUS
  <2>4. msg \in Seq(T) /\ w \in Seq(T)
    <3> HIDE DEF msg, T
    <3> QED  BY <2>1, <2>3, SeqMonotonic
  <2> QED  BY <2>1, <2>2, <2>4
<1>2. Len(w) \in Nat
  BY EmptySeq
<1>3. /\ Len(st) = L + Len(w) /\ st # <<>>
      /\ \A i \in 1 .. Len(w) : L + i \in 1 .. Len(st) /\ w[i] = st[L + i]
      /\ st[L] = <<c, n, L>> /\ L \in 1 .. Len(st)
  <2> HIDE DEF msg, L, T
  <2>1. /\ st \in Seq(T) /\ Len(st) = L + Len(w)
        /\ \A i \in 1 .. L + Len(w) : st[i] = IF i <= L THEN msg[i] ELSE w[i - L]
    BY <1>1, <1>2, ConcatProperties
  <2>2. st # <<>>
    BY <1>1, <1>2, <2>1
  <2>3. \A i \in 1 .. Len(w) : L + i \in 1 .. Len(st) /\ L + i - L = i /\ ~(L + i <= L)
    BY <1>1, <1>2, <2>1
  <2>4. \A i \in 1 .. Len(w) : w[i] = st[L + i]
    BY <1>1, <1>2, <2>1, <2>3
  <2>5. L \in 1 .. Len(st) /\ L \in 1 .. L
    BY <1>1, <1>2, <2>1
  <2> QED  BY <1>1, <2>1, <2>2, <2>3, <2>4, <2>5
<1>4. Stream(c, ks, st, n, m)
  OBVIOUS
<1> HIDE DEF msg, st, T, L
<1>5. st[Len(st)] = <<c, m, CmdLen(ks, m)>>
  BY <1>3, <1>4 DEF Stream
<1>6. w = <<>> => n + 1 = m + 1
  <2> SUFFICES ASSUME w = <<>> PROVE n = m
    OBVIOUS
  <2>1. Len(w) = 0
    BY EmptySeq
  <2>2. Len(st) = L
    BY <1>1, <1>3, <2>1
  <2>3. <<c, n, L>> = <<c, m, CmdLen(ks, m)>>
    BY <1>3, <1>5, <2>2
  <2> QED  BY <2>3
<1>7. w # <<>> => w[1] = <<c, n + 1, 1>> /\ w[Len(w)] = <<c, m, CmdLen(ks, m)>>
  <2> SUFFICES ASSUME w # <<>> PROVE w[1] = <<c, n + 1, 1>> /\ w[Len(w)] = st[Len(st)]
    BY <1>5
  <2>1. 1 \in 1 .. Len(w) /\ Len(w) \in 1 .. Len(w)
    BY EmptySeq
  <2>2. st[L + 1] = <<c, n + 1, 1>>
    <3>1. L \in 1 .. Len(st) - 1
      BY <1>1, <1>2, <1>3, <2>1
    <3>3. L = CmdLen(ks, n)
      BY DEF L
    <3>2. n \in 1 .. m
      <4>1. 1 \in 1 .. Len(st) /\ st[1] = <<c, n, 1>>
        BY <1>1, <1>3, <1>4 DEF Stream
      <4>2. PICK a \in 1 .. m : \E i \in 1 .. CmdLen(ks, a) : st[1] = <<c, a, i>>
        BY <1>4, <4>1 DEF Stream, Units
      <4> QED  BY <4>1, <4>2
    <3> QED  BY <1>3, <1>4, <3>1, <3>2, <3>3 DEF Stream, Follows
  <2> QED  BY <1>3, <2>1, <2>2
<1>8. Units(c, ks, w, m)
  <2> SUFFICES ASSUME NEW k \in 1 .. Len(w)
               PROVE  \E a \in 1 .. m : \E i \in 1 .. CmdLen(ks, a) : w[k] = <<c, a, i>>
    BY DEF Units
  <2>1. L + k \in 1 .. Len(st) /\ w[k] = st[L + k]
    BY <1>3
  <2> QED  BY <1>4, <2>1 DEF Stream, Units
<1>9. Runs(c, ks, w, m)
  <2> SUFFICES ASSUME NEW a \in 1 .. m, NEW i \in 1 .. CmdLen(ks, a),
                      NEW j \in 1 .. Len(w), NEW k \in 1 .. Len(w), w[k] = <<c, a, i>>,
                      i + j - k \in 1 .. CmdLen(ks, a)
               PROVE  w[j] = <<c, a, i + j - k>>
    BY DEF Runs
  <2>1. /\ L + j \in 1 .. Len(st) /\ w[j] = st[L + j]
        /\ L + k \in 1 .. Len(st) /\ w[k] = st[L + k]
    BY <1>3
  <2>2. i + (L + j) - (L + k) = i + j - k
    <3>1. i \in Int /\ j \in Int /\ k \in Int
      BY <1>2, Lengths
    <3> QED  BY <1>1, <3>1
  <2>3. st[L + j] = <<c, a, i + (L + j) - (L + k)>>
    BY ZenonT(60), <1>4, <2>1, <2>2 DEF Stream, Runs
  <2> QED  BY <2>1, <2>2, <2>3
<1>10. Follows(c, ks, w, m)
  <2> SUFFICES ASSUME NEW a \in 1 .. m, NEW k \in 1 .. Len(w) - 1,
                      w[k] = <<c, a, CmdLen(ks, a)>>
               PROVE  w[k + 1] = <<c, a + 1, 1>>
    BY DEF Follows
  <2>1. k \in 1 .. Len(w) /\ k + 1 \in 1 .. Len(w) /\ L + (k + 1) = L + k + 1
    BY <1>1, <1>2
  <2>2. L + k \in 1 .. Len(st) - 1 /\ w[k] = st[L + k] /\ w[k + 1] = st[L + k + 1]
    BY SMTT(30), <1>1, <1>2, <1>3, <2>1
  <2> QED  BY <1>4, <2>2 DEF Stream, Follows
<1> QED  BY <1>6, <1>7, <1>8, <1>9, <1>10 DEF Stream

\* A sequence in two parts.
LEMMA Cut ==
  ASSUME NEW w \in Seq(Unit), NEW n \in Nat, n <= Len(w)
  PROVE  /\ SubSeq(w, 1, n) \in Seq(Unit) /\ Len(SubSeq(w, 1, n)) = n
         /\ SubSeq(w, n + 1, Len(w)) \in Seq(Unit)
         /\ Len(SubSeq(w, n + 1, Len(w))) = Len(w) - n
         /\ SubSeq(w, 1, n) \o SubSeq(w, n + 1, Len(w)) = w
<1> DEFINE u == SubSeq(w, 1, n)
           v == SubSeq(w, n + 1, Len(w))
<1>1. Len(w) \in Nat
  OBVIOUS
<1>2. u \in Seq(Unit) /\ Len(u) = n /\ \A i \in 1 .. n : u[i] = w[i]
  BY <1>1
<1>3. v \in Seq(Unit) /\ Len(v) = Len(w) - n /\ \A i \in 1 .. Len(w) - n : v[i] = w[n + i]
  BY <1>1
<1> HIDE DEF u, v
<1>4. /\ u \o v \in Seq(Unit) /\ Len(u \o v) = n + (Len(w) - n)
      /\ \A i \in 1 .. n + (Len(w) - n) : (u \o v)[i] = IF i <= n THEN u[i] ELSE v[i - n]
  <2>1. u \o v \in Seq(Unit) /\ Len(u \o v) = n + (Len(w) - n)
    BY <1>1, <1>2, <1>3
  <2>2. \A i \in 1 .. n + (Len(w) - n) : (u \o v)[i] = IF i <= n THEN u[i] ELSE v[i - n]
    BY <1>1, <1>2, <1>3, ConcatProperties
  <2> QED  BY <2>1, <2>2
<1>5. n + (Len(w) - n) = Len(w)
  BY <1>1
<1>6. ASSUME NEW i \in 1 .. Len(w) PROVE (u \o v)[i] = w[i]
  <2>1. CASE i <= n
    BY <1>1, <1>2, <1>4, <1>5, <2>1
  <2>2. CASE ~(i <= n)
    <3>1. i - n \in 1 .. Len(w) - n /\ n + (i - n) = i
      BY <1>1, <2>2
    <3> QED  BY <1>3, <1>4, <1>5, <2>2, <3>1
  <2> QED  BY <2>1, <2>2
<1>7. u \o v = w
  BY <1>1, <1>4, <1>5, <1>6, SeqEqual
<1> QED  BY <1>2, <1>3, <1>7 DEF u, v

LEMMA ThreeParts ==
  ASSUME NEW s \in Seq(Unit), NEW t \in Seq(Unit), NEW u \in Seq(Unit)
  PROVE  (s \o t) \o u = s \o (t \o u)
BY ConcatAssociative
-----------------------------------------------------------------------------
(* Types.                                                                   *)

\* A buffer that is put into bufp.
LEMMA ShapedLast ==
  ASSUME NEW q, NEW r \in Nat, Shaped(q, r), NEW b \in Buffer, Sound(b),
         NEW t \in Nat, Len(b.data) + t <= HdrLen + 2
  PROVE  Shaped([q EXCEPT ![Len(q)] = b], t)
<1> DEFINE p == [q EXCEPT ![Len(q)] = b]
<1>1. /\ p \in Seq(Buffer) /\ p # <<>> /\ Len(p) = Len(q)
      /\ \A i \in 1 .. Len(q) : p[i] = IF i = Len(q) THEN b ELSE q[i]
      /\ Last(p) = b
  BY LastReplaced DEF Shaped
<1> HIDE DEF p
<1>2. \A i \in 1 .. Len(p) : Sound(p[i])
  BY <1>1 DEF Shaped
<1>3. Shaped(p, t)
  BY <1>1, <1>2 DEF Shaped
<1> QED  BY <1>3 DEF p

\* bufc is written.
LEMMA ShapedFirst ==
  ASSUME NEW q, NEW r \in Nat, Shaped(q, r)
  PROVE  Shaped([q EXCEPT ![1].off = Len(q[1].data)], r)
<1> DEFINE b == [q[1] EXCEPT !.off = Len(q[1].data)]
           p == [q EXCEPT ![1] = b]
<1>1. Len(q) \in Nat \ {0} /\ 1 \in 1 .. Len(q) /\ q[1] \in Buffer /\ Sound(q[1])
  <2>1. q \in Seq(Buffer) /\ q # <<>>
    BY DEF Shaped
  <2>2. Len(q) \in Nat \ {0} /\ 1 \in 1 .. Len(q)
    BY <2>1, EmptySeq
  <2> QED  BY <2>1, <2>2 DEF Shaped
<1>2. /\ b \in Buffer /\ Sound(b) /\ b.data = q[1].data
  BY <1>1, ConstantsAssumption DEF Buffer, Sound
<1> HIDE DEF b
<1>3. /\ p \in Seq(Buffer) /\ p # <<>> /\ Len(p) = Len(q)
      /\ \A i \in 1 .. Len(q) : p[i] = IF i = 1 THEN b ELSE q[i]
      /\ Last(p) = IF Len(q) = 1 THEN b ELSE Last(q)
  BY <1>2, FirstReplaced DEF Shaped
<1>4. Len(q) = 1 => Last(q) = q[1]
  BY DEF Last
<1> HIDE DEF p
<1>5. \A i \in 1 .. Len(p) : Sound(p[i])
  BY <1>2, <1>3 DEF Shaped
<1>6. Shaped(p, r)
  BY <1>2, <1>3, <1>4, <1>5 DEF Shaped
<1>7. p = [q EXCEPT ![1].off = Len(q[1].data)]
  BY DEF p, b
<1> QED  BY <1>6, <1>7

LEMMA NewIsSound ==
  NewBuffer \in Buffer /\ Sound(NewBuffer) /\ Len(NewBuffer.data) = 0
BY ConstantsAssumption, EmptySeq DEF NewBuffer, Buffer, Sound

\* A new bufp.
LEMMA ShapedLonger ==
  ASSUME NEW q, NEW r \in Nat, Shaped(q, r)
  PROVE  Shaped(Append(q, NewBuffer), r)
<1>0. PICK p : p = Append(q, NewBuffer)
  OBVIOUS
<1>1. /\ p \in Seq(Buffer) /\ p # <<>> /\ Len(p) = Len(q) + 1 /\ Len(q) \in Nat
      /\ \A i \in 1 .. Len(p) : p[i] = IF i = Len(p) THEN NewBuffer ELSE q[i]
      /\ Last(p) = NewBuffer
  <2>1. q \in Seq(Buffer) /\ q # <<>> /\ NewBuffer \in Buffer
    BY NewIsSound DEF Shaped
  <2>2. p \in Seq(Buffer) /\ Len(q) \in Nat /\ p # <<>>
    BY <1>0, <2>1, Longer
  <2>3. Len(p) = Len(q) + 1
    BY <1>0, <2>1, Longer
  <2>4. \A i \in 1 .. Len(p) : p[i] = IF i = Len(p) THEN NewBuffer ELSE q[i]
    BY <1>0, <2>1, Longer
  <2>5. Last(p) = NewBuffer
    BY <1>0, <2>1, Longer
  <2> QED  BY <2>2, <2>3, <2>4, <2>5
<1>2. Len(Last(q).data) \in Nat /\ HdrLen \in Nat
  <2>1. q \in Seq(Buffer) /\ q # <<>>
    BY DEF Shaped
  <2>2. Last(q) \in Buffer
    BY <2>1, EmptySeq DEF Last
  <2> QED  BY <2>2, ConstantsAssumption DEF Buffer
<1>3. \A i \in 1 .. Len(p) : Sound(p[i])
  BY <1>1, NewIsSound DEF Shaped
<1>4. r <= HdrLen + 2
  BY <1>2 DEF Shaped
<1>5. Shaped(p, r)
  BY <1>1, <1>3, <1>4, NewIsSound DEF Shaped
<1> QED  BY <1>0, <1>5

\* bufc is dropped.
LEMMA ShapedShorter ==
  ASSUME NEW q, NEW r \in Nat, Shaped(q, r), Len(q) > 1
  PROVE  Shaped(Tail(q), r)
<1> DEFINE p == Tail(q)
<1>1. /\ p \in Seq(Buffer) /\ p # <<>> /\ Len(p) = Len(q) - 1 /\ Len(q) \in Nat
      /\ \A i \in 1 .. Len(p) : p[i] = q[i + 1]
      /\ Last(p) = Last(q)
  BY ZenonT(60), Shorter DEF Shaped
<1> HIDE DEF p
<1>2. \A i \in 1 .. Len(p) : i + 1 \in 1 .. Len(q)
  BY <1>1
<1>3. Shaped(p, r)
  BY <1>1, <1>2 DEF Shaped
<1> QED  BY <1>3 DEF p

\* The first and the last buffer.
LEMMA Ends ==
  ASSUME NEW q, NEW r \in Nat, Shaped(q, r)
  PROVE  /\ Len(q) \in Nat \ {0}
         /\ Head(q) = q[1] /\ Last(q) = q[Len(q)]
         /\ Head(q) \in Buffer /\ Sound(Head(q))
         /\ Last(q) \in Buffer /\ Sound(Last(q))
<1>1. q \in Seq(Buffer) /\ q # <<>>
  BY DEF Shaped
<1>2. Len(q) \in Nat \ {0} /\ 1 \in 1 .. Len(q) /\ Len(q) \in 1 .. Len(q)
  BY <1>1, EmptySeq
<1>3. Head(q) = q[1] /\ Last(q) = q[Len(q)]
  BY <1>1, <1>2 DEF Last
<1> QED  BY <1>1, <1>2, <1>3 DEF Shaped

\* What read_dev makes of a buffer.
LEMMA ReadDev ==
  ASSUME NEW s \in Side, NEW b \in Buffer, Sound(b)
  PROVE  /\ read_dev(s, b) \in Buffer /\ Sound(read_dev(s, b))
         /\ read_dev(s, b).data = b.data /\ read_dev(s, b).off = b.off
         /\ Len(b.data) \in Nat /\ HdrLen \in Nat
         /\ Expected(s, b) \in HdrLen .. HdrLen + 2
         /\ Asks(s, b) \in Nat /\ Len(b.data) + Asks(s, b) <= HdrLen + 2
<1>1. Len(b.data) \in Nat /\ HdrLen \in Nat
  BY ConstantsAssumption DEF Buffer
<1>2. \A t, k : PayloadLen(t, k) \in {0, 1} /\ get_iso_len(k) \in {0, 1}
  BY DEF PayloadLen, get_iso_len
<1>3. \A t, h : get_xfer_len(t, h) \in {0, 1}
  BY <1>2 DEF get_xfer_len
<1>4. Expected(s, b) \in HdrLen .. HdrLen + 2
  <2>1. ASSUME NEW x \in {0, 1}, NEW y \in {0, 1}
        PROVE  HdrLen + x + y \in HdrLen .. HdrLen + 2
    BY <1>1
  <2> DEFINE x == get_xfer_len(s, b.data[1])
             y == get_iso_len(KindOf(b.data[1][1], b.data[1][2]))
  <2>2. x \in {0, 1} /\ y \in {0, 1}
    BY <1>2, <1>3
  <2>3. Expected(s, b) = HdrLen \/ Expected(s, b) = HdrLen + x + y
    BY DEF Expected
  <2> HIDE DEF x, y
  <2> QED  BY <1>1, <2>1, <2>2, <2>3
<1>5. Expected(s, b) = HdrLen \/ Len(b.data) >= HdrLen
  BY <1>1 DEF Expected
<1>6. /\ read_dev(s, b) \in Buffer /\ Sound(read_dev(s, b))
      /\ read_dev(s, b).data = b.data /\ read_dev(s, b).off = b.off
  BY <1>1, <1>4 DEF read_dev, Buffer, Sound
<1>7. read_dev(s, b).step # 3 => Len(b.data) < Expected(s, b)
  BY <1>1, <1>4, <1>5 DEF read_dev, Buffer
<1>8. Asks(s, b) \in Nat /\ Len(b.data) + Asks(s, b) <= HdrLen + 2
  <2> DEFINE e == Expected(s, b)
  <2>1. Asks(s, b) = 0 \/ (Asks(s, b) = e - Len(b.data) /\ Len(b.data) < e)
    BY <1>7 DEF Asks
  <2>2. e \in Nat /\ e <= HdrLen + 2
    BY <1>1, <1>4
  <2>3. Len(b.data) <= HdrLen + 2
    BY DEF Sound
  <2> HIDE DEF e
  <2> QED  BY <1>1, <2>1, <2>2, <2>3
<1> QED  BY <1>1, <1>4, <1>6, <1>8

\* A devbuf that is changed.
LEMMA DevbufChanged ==
  ASSUME TypeInv, NEW x \in Conn \X Side, NEW q, NEW t \in Nat, Shaped(q, t),
         bufs' = [bufs EXCEPT ![x] = q], in_reading' = [in_reading EXCEPT ![x] = t]
  PROVE  /\ bufs' \in [Conn \X Side -> Seq(Buffer) \ {<<>>}]
         /\ in_reading' \in [Conn \X Side -> 0 .. HdrLen + 2]
         /\ \A y \in Conn \X Side : Shaped(bufs'[y], in_reading'[y])
<1>1. /\ bufs \in [Conn \X Side -> Seq(Buffer) \ {<<>>}]
      /\ in_reading \in [Conn \X Side -> 0 .. HdrLen + 2]
      /\ \A y \in Conn \X Side : Shaped(bufs[y], in_reading[y])
  BY DEF TypeInv, TypeOK
<1>2. q \in Seq(Buffer) \ {<<>>}
  BY DEF Shaped
<1>3. t \in 0 .. HdrLen + 2
  <2>1. Last(q) \in Buffer
    BY Ends
  <2>2. Len(Last(q).data) \in Nat /\ HdrLen \in Nat
    BY <2>1, ConstantsAssumption DEF Buffer
  <2>3. Len(Last(q).data) + t <= HdrLen + 2
    BY DEF Shaped
  <2> QED  BY <2>2, <2>3
<1>4. bufs' \in [Conn \X Side -> Seq(Buffer) \ {<<>>}]
  BY <1>1, <1>2
<1>5. in_reading' \in [Conn \X Side -> 0 .. HdrLen + 2]
  BY <1>1, <1>3
<1>6. ASSUME NEW y \in Conn \X Side PROVE Shaped(bufs'[y], in_reading'[y])
  <2>1. CASE y = x
    <3>1. bufs'[y] = q /\ in_reading'[y] = t
      BY <1>1, <2>1
    <3> QED  BY <3>1
  <2>2. CASE y # x
    <3>1. bufs'[y] = bufs[y] /\ in_reading'[y] = in_reading[y]
      BY <1>1, <2>2
    <3> QED  BY <1>1, <3>1
  <2> QED  BY <2>1, <2>2
<1> QED  BY <1>4, <1>5, <1>6

\* bufp changed, and what is being read into it.
LEMMA BufpChanged ==
  ASSUME TypeInv, NEW c \in Conn, NEW s \in Side, NEW b \in Buffer, Sound(b),
         NEW t \in Nat, Len(b.data) + t <= HdrLen + 2,
         bufs' = WithBufp(c, s, b), in_reading' = [in_reading EXCEPT ![<<c, s>>] = t]
  PROVE  /\ bufs' \in [Conn \X Side -> Seq(Buffer) \ {<<>>}]
         /\ in_reading' \in [Conn \X Side -> 0 .. HdrLen + 2]
         /\ \A y \in Conn \X Side : Shaped(bufs'[y], in_reading'[y])
<1> DEFINE q == bufs[<<c, s>>]
           p == [q EXCEPT ![Len(q)] = b]
<1>1. bufs' = [bufs EXCEPT ![<<c, s>>] = p]
  BY DEF WithBufp
<1>2. <<c, s>> \in Conn \X Side
  OBVIOUS
<1>3. Shaped(q, in_reading[<<c, s>>]) /\ in_reading[<<c, s>>] \in Nat
  <2>1. in_reading[<<c, s>>] \in 0 .. HdrLen + 2
    BY <1>2 DEF TypeInv, TypeOK
  <2> QED  BY <1>2, <2>1 DEF TypeInv
<1> HIDE DEF q
<1>4. Shaped(p, t)
  BY <1>3, ShapedLast
<1> HIDE DEF p
<1> QED  BY <1>1, <1>2, <1>4, DevbufChanged

\* Nothing changes in a devbuf.
LEMMA DevbufKept ==
  ASSUME TypeInv, UNCHANGED bufs, UNCHANGED in_reading
  PROVE  /\ bufs' \in [Conn \X Side -> Seq(Buffer) \ {<<>>}]
         /\ in_reading' \in [Conn \X Side -> 0 .. HdrLen + 2]
         /\ \A y \in Conn \X Side : Shaped(bufs'[y], in_reading'[y])
BY DEF TypeInv, TypeOK

\* A read is over that has brought nothing.
LEMMA ReadingDone ==
  ASSUME TypeInv, NEW x \in Conn \X Side, UNCHANGED bufs,
         in_reading' = [in_reading EXCEPT ![x] = 0]
  PROVE  /\ bufs' \in [Conn \X Side -> Seq(Buffer) \ {<<>>}]
         /\ in_reading' \in [Conn \X Side -> 0 .. HdrLen + 2]
         /\ \A y \in Conn \X Side : Shaped(bufs'[y], in_reading'[y])
<1>1. bufs' = [bufs EXCEPT ![x] = bufs[x]]
  BY DEF TypeInv, TypeOK
<1> DEFINE q == bufs[x]
           r == in_reading[x]
<1>2. Shaped(q, r) /\ r \in Nat
  BY DEF TypeInv, TypeOK
<1>3. Shaped(q, 0)
  <2> HIDE DEF q, r
  <2>1. Len(Last(q).data) \in Nat /\ HdrLen \in Nat
    <3>1. Last(q) \in Buffer
      BY <1>2, Ends
    <3> QED  BY <3>1, ConstantsAssumption DEF Buffer
  <2>2. Len(Last(q).data) + 0 <= HdrLen + 2
    BY <1>2, <2>1 DEF Shaped
  <2> QED  BY <1>2, <2>2 DEF Shaped
<1> HIDE DEF q
<1> QED  BY <1>1, <1>3, DevbufChanged DEF q

\* The buffers of a connection.
LEMMA Bufs ==
  ASSUME TypeInv, NEW c \in Conn, NEW s \in Side
  PROVE  /\ bufs[<<c, s>>] \in Seq(Buffer) /\ bufs[<<c, s>>] # <<>> /\ Len(bufs[<<c, s>>]) \in Nat \ {0}
         /\ Shaped(bufs[<<c, s>>], in_reading[<<c, s>>]) /\ in_reading[<<c, s>>] \in Nat
         /\ bufp(c, s) \in Buffer /\ Sound(bufp(c, s)) /\ bufp(c, s).data \in Seq(Unit)
         /\ bufp(c, s) = bufs[<<c, s>>][Len(bufs[<<c, s>>])]
         /\ Len(bufp(c, s).data) \in Nat
         /\ Len(bufp(c, s).data) + in_reading[<<c, s>>] <= HdrLen + 2
         /\ bufc(c, s) \in Buffer /\ Sound(bufc(c, s)) /\ bufc(c, s).data \in Seq(Unit)
         /\ bufc(c, s) = bufs[<<c, s>>][1]
         /\ Len(bufc(c, s).data) \in Nat
<1> DEFINE q == bufs[<<c, s>>]
           r == in_reading[<<c, s>>]
<1>1. Shaped(q, r) /\ r \in Nat
  <2>1. <<c, s>> \in Conn \X Side
    OBVIOUS
  <2>2. in_reading[<<c, s>>] \in 0 .. HdrLen + 2
    BY <2>1 DEF TypeInv, TypeOK
  <2> QED  BY <2>1, <2>2 DEF TypeInv
<1> HIDE DEF q, r
<1>2. /\ Len(q) \in Nat \ {0} /\ Head(q) = q[1] /\ Last(q) = q[Len(q)]
      /\ Head(q) \in Buffer /\ Sound(Head(q))
      /\ Last(q) \in Buffer /\ Sound(Last(q))
  BY <1>1, Ends
<1>3. q \in Seq(Buffer) /\ q # <<>> /\ Len(Last(q).data) + r <= HdrLen + 2
  BY <1>1 DEF Shaped
<1>4. \A b \in Buffer : b.data \in Seq(Unit) /\ Len(b.data) \in Nat
  BY DEF Buffer
<1> QED  BY <1>1, <1>2, <1>3, <1>4 DEF q, r, bufp, bufc

\* Data that are read into a buffer.
LEMMA DataAdded ==
  ASSUME NEW b \in Buffer, Sound(b), NEW d \in Seq(Unit),
         Len(b.data) + Len(d) <= HdrLen + 2
  PROVE  LET new == [b EXCEPT !.data = @ \o d] IN
         /\ new \in Buffer /\ Sound(new)
         /\ new.data = b.data \o d /\ new.step = b.step /\ new.off = b.off
         /\ Len(new.data) = Len(b.data) + Len(d) /\ Len(new.data) <= HdrLen + 2
<1> DEFINE e == b.data \o d
           new == [b EXCEPT !.data = e]
<1>1. /\ Len(b.data) \in Nat /\ Len(d) \in Nat /\ b.off \in Nat /\ HdrLen \in Nat
      /\ e \in Seq(Unit) /\ Len(e) = Len(b.data) + Len(d)
  BY ConstantsAssumption DEF Buffer
<1> HIDE DEF e
<1>2. new \in Buffer /\ new.data = e /\ new.step = b.step /\ new.off = b.off
  BY <1>1 DEF Buffer
<1> HIDE DEF new
<1>3. Len(new.data) = Len(b.data) + Len(d)
  BY <1>1, <1>2
<1>4. Sound(new)
  BY <1>1, <1>2, <1>3 DEF Sound
<1>5. new = [b EXCEPT !.data = @ \o d]
  BY DEF new, e
<1> QED  BY <1>2, <1>3, <1>4, <1>5 DEF e

LEMMA Messages ==
  ASSUME NEW c \in Conn, NEW n \in Numbers, NEW r \in BOOLEAN
  PROVE  Message(c, n, r) \in Seq(Unit)
<1> DEFINE L == HdrLen + PayloadLen(r, KindOf(c, n)) + get_iso_len(KindOf(c, n))
<1>1. L \in Nat /\ L <= HdrLen + 2
  <2>1. PayloadLen(r, KindOf(c, n)) \in {0, 1} /\ get_iso_len(KindOf(c, n)) \in {0, 1}
    BY DEF PayloadLen, get_iso_len
  <2> QED  BY <2>1, ConstantsAssumption
<1>2. Message(c, n, r) = [i \in 1 .. L |-> <<c, n, i>>]
  BY DEF Message
<1> HIDE DEF L
<1>3. \A i \in 1 .. L : i \in 1 .. HdrLen + 2
  BY <1>1, ConstantsAssumption
<1>4. \A i \in 1 .. L : <<c, n, i>> \in Unit
  BY <1>3 DEF Unit
<1>5. [i \in 1 .. L |-> <<c, n, i>>] \in Seq(Unit)
  BY <1>1, <1>4
<1> QED  BY <1>2, <1>5

\* A connection that the types speak of.
LEMMA JoinTyped ==
  ASSUME TypeInv, NEW c \in Conn, Join(c)
  PROVE  TypeInv'
<1> DEFINE Buf == /\ bufs' \in [Conn \X Side -> Seq(Buffer) \ {<<>>}]
                  /\ in_reading' \in [Conn \X Side -> 0 .. HdrLen + 2]
                  /\ \A y \in Conn \X Side : Shaped(bufs'[y], in_reading'[y])
<1>1. Buf
  BY DevbufKept DEF Join, Export, Lookup, AddToArray, Link, devbuf
<1>2. /\ producer' \in [Conn -> {"none", "lookup", "add", "link", "run", "wait", "ended"}]
      /\ reader' \in [Conn -> {"none", "run", "wait", "ended"}]
      /\ refresher' \in [Conn -> {"none", "run", "ended"}]
      /\ consumer' \in [Conn -> {"none", "look", "add", "refused", "run", "wait"}]
  <2>1. /\ producer \in [Conn -> {"none", "lookup", "add", "link", "run", "wait", "ended"}]
        /\ reader \in [Conn -> {"none", "run", "wait", "ended"}]
        /\ refresher \in [Conn -> {"none", "run", "ended"}]
        /\ consumer \in [Conn -> {"none", "look", "add", "refused", "run", "wait"}]
    BY DEF TypeInv, TypeOK
  <2>2. CASE Export(c) \/ Lookup(c) \/ AddToArray(c)
    BY <2>1, <2>2 DEF Export, Lookup, AddToArray
  <2>3. CASE Link(c)
    BY <2>1, <2>3 DEF Link
  <2> QED  BY <2>2, <2>3 DEF Join
<1>3. /\ next' \in [Conn \cup {NoConn} -> Conn \cup {NoConn}]
      /\ seen' \in [Conn -> Conn \cup {NoConn}]
  <2>1. Listed \subseteq Conn
    BY DEF Listed
  <2>2. /\ next \in [Conn \cup {NoConn} -> Conn \cup {NoConn}]
        /\ seen \in [Conn -> Conn \cup {NoConn}]
    BY DEF TypeInv, TypeOK
  <2>3. CASE Export(c) \/ Lookup(c)
    BY <2>2, <2>3 DEF Export, Lookup, lists
  <2>4. CASE AddToArray(c)
    BY <2>1, <2>2, <2>4 DEF AddToArray
  <2>5. CASE Link(c)
    BY <2>2, <2>5 DEF Link
  <2> QED  BY <2>3, <2>4, <2>5 DEF Join
<1>4. WaitsAt'
  <2>1. at' = at /\ \A k \in Conn : consumer'[k] = "wait" => consumer[k] = "wait"
    <3>1. consumer \in [Conn -> {"none", "look", "add", "refused", "run", "wait"}]
      BY DEF TypeInv, TypeOK
    <3>2. CASE Export(c) \/ Lookup(c) \/ AddToArray(c)
      BY <3>2 DEF Export, Lookup, AddToArray
    <3>3. CASE Link(c)
      BY <3>1, <3>3 DEF Link
    <3> QED  BY <3>2, <3>3 DEF Join
  <2> QED  BY <2>1 DEF TypeInv, WaitsAt
<1>5. UNCHANGED <<scenario, at, consumerThreadList, in_writing, invalid, events, caches,
                  interrupted, clients, stub, history>>
  BY DEF Join, Export, Lookup, AddToArray, Link, devbuf, lists
<1> QED
  BY <1>1, <1>2, <1>3, <1>4, <1>5
  DEF TypeInv, TypeOK, caches, events, clients, stub, history

\* The entries of hdrs_cache.
Table ==
  [0 .. CacheSize - 1 -> [seqnum : Numbers \cup {0}, direction : {"in", "out"}]]

LEMMA EntryIs ==
  ASSUME NEW n \in Numbers
  PROVE  Entry(n) \in 0 .. CacheSize - 1
BY ConstantsAssumption DEF Entry, Numbers

\* The reader of a connection.
LEMMA ReaderTyped ==
  ASSUME TypeInv, NEW c \in Conn, ReaderThread(c)
  PROVE  TypeInv'
<1> DEFINE Buf == /\ bufs' \in [Conn \X Side -> Seq(Buffer) \ {<<>>}]
                  /\ in_reading' \in [Conn \X Side -> 0 .. HdrLen + 2]
                  /\ \A y \in Conn \X Side : Shaped(bufs'[y], in_reading'[y])
           b == bufp(c, "sock")
<1>0. /\ "sock" \in Side /\ <<c, "sock">> \in Conn \X Side
      /\ b \in Buffer /\ Sound(b) /\ b.data \in Seq(Unit) /\ Len(b.data) \in Nat
      /\ in_reading[<<c, "sock">>] \in Nat
      /\ Len(b.data) + in_reading[<<c, "sock">>] <= HdrLen + 2
      /\ in_reading \in [Conn \X Side -> 0 .. HdrLen + 2]
      /\ reader \in [Conn -> {"none", "run", "wait", "ended"}]
  <2>1. "sock" \in Side
    BY DEF Side
  <2>2. <<c, "sock">> \in Conn \X Side
    BY <2>1
  <2> HIDE DEF b
  <2> QED  BY <2>1, <2>2, Bufs DEF b, TypeInv, TypeOK
<1> HIDE DEF b
<1>1. CASE ReaderTurn(c)
  <2>0. reader[c] = "run"
    BY <1>1 DEF ReaderTurn
  <2> DEFINE new == read_dev("sock", b)
             r == in_reading[<<c, "sock">>]
  <2>1. /\ new \in Buffer /\ Sound(new) /\ new.data = b.data
        /\ Asks("sock", b) \in Nat /\ Len(b.data) + Asks("sock", b) <= HdrLen + 2
    BY <1>0, ReadDev
  <2>2. Buf
    <3>1. CASE UNCHANGED <<bufs, in_reading>>
      BY <3>1, DevbufKept
    <3>2. CASE /\ bufs' = WithBufp(c, "sock", new)
               /\ \E t \in {Asks("sock", b), r} :
                    in_reading' = [in_reading EXCEPT ![<<c, "sock">>] = t]
      <4>1. PICK t \in {Asks("sock", b), r} :
                    in_reading' = [in_reading EXCEPT ![<<c, "sock">>] = t]
        BY <3>2
      <4>2. t \in Nat /\ Len(new.data) + t <= HdrLen + 2
        BY <1>0, <2>1, <4>1
      <4> HIDE DEF new, r
      <4> QED  BY <1>0, <2>1, <3>2, <4>1, <4>2, BufpChanged
    <3>3. UNCHANGED in_reading => in_reading' = [in_reading EXCEPT ![<<c, "sock">>] = r]
      BY <1>0
    <3> HIDE DEF new, r, Buf
    <3> QED  BY <1>1, <3>1, <3>2, <3>3 DEF ReaderTurn, b, new, r
  <2>3. /\ hdrs_cache' \in Table
        /\ kept' \subseteq Conn \X Numbers /\ clash' \in BOOLEAN
    <3>1. hdrs_cache \in Table /\ kept \subseteq Conn \X Numbers /\ clash \in BOOLEAN
      BY DEF Table, TypeInv, TypeOK
    <3>2. UNCHANGED caches \/ Keeps(b)
      BY <1>1 DEF ReaderTurn, b
    <3>3. CASE UNCHANGED caches
      BY <3>1, <3>3 DEF caches
    <3>4. CASE /\ Keeps(b)
               /\ Len(b.data) >= HdrLen
               /\ hdrs_cache' = hdrs_cache_insert(b.data[1])
               /\ kept' = kept \cup {<<b.data[1][1], b.data[1][2]>>}
               /\ clash' \in BOOLEAN
      <4>1. PICK d \in Conn, n \in Numbers : b.data[1][1] = d /\ b.data[1][2] = n
        <5>1. b.data[1] \in Unit
          BY <1>0, <3>4, ConstantsAssumption
        <5> QED  BY <5>1 DEF Unit
      <4>2. hdrs_cache_insert(b.data[1]) \in Table
        BY <3>1, <4>1, EntryIs DEF hdrs_cache_insert, DirectionOf, Table
      <4> QED  BY <3>1, <3>4, <4>1, <4>2
    <3>5. Keeps(b) => UNCHANGED caches \/ (/\ Len(b.data) >= HdrLen
                                          /\ hdrs_cache' = hdrs_cache_insert(b.data[1])
                                          /\ kept' = kept \cup {<<b.data[1][1], b.data[1][2]>>}
                                          /\ clash' \in BOOLEAN)
      BY <3>1 DEF Keeps
    <3> QED  BY <3>2, <3>3, <3>4, <3>5
  <2>4. reader' \in [Conn -> {"none", "run", "wait", "ended"}]
    BY <1>0, <1>1 DEF ReaderTurn
  <2>5. UNCHANGED <<scenario, producer, refresher, consumer, at, lists, in_writing,
                    invalid, events, interrupted, clients, stub, history>>
    BY <1>1 DEF ReaderTurn
  <2> QED
    BY <2>2, <2>3, <2>4, <2>5
    DEF TypeInv, TypeOK, Table, WaitsAt, lists, events, clients, stub, history
<1>2. CASE ReaderWake(c)
  <2>1. Buf
    BY <1>2, DevbufKept DEF ReaderWake, devbuf
  <2>2. /\ reader' \in [Conn -> {"none", "run", "wait", "ended"}]
        /\ rev' \in [Conn \X Side -> BOOLEAN]
    BY <1>0, <1>2 DEF ReaderWake, TypeInv, TypeOK
  <2>3. UNCHANGED <<scenario, producer, refresher, consumer, at, lists, in_writing, invalid,
                    wev, caches, interrupted, clients, stub, history>>
    BY <1>2 DEF ReaderWake, devbuf
  <2> QED
    BY <2>1, <2>2, <2>3 DEF TypeInv, TypeOK, caches, WaitsAt, lists, clients, stub, history
<1>3. CASE ReaderApc(c)
  <2>0. wire \in [Conn -> Seq(Unit)] /\ wire[c] \in Seq(Unit) /\ Len(wire[c]) \in Nat
    BY DEF TypeInv, TypeOK
  <2>1. in_reading' = [in_reading EXCEPT ![<<c, "sock">>] = 0]
    BY <1>3 DEF ReaderApc
  <2>2. ASSUME \E n \in 1 .. in_reading[<<c, "sock">>] :
                 /\ n <= Len(wire[c])
                 /\ bufs' = WithBufp(c, "sock", [b EXCEPT !.data = @ \o SubSeq(wire[c], 1, n)])
                 /\ wire' = [wire EXCEPT ![c] = SubSeq(@, n + 1, Len(@))]
                 /\ UNCHANGED invalid
        PROVE  Buf /\ wire' \in [Conn -> Seq(Unit)] /\ invalid' \in [Conn \X Side -> BOOLEAN]
    <3>1. PICK n \in 1 .. in_reading[<<c, "sock">>] :
            /\ n <= Len(wire[c])
            /\ bufs' = WithBufp(c, "sock", [b EXCEPT !.data = @ \o SubSeq(wire[c], 1, n)])
            /\ wire' = [wire EXCEPT ![c] = SubSeq(@, n + 1, Len(@))]
            /\ UNCHANGED invalid
      BY <2>2
    <3> DEFINE d == SubSeq(wire[c], 1, n)
               new == [b EXCEPT !.data = @ \o d]
    <3>2. d \in Seq(Unit) /\ Len(d) = n /\ n \in Nat /\ n <= in_reading[<<c, "sock">>]
      BY SMTT(30), <1>0, <2>0, <3>1
    <3>3. Len(b.data \o d) = Len(b.data) + n /\ b.data \o d \in Seq(Unit)
      BY <1>0, <3>2
    <3>4. new \in Buffer /\ Sound(new) /\ Len(new.data) <= HdrLen + 2
      <4>1. Len(b.data) + Len(d) <= HdrLen + 2
        BY <1>0, <3>2, ConstantsAssumption
      <4> HIDE DEF d
      <4> QED  BY <1>0, <3>2, <4>1, DataAdded
    <3>5. Len(new.data) + 0 <= HdrLen + 2 /\ 0 \in Nat
      BY <1>0, <3>3, <3>4 DEF Buffer
    <3>6. bufs' = WithBufp(c, "sock", new)
      BY <3>1
    <3>7. Buf
      <4> HIDE DEF new
      <4> QED  BY <1>0, <2>1, <3>4, <3>5, <3>6, BufpChanged
    <3>8. wire' \in [Conn -> Seq(Unit)]
      <4>1. SubSeq(wire[c], n + 1, Len(wire[c])) \in Seq(Unit)
        BY <2>0, <3>2
      <4> QED  BY <2>0, <3>1, <4>1
    <3>9. invalid' \in [Conn \X Side -> BOOLEAN]
      BY <3>1 DEF TypeInv, TypeOK
    <3> HIDE DEF Buf
    <3> QED  BY <3>7, <3>8, <3>9
  <2>3. ASSUME UNCHANGED <<bufs, wire>>, invalid' = [invalid EXCEPT ![<<c, "sock">>] = TRUE]
        PROVE  Buf /\ wire' \in [Conn -> Seq(Unit)] /\ invalid' \in [Conn \X Side -> BOOLEAN]
    <3>1. Buf
      BY <1>0, <2>1, <2>3, ReadingDone
    <3>2. wire' \in [Conn -> Seq(Unit)] /\ invalid' \in [Conn \X Side -> BOOLEAN]
      BY <2>0, <2>3 DEF TypeInv, TypeOK
    <3> HIDE DEF Buf
    <3> QED  BY <3>1, <3>2
  <2>4. Buf /\ wire' \in [Conn -> Seq(Unit)] /\ invalid' \in [Conn \X Side -> BOOLEAN]
    <3> HIDE DEF Buf
    <3> QED  BY <1>3, <2>2, <2>3 DEF ReaderApc, b
  <2>5. /\ reader' \in [Conn -> {"none", "run", "wait", "ended"}]
        /\ rev' \in [Conn \X Side -> BOOLEAN] /\ wev' \in [Conn \X Side -> BOOLEAN]
    BY <1>0, <1>3 DEF ReaderApc, TypeInv, TypeOK
  <2>6. UNCHANGED <<scenario, producer, refresher, consumer, at, lists, in_writing,
                    caches, interrupted, sent, closed, stub, history>>
    BY <1>3 DEF ReaderApc
  <2> QED
    BY <2>4, <2>5, <2>6 DEF TypeInv, TypeOK, caches, WaitsAt, lists, stub, history
<1> QED  BY <1>1, <1>2, <1>3 DEF ReaderThread

\* bufc is written, dropped, or a bufp appended.
LEMMA BuffersMove ==
  ASSUME TypeInv, NEW c \in Conn, NEW s \in Side, UNCHANGED in_reading,
         \/ bufs' = Written(c, s)
         \/ Len(bufs[<<c, s>>]) > 1 /\ bufs' = [bufs EXCEPT ![<<c, s>>] = Tail(@)]
         \/ bufs' = [bufs EXCEPT ![<<c, s>>] = Append(@, NewBuffer)]
  PROVE  /\ bufs' \in [Conn \X Side -> Seq(Buffer) \ {<<>>}]
         /\ in_reading' \in [Conn \X Side -> 0 .. HdrLen + 2]
         /\ \A y \in Conn \X Side : Shaped(bufs'[y], in_reading'[y])
<1> DEFINE q == bufs[<<c, s>>]
           r == in_reading[<<c, s>>]
           first == [q EXCEPT ![1].off = Len(q[1].data)]
<1>1. <<c, s>> \in Conn \X Side
  OBVIOUS
<1>2. Shaped(q, r) /\ r \in Nat
  BY Bufs
<1>3. in_reading' = [in_reading EXCEPT ![<<c, s>>] = r]
  BY DEF TypeInv, TypeOK
<1>4. /\ bufs' = Written(c, s) => bufs' = [bufs EXCEPT ![<<c, s>>] = first]
      /\ bufs' = [bufs EXCEPT ![<<c, s>>] = Tail(@)] => bufs' = [bufs EXCEPT ![<<c, s>>] = Tail(q)]
      /\ bufs' = [bufs EXCEPT ![<<c, s>>] = Append(@, NewBuffer)]
           => bufs' = [bufs EXCEPT ![<<c, s>>] = Append(q, NewBuffer)]
  BY DEF Written
<1>5. /\ Shaped(first, r) /\ Shaped(Append(q, NewBuffer), r)
      /\ Len(q) > 1 => Shaped(Tail(q), r)
  <2> HIDE DEF q, r
  <2>1. Shaped(first, r)
    BY <1>2, ShapedFirst
  <2>2. Shaped(Append(q, NewBuffer), r)
    BY <1>2, ShapedLonger
  <2>3. Len(q) > 1 => Shaped(Tail(q), r)
    BY <1>2, ShapedShorter
  <2> QED  BY <2>1, <2>2, <2>3
<1> DEFINE p == IF bufs' = Written(c, s) THEN first
                ELSE IF Len(q) > 1 /\ bufs' = [bufs EXCEPT ![<<c, s>>] = Tail(@)] THEN Tail(q)
                ELSE Append(q, NewBuffer)
<1> HIDE DEF r, first
<1>6. Shaped(p, r) /\ bufs' = [bufs EXCEPT ![<<c, s>>] = p]
  BY <1>4, <1>5
<1> HIDE DEF p
<1> QED  BY <1>1, <1>2, <1>3, <1>6, DevbufChanged

\* The producer of a connection.
LEMMA ProducerTyped ==
  ASSUME TypeInv, NEW c \in Conn, ProducerThread(c)
  PROVE  TypeInv'
<1> DEFINE Buf == /\ bufs' \in [Conn \X Side -> Seq(Buffer) \ {<<>>}]
                  /\ in_reading' \in [Conn \X Side -> 0 .. HdrLen + 2]
                  /\ \A y \in Conn \X Side : Shaped(bufs'[y], in_reading'[y])
<1>1. /\ in_writing \in [Conn \X Side -> BOOLEAN] /\ wev \in [Conn \X Side -> BOOLEAN]
      /\ answered \in [Conn -> Seq(Seq(Unit))]
      /\ producer \in [Conn -> {"none", "lookup", "add", "link", "run", "wait", "ended"}]
  BY DEF TypeInv, TypeOK
<1>2. /\ in_writing' \in [Conn \X Side -> BOOLEAN] /\ wev' \in [Conn \X Side -> BOOLEAN]
      /\ producer' \in [Conn -> {"none", "lookup", "add", "link", "run", "wait", "ended"}]
  <2>1. CASE ProducerTurn(c)
    <3>1. (in_writing[<<c, "sock">>] \/ CanWrite(c, "sock")) \in BOOLEAN
      OBVIOUS
    <3> HIDE DEF CanWrite
    <3>2. in_writing' \in [Conn \X Side -> BOOLEAN]
      BY <1>1, <2>1, <3>1 DEF ProducerTurn
    <3> QED  BY <1>1, <2>1, <3>2 DEF ProducerTurn, events
  <2>2. CASE ProducerWake(c)
    BY <1>1, <2>2 DEF ProducerWake, devbuf
  <2>3. CASE ProducerApc(c)
    BY <1>1, <2>3 DEF ProducerApc
  <2> QED  BY <2>1, <2>2, <2>3 DEF ProducerThread
<1>3. Buf /\ answered' \in [Conn -> Seq(Seq(Unit))]
  <2>1. CASE UNCHANGED <<bufs, in_reading, answered>>
    BY <1>1, <2>1, DevbufKept
  <2>2. CASE ProducerApc(c) /\ bufs' = Written(c, "dev")
              /\ answered' = [answered EXCEPT ![c] = Append(@, bufc(c, "dev").data)]
    <3>1. "dev" \in Side
      BY DEF Side
    <3>2. UNCHANGED in_reading
      BY <2>2 DEF ProducerApc
    <3>3. Buf
      <4> HIDE DEF TypeInv
      <4> QED  BY <2>2, <3>1, <3>2, BuffersMove
    <3>4. bufc(c, "dev").data \in Seq(Unit)
      BY <3>1, Bufs
    <3>5. answered' \in [Conn -> Seq(Seq(Unit))]
      BY <1>1, <2>2, <3>4
    <3> QED  BY <3>3, <3>5
  <2> HIDE DEF Buf
  <2> QED
    BY <2>1, <2>2
    DEF ProducerThread, ProducerTurn, ProducerWake, ProducerApc, devbuf, history
<1>4. UNCHANGED <<scenario, reader, refresher, consumer, at, lists, invalid, rev,
                  caches, interrupted, clients, stub, forwarded>>
  BY DEF ProducerThread, ProducerTurn, ProducerWake, ProducerApc, events, devbuf, history
<1> QED
  BY <1>2, <1>3, <1>4 DEF TypeInv, TypeOK, caches, WaitsAt, lists, clients, stub

\* The refresher of a connection.
LEMMA RefresherTyped ==
  ASSUME TypeInv, NEW c \in Conn, RefresherThread(c)
  PROVE  TypeInv'
<1> DEFINE Buf == /\ bufs' \in [Conn \X Side -> Seq(Buffer) \ {<<>>}]
                  /\ in_reading' \in [Conn \X Side -> 0 .. HdrLen + 2]
                  /\ \A y \in Conn \X Side : Shaped(bufs'[y], in_reading'[y])
<1>1. /\ rev \in [Conn \X Side -> BOOLEAN] /\ wev \in [Conn \X Side -> BOOLEAN]
      /\ refresher \in [Conn -> {"none", "run", "ended"}]
  BY DEF TypeInv, TypeOK
<1>2. UNCHANGED <<scenario, producer, reader, consumer, at, lists, in_reading, in_writing,
                  invalid, caches, interrupted, clients, stub, history>>
  BY DEF RefresherThread, DropBufc, NewBufp, RefresherEnds, threads, devbuf
<1>3. Buf
  <2>1. CASE \E s \in Side : DropBufc(c, s)
    <3>1. PICK s \in Side : DropBufc(c, s)
      BY <2>1
    <3>2. Len(bufs[<<c, s>>]) > 1 /\ bufs' = [bufs EXCEPT ![<<c, s>>] = Tail(@)]
      BY <3>1 DEF DropBufc, CanDrop
    <3> QED  BY <1>2, <3>2, BuffersMove
  <2>2. CASE \E s \in Side : NewBufp(c, s)
    <3>1. PICK s \in Side : NewBufp(c, s)
      BY <2>2
    <3>2. bufs' = [bufs EXCEPT ![<<c, s>>] = Append(@, NewBuffer)] \/ UNCHANGED bufs
      BY <3>1 DEF NewBufp
    <3> QED  BY <1>2, <3>2, BuffersMove, DevbufKept
  <2>3. CASE RefresherEnds(c)
    BY <2>3, DevbufKept DEF RefresherEnds, devbuf
  <2> QED  BY <2>1, <2>2, <2>3 DEF RefresherThread
<1>4. /\ rev' \in [Conn \X Side -> BOOLEAN] /\ wev' \in [Conn \X Side -> BOOLEAN]
      /\ refresher' \in [Conn -> {"none", "run", "ended"}]
  <2>1. ASSUME NEW s \in Side, DropBufc(c, s)
        PROVE  /\ rev' = rev /\ wev' \in [Conn \X Side -> BOOLEAN] /\ refresher' = refresher
    BY <1>1, <2>1 DEF DropBufc, DropWakes, threads
  <2>2. ASSUME NEW s \in Side, NewBufp(c, s)
        PROVE  /\ rev' \in [Conn \X Side -> BOOLEAN] /\ wev' = wev
               /\ refresher' \in [Conn -> {"none", "run", "ended"}]
    BY <1>1, <2>2 DEF NewBufp
  <2>3. CASE RefresherEnds(c)
    BY <1>1, <2>3 DEF RefresherEnds, events
  <2> QED  BY <1>1, <2>1, <2>2, <2>3 DEF RefresherThread
<1> QED
  BY <1>2, <1>3, <1>4 DEF TypeInv, TypeOK, caches, WaitsAt, lists, clients, stub, history

\* The connection that a waiting consumer goes on with.
LEMMA GoesOn ==
  ASSUME TypeInv, NEW k \in Conn, ConsumerGoesOn(k)
  PROVE  /\ at[k] \in Conn /\ <<at[k], "dev">> \in Conn \X Side /\ "dev" \in Side
         /\ consumer' \in [Conn -> {"none", "look", "add", "refused", "run", "wait"}]
         /\ \A l \in Conn : consumer'[l] = "wait" => consumer[l] = "wait"
         /\ rev' \in [Conn \X Side -> BOOLEAN]
<1>1. at[k] \in Conn
  BY DEF TypeInv, TypeOK, WaitsAt, ConsumerGoesOn
<1>2. "dev" \in Side
  BY DEF Side
<1>3. /\ consumer' \in [Conn -> {"none", "look", "add", "refused", "run", "wait"}]
      /\ \A l \in Conn : consumer'[l] = "wait" => consumer[l] = "wait"
  BY DEF TypeInv, TypeOK, ConsumerGoesOn
<1>4. rev' \in [Conn \X Side -> BOOLEAN]
  BY DEF TypeInv, TypeOK, ConsumerGoesOn
<1> QED  BY <1>1, <1>2, <1>3, <1>4

\* The consumer of the device.
LEMMA ConsumerTyped ==
  ASSUME TypeInv, NEW k \in Conn, ConsumerThread(k)
  PROVE  TypeInv'
<1> DEFINE Buf == /\ bufs' \in [Conn \X Side -> Seq(Buffer) \ {<<>>}]
                  /\ in_reading' \in [Conn \X Side -> 0 .. HdrLen + 2]
                  /\ \A y \in Conn \X Side : Shaped(bufs'[y], in_reading'[y])
           Consumers == [Conn -> {"none", "look", "add", "refused", "run", "wait"}]
           c == at[k]
           b == bufp(c, "dev")
<1>0. consumer \in Consumers /\ at \in [Conn -> Conn \cup {NoConn}]
  BY DEF TypeInv, TypeOK
<1>1. CASE ConsumerLook(k) \/ ConsumerAdd(k)
  <2>1. Buf
    BY <1>1, DevbufKept DEF ConsumerLook, ConsumerAdd, devbuf
  <2>2. consumer' \in Consumers /\ consumerThreadList' \in SUBSET Conn
    <3>1. consumerThreadList \in SUBSET Conn
      BY DEF TypeInv, TypeOK
    <3> QED  BY <1>0, <1>1, <3>1 DEF ConsumerLook, ConsumerAdd, lists
  <2>3. WaitsAt'
    <3>1. at' = at /\ \A l \in Conn : consumer'[l] = "wait" => consumer[l] = "wait"
      BY <1>0, <1>1 DEF ConsumerLook, ConsumerAdd
    <3> QED  BY <3>1 DEF WaitsAt, TypeInv
  <2>4. UNCHANGED <<scenario, producer, reader, refresher, at, next, seen, in_writing, invalid,
                    events, caches, interrupted, clients, stub, history>>
    BY <1>1 DEF ConsumerLook, ConsumerAdd, lists, devbuf
  <2> QED
    BY <2>1, <2>2, <2>3, <2>4 DEF TypeInv, TypeOK, caches, events, clients, stub, history
<1>2. CASE ConsumerFirst(k)
  <2>1. Buf
    BY <1>2, DevbufKept DEF ConsumerFirst, devbuf
  <2>2. at' \in [Conn -> Conn \cup {NoConn}]
    BY <1>0, <1>2 DEF ConsumerFirst, TypeInv, TypeOK
  <2>3. WaitsAt'
    <3>1. consumer' = consumer /\ consumer[k] = "run" /\ \A l \in Conn : l # k => at'[l] = at[l]
      BY <1>0, <1>2 DEF ConsumerFirst
    <3>2. \A l \in Conn : consumer'[l] = "wait" => consumer[l] = "wait" /\ l # k
      BY <3>1
    <3> QED  BY <3>1, <3>2 DEF WaitsAt, TypeInv
  <2>4. UNCHANGED <<scenario, producer, reader, refresher, consumer, lists, in_writing, invalid,
                    events, caches, interrupted, clients, stub, history>>
    BY <1>2 DEF ConsumerFirst, devbuf
  <2> QED
    BY <2>1, <2>2, <2>3, <2>4 DEF TypeInv, TypeOK, caches, lists, events, clients, stub, history
<1>3. CASE ConsumerTurn(k)
  <2>1. c \in Conn /\ "dev" \in Side /\ <<c, "dev">> \in Conn \X Side
    BY <1>0, <1>3 DEF ConsumerTurn, Side
  <2> DEFINE write == CanWrite(c, "dev")
             writing == write \/ in_writing[<<c, "dev">>]
             read == writing \/ b.step \in {1, 2}
             old == in_reading[<<c, "dev">>]
             starts == read /\ old = 0 /\ Asks("dev", b) > 0
             asked == IF starts THEN Asks("dev", b) ELSE old
             new == read_dev("dev", b)
  <2>2. /\ b \in Buffer /\ Sound(b) /\ Len(b.data) \in Nat /\ old \in Nat
        /\ Len(b.data) + old <= HdrLen + 2
    <3> HIDE DEF c
    <3> QED  BY <2>1, Bufs
  <2>3. /\ new \in Buffer /\ Sound(new) /\ new.data = b.data
        /\ Asks("dev", b) \in Nat /\ Len(b.data) + Asks("dev", b) <= HdrLen + 2
    <3> HIDE DEF b
    <3> QED  BY <2>1, <2>2, ReadDev
  <2>4. /\ in_writing' = [in_writing EXCEPT ![<<c, "dev">>] = writing]
        /\ todo' = IF write THEN todo \cup {<<c, bufc(c, "sock").data[1][2]>>} ELSE todo
        /\ bufs' = IF read THEN WithBufp(c, "dev", new) ELSE bufs
        /\ in_reading' = [in_reading EXCEPT ![<<c, "dev">>] = asked]
        /\ at' = [at EXCEPT ![k] = IF Leaves(c, asked, writing) THEN next[c] ELSE @]
        /\ consumer' = [consumer EXCEPT ![k] =
                          IF /\ ~Leaves(c, asked, writing)
                             /\ asked > 0 /\ (writing \/ ~Unwritten(bufc(c, "sock")))
                          THEN "wait" ELSE "run"]
    <3> HIDE DEF CanWrite
    <3> QED  BY <1>3, Zenon DEF ConsumerTurn
  <2>5. UNCHANGED <<scenario, producer, reader, refresher, lists, invalid, events,
                    caches, interrupted, clients, devq, gone, history>>
    BY <1>3 DEF ConsumerTurn
  <2>6. asked \in Nat /\ Len(new.data) + asked <= HdrLen + 2
    <3> HIDE DEF read, b, old, new
    <3> QED  BY <2>2, <2>3
  <2>7. Buf
    <3>1. CASE read
      <4>1. bufs' = WithBufp(c, "dev", new)
        BY <2>4, <3>1
      <4> HIDE DEF asked, new, b, c
      <4> QED  BY <2>1, <2>3, <2>4, <2>6, <4>1, BufpChanged
    <3>2. CASE ~read
      <4>1. bufs' = bufs /\ asked = old
        BY <2>4, <3>2
      <4>2. UNCHANGED in_reading
        BY <2>1, <2>4, <4>1 DEF TypeInv, TypeOK
      <4> QED  BY <4>1, <4>2, DevbufKept
    <3> HIDE DEF read, Buf
    <3> QED  BY <3>1, <3>2
  <2>8. in_writing' \in [Conn \X Side -> BOOLEAN]
    <3>1. writing \in BOOLEAN
      OBVIOUS
    <3> HIDE DEF writing, c
    <3> QED  BY <2>4, <3>1 DEF TypeInv, TypeOK
  <2>9. todo' \in SUBSET (Conn \X Numbers)
    <3>1. todo \in SUBSET (Conn \X Numbers)
      BY DEF TypeInv, TypeOK
    <3>2. ASSUME write PROVE bufc(c, "sock").data[1][2] \in Numbers
      <4>1. bufc(c, "sock").step = 3
        BY <3>2 DEF CanWrite, Unwritten, Peer
      <4> HIDE DEF c
      <4>2. /\ bufc(c, "sock").data \in Seq(Unit) /\ Sound(bufc(c, "sock"))
            /\ Len(bufc(c, "sock").data) \in Nat
        <5>1. "sock" \in Side
          BY DEF Side
        <5> QED  BY <2>1, <5>1, Bufs
      <4>3. 1 \in 1 .. Len(bufc(c, "sock").data)
        BY <4>1, <4>2, ConstantsAssumption DEF Sound
      <4>4. bufc(c, "sock").data[1] \in Unit
        BY <4>2, <4>3
      <4> QED  BY <4>4 DEF Unit
    <3> HIDE DEF write, c
    <3> QED  BY <2>1, <2>4, <3>1, <3>2
  <2>10. /\ consumer' \in Consumers /\ at' \in [Conn -> Conn \cup {NoConn}]
         /\ consumer'[k] = "wait" => at'[k] = c
         /\ \A l \in Conn : l # k => consumer'[l] = consumer[l] /\ at'[l] = at[l]
    <3>1. next[c] \in Conn \cup {NoConn}
      BY <2>1 DEF TypeInv, TypeOK
    <3> DEFINE leaves == Leaves(c, asked, writing)
               more == asked > 0 /\ (writing \/ ~Unwritten(bufc(c, "sock")))
    <3>2. /\ at' = [at EXCEPT ![k] = IF leaves THEN next[c] ELSE @]
          /\ consumer' = [consumer EXCEPT ![k] = IF ~leaves /\ more THEN "wait" ELSE "run"]
      BY <2>4
    <3> HIDE DEF leaves, more
    <3> QED  BY <1>0, <2>1, <3>1, <3>2
  <2>11. WaitsAt'
    <3>1. c # NoConn
      BY <2>1, ConstantsAssumption
    <3> HIDE DEF c
    <3> QED  BY <2>10, <3>1 DEF WaitsAt, TypeInv
  <2> HIDE DEF Buf
  <2>12. Buf /\ TypeOK'
    <3> HIDE DEF c, b, write, writing, read, old, starts, asked, new
    <3>1. /\ bufs' \in [Conn \X Side -> Seq(Buffer) \ {<<>>}]
          /\ in_reading' \in [Conn \X Side -> 0 .. HdrLen + 2]
      BY <2>7 DEF Buf
    <3>2. /\ consumer' \in Consumers /\ at' \in [Conn -> Conn \cup {NoConn}]
          /\ todo' \subseteq Conn \X Numbers
      BY <2>9, <2>10
    <3>3. UNCHANGED <<scenario, producer, reader, refresher, next, seen, consumerThreadList,
                      invalid, rev, wev, hdrs_cache, kept, clash, interrupted, sent, wire,
                      closed, devq, gone, forwarded, answered>>
      BY <2>5 DEF lists, events, caches, clients, history
    <3>4. TypeOK
      BY DEF TypeInv
    <3> QED  BY <2>7, <2>8, <3>1, <3>2, <3>3, <3>4 DEF TypeOK, Consumers
  <2> QED  BY <2>5, <2>11, <2>12 DEF TypeInv, Buf, clients
<1>4. CASE ConsumerWake(k)
  <2>1. Buf
    BY <1>4, DevbufKept DEF ConsumerWake, devbuf
  <2>2. ConsumerGoesOn(k)
    BY <1>4 DEF ConsumerWake
  <2>3. wev' \in [Conn \X Side -> BOOLEAN]
    BY <1>4 DEF ConsumerWake, TypeInv, TypeOK
  <2>4. UNCHANGED <<scenario, producer, reader, refresher, at, lists, in_writing, invalid,
                    caches, interrupted, clients, stub, history>>
    BY <1>4 DEF ConsumerWake, devbuf
  <2> QED
    BY <2>1, <2>2, <2>3, <2>4, GoesOn
    DEF TypeInv, TypeOK, caches, WaitsAt, lists, clients, stub, history
<1>5. CASE ConsumerReadApc(k)
  <2>1. ConsumerGoesOn(k) /\ wev' \in [Conn \X Side -> BOOLEAN]
    BY <1>5 DEF ConsumerReadApc, TypeInv, TypeOK
  <2>2. c \in Conn /\ "dev" \in Side /\ <<c, "dev">> \in Conn \X Side
    BY <2>1, GoesOn
  <2> DEFINE old == in_reading[<<c, "dev">>]
             Gets(data) == WithBufp(c, "dev", [b EXCEPT !.data = @ \o data])
  <2>3. in_reading' = [in_reading EXCEPT ![<<c, "dev">>] = 0]
    BY <1>5 DEF ConsumerReadApc
  <2>4. /\ b \in Buffer /\ Sound(b) /\ b.data \in Seq(Unit) /\ Len(b.data) \in Nat
        /\ old \in Nat /\ Len(b.data) + old <= HdrLen + 2
    <3> HIDE DEF c
    <3> QED  BY <2>2, Bufs
  <2>5. ASSUME NEW d \in Seq(Unit), Len(d) <= old, bufs' = Gets(d)
        PROVE  Buf
    <3> DEFINE new == [b EXCEPT !.data = @ \o d]
    <3> HIDE DEF b, c, old
    <3>1. Len(b.data) + Len(d) <= HdrLen + 2
      <4>1. Len(d) \in Nat /\ HdrLen \in Nat
        BY ConstantsAssumption
      <4> QED  BY <2>4, <2>5, <4>1
    <3>2. new \in Buffer /\ Sound(new) /\ Len(new.data) <= HdrLen + 2 /\ Len(new.data) \in Nat
      <4>1. new \in Buffer /\ Sound(new) /\ Len(new.data) <= HdrLen + 2
        BY <2>4, <3>1, DataAdded
      <4> QED  BY <4>1 DEF Buffer
    <3>3. bufs' = WithBufp(c, "dev", new)
      BY <2>5
    <3>4. 0 \in Nat /\ Len(new.data) + 0 <= HdrLen + 2
      BY <3>2
    <3> HIDE DEF new
    <3> QED  BY <2>2, <2>3, <3>2, <3>3, <3>4, BufpChanged
  <2>6. Buf /\ devq' \in Seq(Seq(Unit)) /\ invalid' \in [Conn \X Side -> BOOLEAN]
    <3>0. devq \in Seq(Seq(Unit)) /\ invalid \in [Conn \X Side -> BOOLEAN]
      BY DEF TypeInv, TypeOK
    <3>1. CASE devq # <<>> /\ UNCHANGED invalid
               /\ Len(Head(devq)) <= old /\ bufs' = Gets(Head(devq)) /\ devq' = Tail(devq)
      <4>1. Head(devq) \in Seq(Unit) /\ Tail(devq) \in Seq(Seq(Unit))
        BY <3>0, <3>1
      <4> HIDE DEF Buf, Gets, b, c, old
      <4>2. Buf
        BY <2>5, <3>1, <4>1
      <4> QED  BY <3>0, <3>1, <4>1, <4>2
    <3>2. CASE devq # <<>> /\ UNCHANGED invalid
               /\ Len(Head(devq)) > old /\ bufs' = Gets(SubSeq(Head(devq), 1, old))
               /\ devq' = [devq EXCEPT ![1] = SubSeq(@, old + 1, Len(@))]
      <4>1. Head(devq) \in Seq(Unit) /\ Head(devq) = devq[1] /\ Len(Head(devq)) \in Nat
        BY <3>0, <3>2
      <4> DEFINE d == SubSeq(Head(devq), 1, old)
                 e == SubSeq(Head(devq), old + 1, Len(Head(devq)))
      <4>2. d \in Seq(Unit) /\ Len(d) = old /\ e \in Seq(Unit)
        <5> DEFINE h == Head(devq)
        <5>1. h \in Seq(Unit) /\ old \in Nat /\ old <= Len(h)
          BY <2>4, <3>2, <4>1
        <5> HIDE DEF h, old
        <5>2. SubSeq(h, 1, old) \in Seq(Unit) /\ Len(SubSeq(h, 1, old)) = old
          BY <5>1, Cut
        <5>3. SubSeq(h, old + 1, Len(h)) \in Seq(Unit)
          BY <5>1, Cut
        <5> QED  BY <5>2, <5>3 DEF h
      <4>3. devq' = [devq EXCEPT ![1] = e]
        BY <3>2, <4>1
      <4>4. devq' \in Seq(Seq(Unit))
        <5> DEFINE T == Seq(Unit)
        <5>1. e \in T /\ devq \in Seq(T) /\ devq # <<>>
          BY <3>0, <3>2, <4>2
        <5> HIDE DEF e, T
        <5>2. [devq EXCEPT ![1] = e] \in Seq(T)
          BY <5>1, FirstReplaced
        <5> QED  BY <4>3, <5>2 DEF T
      <4> HIDE DEF Buf, Gets, b, c, old
      <4>5. Len(d) <= old /\ bufs' = Gets(d)
        BY <2>4, <3>2, <4>2
      <4> HIDE DEF d
      <4>6. Buf
        BY <2>5, <4>2, <4>5
      <4> QED  BY <3>0, <3>2, <4>4, <4>6
    <3>3. CASE /\ invalid' = [invalid EXCEPT ![<<c, "dev">>] = TRUE]
               /\ UNCHANGED <<bufs, devq>>
      <4>1. Buf
        <5> HIDE DEF c
        <5> QED  BY <2>2, <2>3, <3>3, ReadingDone
      <4>2. invalid' \in [Conn \X Side -> BOOLEAN]
        BY <3>0, <3>3
      <4> HIDE DEF Buf, Gets, b, c, old
      <4> QED  BY <3>0, <3>3, <4>1, <4>2
    <3> HIDE DEF Buf
    <3> QED  BY <1>5, <3>1, <3>2, <3>3 DEF ConsumerReadApc
  <2>7. UNCHANGED <<scenario, producer, reader, refresher, at, lists, in_writing,
                    caches, interrupted, clients, todo, gone, history>>
    BY <1>5 DEF ConsumerReadApc
  <2> HIDE DEF Buf
  <2> QED
    BY <2>1, <2>6, <2>7, GoesOn
    DEF Buf, TypeInv, TypeOK, caches, WaitsAt, lists, clients, history
<1>6. CASE ConsumerWriteApc(k)
  <2>1. ConsumerGoesOn(k) /\ wev' \in [Conn \X Side -> BOOLEAN]
        /\ in_writing' \in [Conn \X Side -> BOOLEAN]
    BY <1>6 DEF ConsumerWriteApc, TypeInv, TypeOK
  <2>2. c \in Conn /\ "sock" \in Side
    BY <2>1, GoesOn DEF Side
  <2>3. UNCHANGED in_reading
    BY <1>6 DEF ConsumerWriteApc
  <2>4. Buf /\ forwarded' \in [Conn -> Seq(Seq(Unit))]
    <3>0. forwarded \in [Conn -> Seq(Seq(Unit))]
      BY DEF TypeInv, TypeOK
    <3> HIDE DEF c
    <3>1. CASE bufs' = Written(c, "sock")
               /\ forwarded' = [forwarded EXCEPT ![c] = Append(@, bufc(c, "sock").data)]
      <4>1. Buf
        BY <2>2, <2>3, <3>1, BuffersMove
      <4>2. bufc(c, "sock").data \in Seq(Unit)
        BY <2>2, Bufs
      <4>3. forwarded' \in [Conn -> Seq(Seq(Unit))]
        BY <2>2, <3>0, <3>1, <4>2
      <4> HIDE DEF Buf
      <4> QED  BY <4>1, <4>3
    <3>2. CASE UNCHANGED <<bufs, forwarded>>
      BY <2>3, <3>0, <3>2, DevbufKept
    <3> HIDE DEF Buf
    <3> QED  BY <1>6, <3>1, <3>2 DEF ConsumerWriteApc, c
  <2>5. UNCHANGED <<scenario, producer, reader, refresher, at, lists, invalid,
                    caches, interrupted, clients, stub, answered>>
    BY <1>6 DEF ConsumerWriteApc
  <2> HIDE DEF Buf
  <2> QED
    BY <2>1, <2>4, <2>5, GoesOn
    DEF Buf, TypeInv, TypeOK, caches, WaitsAt, lists, clients, stub
<1> QED  BY <1>1, <1>2, <1>3, <1>4, <1>5, <1>6 DEF ConsumerThread

\* The clients, the stub and CTRL-C.
LEMMA EnvironmentTyped ==
  ASSUME TypeInv, Environment
  PROVE  TypeInv'
<1> DEFINE Buf == /\ bufs' \in [Conn \X Side -> Seq(Buffer) \ {<<>>}]
                  /\ in_reading' \in [Conn \X Side -> 0 .. HdrLen + 2]
                  /\ \A y \in Conn \X Side : Shaped(bufs'[y], in_reading'[y])
<1>1. Buf
  BY DevbufKept
  DEF Environment, ClientSend, ClientClose, StubAnswer, DeviceGone, signalhandlerPool, devbuf
<1> HIDE DEF Buf
<1>2. ASSUME NEW c \in Conn, ClientSend(c) PROVE TypeInv'
  <2>1. /\ sent \in [Conn -> Numbers \cup {0}] /\ wire \in [Conn -> Seq(Unit)]
        /\ sent[c] < Len(scenario.kinds[c]) /\ Len(scenario.kinds[c]) <= MaxNumber
        /\ Len(scenario.kinds[c]) \in Nat
    <3>1. scenario \in Scenarios /\ sent[c] < Len(scenario.kinds[c])
      BY <1>2 DEF ClientSend, TypeInv, TypeOK
    <3>2. scenario.kinds \in [Conn -> Seq(Kind)] /\ Len(scenario.kinds[c]) <= MaxNumber
      BY <3>1, ConstantsAssumption
    <3> QED  BY <3>1, <3>2 DEF TypeInv, TypeOK
  <2>2. sent[c] + 1 \in Numbers /\ sent[c] + 1 <= Len(scenario.kinds[c])
    BY <2>1, ConstantsAssumption DEF Numbers
  <2> DEFINE m == Message(c, sent[c] + 1, TRUE)
  <2>3. m \in Seq(Unit)
    BY <2>2, Messages
  <2>4. sent' = [sent EXCEPT ![c] = @ + 1] /\ wire' = [wire EXCEPT ![c] = @ \o m]
    BY <1>2 DEF ClientSend
  <2> HIDE DEF m
  <2>5. /\ sent' \in [Conn -> Numbers \cup {0}] /\ wire' \in [Conn -> Seq(Unit)]
    BY <2>1, <2>2, <2>3, <2>4
  <2>6. \A d \in Conn : sent'[d] <= Len(scenario.kinds[d])
    BY <2>1, <2>2, <2>4 DEF TypeInv
  <2>7. UNCHANGED <<scenario, threads, lists, devbuf, events, caches, interrupted,
                    closed, stub, history>>
    BY <1>2 DEF ClientSend
  <2> QED
    BY <1>1, <2>5, <2>6, <2>7
    DEF Buf, TypeInv, TypeOK, caches, WaitsAt, threads, lists, devbuf, events, stub, history
<1>3. ASSUME NEW c \in Conn, ClientClose(c) PROVE TypeInv'
  <2>1. closed' \in [Conn -> BOOLEAN]
    BY <1>3 DEF ClientClose, TypeInv, TypeOK
  <2>2. UNCHANGED <<scenario, threads, lists, devbuf, events, caches, interrupted,
                    sent, wire, stub, history>>
    BY <1>3 DEF ClientClose
  <2> QED
    BY <1>1, <2>1, <2>2
    DEF Buf, TypeInv, TypeOK, caches, WaitsAt, threads, lists, devbuf, events, stub, history
<1>4. ASSUME StubAnswer PROVE TypeInv'
  <2>1. PICK x \in todo : /\ todo' = todo \ {x}
                          /\ devq' = Append(devq, Message(x[1], x[2], FALSE))
    BY <1>4 DEF StubAnswer
  <2>2. /\ devq \in Seq(Seq(Unit)) /\ todo \in SUBSET (Conn \X Numbers)
        /\ x[1] \in Conn /\ x[2] \in Numbers
    BY DEF TypeInv, TypeOK
  <2> DEFINE m == Message(x[1], x[2], FALSE)
  <2>3. m \in Seq(Unit)
    BY <2>2, Messages
  <2>4. devq' \in Seq(Seq(Unit)) /\ todo' \in SUBSET (Conn \X Numbers)
    <3>1. devq' = Append(devq, m) /\ todo' \subseteq todo
      BY <2>1
    <3> HIDE DEF m
    <3> QED  BY <2>2, <2>3, <3>1
  <2>5. UNCHANGED <<scenario, threads, lists, devbuf, events, caches, interrupted,
                    clients, gone, history>>
    BY <1>4 DEF StubAnswer
  <2> QED
    BY <1>1, <2>4, <2>5
    DEF Buf, TypeInv, TypeOK, caches, WaitsAt, threads, lists, devbuf, events, clients, history
<1>5. ASSUME DeviceGone PROVE TypeInv'
  <2>1. gone' \in BOOLEAN
    BY <1>5 DEF DeviceGone
  <2>2. UNCHANGED <<scenario, threads, lists, devbuf, events, caches, interrupted,
                    clients, devq, todo, history>>
    BY <1>5 DEF DeviceGone
  <2> QED
    BY <1>1, <2>1, <2>2
    DEF Buf, TypeInv, TypeOK, caches, WaitsAt, threads, lists, devbuf, events, clients, history
<1>6. ASSUME signalhandlerPool PROVE TypeInv'
  <2>1. rev' \in [Conn \X Side -> BOOLEAN] /\ wev' \in [Conn \X Side -> BOOLEAN]
    <3>1. ASSUME NEW e, NEW s PROVE HandlerWakes(e, s) \in [Conn \X Side -> BOOLEAN]
      <4> DEFINE H(x) == e[x] \/ (x[2] = "sock" /\ x[1] \in Listed)
      <4>1. HandlerWakes(e, s) = [x \in Conn \X Side |-> H(x)]
        BY DEF HandlerWakes
      <4>2. \A x : H(x) \in BOOLEAN
        OBVIOUS
      <4> HIDE DEF H
      <4> QED  BY <4>1, <4>2
    <3> QED  BY <1>6, <3>1 DEF signalhandlerPool
  <2>2. interrupted' \in BOOLEAN
    BY <1>6 DEF signalhandlerPool
  <2>3. UNCHANGED <<scenario, threads, lists, devbuf, caches, clients, stub, history>>
    BY <1>6 DEF signalhandlerPool
  <2> QED
    BY <1>1, <2>1, <2>2, <2>3
    DEF Buf, TypeInv, TypeOK, caches, WaitsAt, threads, lists, devbuf, clients, stub, history
<1> QED  BY <1>2, <1>3, <1>4, <1>5, <1>6 DEF Environment

LEMMA TypeInvInit == Init => TypeInv
<1> SUFFICES ASSUME Init PROVE TypeInv
  OBVIOUS
<1>1. /\ scenario \in Scenarios /\ \A c \in Conn : Len(scenario.kinds[c]) \in Nat
  BY ConstantsAssumption DEF Init
<1>2. /\ <<NewBuffer>> \in Seq(Buffer) \ {<<>>} /\ Len(<<NewBuffer>>) = 1
      /\ Shaped(<<NewBuffer>>, 0) /\ HdrLen \in Nat
  <2>1. <<NewBuffer>> \in Seq(Buffer) /\ Len(<<NewBuffer>>) = 1 /\ <<NewBuffer>>[1] = NewBuffer
    BY NewIsSound
  <2>2. <<NewBuffer>> # <<>> /\ Last(<<NewBuffer>>) = NewBuffer
    BY <2>1, EmptySeq DEF Last
  <2>3. HdrLen \in Nat
    BY ConstantsAssumption
  <2>4. \A i \in 1 .. Len(<<NewBuffer>>) : Sound(<<NewBuffer>>[i])
    BY <2>1, NewIsSound
  <2>5. Len(Last(<<NewBuffer>>).data) + 0 <= HdrLen + 2
    BY <2>2, <2>3, NewIsSound
  <2> QED  BY <2>1, <2>2, <2>3, <2>4, <2>5 DEF Shaped
<1> DEFINE first == <<NewBuffer>>
<1> HIDE DEF first
<1>3. /\ bufs \in [Conn \X Side -> Seq(Buffer) \ {<<>>}]
      /\ in_reading \in [Conn \X Side -> 0 .. HdrLen + 2]
      /\ \A y \in Conn \X Side : bufs[y] = first /\ in_reading[y] = 0
  <2>1. bufs = [x \in Conn \X Side |-> first] /\ first \in Seq(Buffer) \ {<<>>}
    BY <1>2 DEF Init, first
  <2>2. in_reading = [x \in Conn \X Side |-> 0] /\ 0 \in 0 .. HdrLen + 2
    BY <1>2 DEF Init
  <2> QED  BY <2>1, <2>2
<1>4. \A y \in Conn \X Side : Shaped(bufs[y], in_reading[y])
  BY <1>2, <1>3 DEF first
<1>5. /\ next \in [Conn \cup {NoConn} -> Conn \cup {NoConn}]
      /\ <<>> \in Seq(Unit) /\ <<>> \in Seq(Seq(Unit))
  BY DEF Init
<1>6. /\ wire \in [Conn -> Seq(Unit)] /\ devq \in Seq(Seq(Unit))
      /\ forwarded \in [Conn -> Seq(Seq(Unit))] /\ answered \in [Conn -> Seq(Seq(Unit))]
      /\ todo \subseteq Conn \X Numbers
      /\ sent \in [Conn -> Numbers \cup {0}] /\ \A c \in Conn : sent[c] <= Len(scenario.kinds[c])
  <2>1. /\ devq = <<>> /\ todo = {} /\ forwarded = [c \in Conn |-> <<>>]
        /\ answered = [c \in Conn |-> <<>>] /\ wire = [c \in Conn |-> <<>>]
        /\ sent = [c \in Conn |-> 0]
    BY DEF Init
  <2> QED  BY <1>1, <1>5, <2>1
<1>7. /\ hdrs_cache \in [0 .. CacheSize - 1 ->
                            [seqnum : Numbers \cup {0}, direction : {"in", "out"}]]
      /\ kept \subseteq Conn \X Numbers /\ clash \in BOOLEAN
      /\ interrupted \in BOOLEAN /\ gone \in BOOLEAN
      /\ closed \in [Conn -> BOOLEAN] /\ in_writing \in [Conn \X Side -> BOOLEAN]
      /\ invalid \in [Conn \X Side -> BOOLEAN]
      /\ rev \in [Conn \X Side -> BOOLEAN] /\ wev \in [Conn \X Side -> BOOLEAN]
  BY DEF Init
<1>8. /\ producer \in [Conn -> {"none", "lookup", "add", "link", "run", "wait", "ended"}]
      /\ reader \in [Conn -> {"none", "run", "wait", "ended"}]
      /\ refresher \in [Conn -> {"none", "run", "ended"}]
      /\ consumer \in [Conn -> {"none", "look", "add", "refused", "run", "wait"}]
      /\ at \in [Conn -> Conn \cup {NoConn}] /\ seen \in [Conn -> Conn \cup {NoConn}]
      /\ consumerThreadList \subseteq Conn
  BY DEF Init
<1>9. TypeOK
  BY <1>1, <1>3, <1>5, <1>6, <1>7, <1>8 DEF TypeOK
<1>10. WaitsAt
  BY DEF Init, WaitsAt
<1> QED  BY <1>4, <1>6, <1>9, <1>10 DEF TypeInv

LEMMA TypeInvStep == TypeInv /\ [Next]_vars => TypeInv'
<1> SUFFICES ASSUME TypeInv, [Next]_vars PROVE TypeInv'
  OBVIOUS
<1>1. CASE Next
  BY <1>1, JoinTyped, ReaderTyped, ProducerTyped, RefresherTyped, ConsumerTyped,
     EnvironmentTyped
  DEF Next
<1>2. CASE UNCHANGED vars
  <2>1. UNCHANGED bufs /\ UNCHANGED in_reading
    BY <1>2 DEF vars, devbuf
  <2> QED
    BY <1>2, <2>1
    DEF TypeInv, TypeOK, WaitsAt, vars, threads, lists, devbuf, events, caches, clients, stub,
        history
<1> QED  BY <1>1, <1>2

LEMMA TypeInvHolds == Spec => []TypeInv
BY TypeInvInit, TypeInvStep, PTL DEF Spec

\* In every behaviour of any number of clients every buffer of usbip_forward.c
\* holds no more than one message, with room for what is being read into it, and
\* all states are of their types.
THEOREM TypeCorrect == Spec => []TypeOK
<1>1. TypeInv => TypeOK
  BY DEF TypeInv
<1> QED  BY <1>1, TypeInvHolds, PTL
-----------------------------------------------------------------------------
(* What the threads do to the buffers of a socket.                          *)

Typed(q, r, v, m, f) ==
  Shaped(q, r) /\ r \in Nat /\ v \in Seq(Unit) /\ m \in Nat /\ f \in Seq(Seq(Unit))

\* bufp holds the front of its command.
LEMMA BufpOfCommand ==
  ASSUME NEW c, NEW ks, NEW q, NEW r, NEW w, NEW v, NEW m, NEW f,
         Typed(q, r, v, m, f), Sock(c, ks, q, r, w, v, m, f)
  PROVE  LET d == Last(q).data
             n == Filling(q, f)
         IN /\ Len(q) \in Nat \ {0} /\ Len(f) \in Nat /\ HdrLen \in Nat \ {0}
            /\ Base(q, f) \in Nat /\ n \in Nat
            /\ Last(q) \in Buffer /\ Sound(Last(q)) /\ Last(q) = q[Len(q)]
            /\ Head(q) = q[1] /\ Head(q) \in Buffer /\ Sound(Head(q))
            /\ d \in Seq(Unit) /\ Len(d) \in Nat
            /\ CmdLen(ks, n) \in Nat /\ HdrLen <= CmdLen(ks, n)
            /\ Len(d) <= CmdLen(ks, n)
            /\ Len(d) > 0 => d[1] = <<c, n, 1>> /\ n <= m
            /\ Len(d) = CmdLen(ks, n) => d = Command(c, ks, n)
<1> DEFINE d == Last(q).data
           n == Filling(q, f)
           st == d \o v
<1>1. /\ Len(q) \in Nat \ {0} /\ Last(q) \in Buffer /\ Sound(Last(q)) /\ Last(q) = q[Len(q)]
      /\ Head(q) = q[1] /\ Head(q) \in Buffer /\ Sound(Head(q))
  BY Ends DEF Typed
<1>2. /\ Len(f) \in Nat /\ HdrLen \in Nat \ {0} /\ m \in Nat /\ v \in Seq(Unit)
  BY ConstantsAssumption DEF Typed
<1>3. Base(q, f) \in Nat /\ n \in Nat
  BY <1>1 DEF Sock, Rest, Filling
<1>4. d \in Seq(Unit) /\ Len(d) \in Nat
  BY <1>1 DEF Buffer
<1>5. CmdLen(ks, n) \in Nat /\ CmdLen(ks, n) > 0 /\ HdrLen <= CmdLen(ks, n)
  BY Lengths
<1>6. /\ d # <<>> => Len(d) <= CmdLen(ks, n)
      /\ Stream(c, ks, st, n, m)
  BY DEF Sock, Rest
<1> HIDE DEF d, n
<1>7. Len(d) <= CmdLen(ks, n)
  BY <1>4, <1>5, <1>6
<1>8. /\ st \in Seq(Unit) /\ Len(st) = Len(d) + Len(v) /\ Len(v) \in Nat
      /\ \A i \in 1 .. Len(d) : i \in 1 .. Len(st) /\ st[i] = d[i]
  BY <1>2, <1>4
<1> HIDE DEF st
<1>9. /\ st # <<>> => n \in 1 .. m
      /\ \A j \in 1 .. Len(st) : j <= CmdLen(ks, n) => st[j] = <<c, n, j>>
  <2>1. st # <<>> => n \in 1 .. m
    BY <1>2, <1>3, <1>6, <1>8, StreamFirst
  <2>2. ASSUME NEW j \in 1 .. Len(st), j <= CmdLen(ks, n) PROVE st[j] = <<c, n, j>>
    <3>1. m \in Nat /\ n \in Nat /\ st \in Seq(Unit)
      BY <1>2, <1>3, <1>8
    <3>2. Stream(c, ks, st, n, m)
      BY <1>6
    <3> QED  BY <2>2, <3>1, <3>2, StreamFront
  <2> QED  BY <2>1, <2>2
<1>10. \A j \in 1 .. Len(d) : d[j] = <<c, n, j>>
  BY <1>4, <1>5, <1>7, <1>8, <1>9
<1>11. Len(d) > 0 => d[1] = <<c, n, 1>> /\ n <= m
  <2> SUFFICES ASSUME Len(d) > 0 PROVE d[1] = <<c, n, 1>> /\ n <= m
    OBVIOUS
  <2>1. 1 \in 1 .. Len(d) /\ st # <<>>
    BY <1>4, <1>8
  <2> QED  BY <1>2, <1>9, <1>10, <2>1
<1>12. Len(d) = CmdLen(ks, n) => d = Command(c, ks, n)
  <2>1. d = [j \in 1 .. Len(d) |-> d[j]]
    BY <1>4, LenProperties
  <2> QED  BY <1>10, <2>1 DEF Command
<1> QED
  BY <1>1, <1>2, <1>3, <1>4, <1>5, <1>7, <1>11, <1>12 DEF d, n

\* p are the buffers q with another bufp.
HasBufp(p, q, b) ==
  /\ Len(p) = Len(q)
  /\ \A i \in 1 .. Len(q) : p[i] = IF i = Len(q) THEN b ELSE q[i]
  /\ Last(p) = b
  /\ Head(p) = IF Len(q) = 1 THEN b ELSE Head(q)

LEMMA BufpReplaced ==
  ASSUME NEW q \in Seq(Buffer), q # <<>>, NEW b \in Buffer,
         NEW p, p = [q EXCEPT ![Len(q)] = b]
  PROVE  HasBufp(p, q, b)
<1>2. Len(p) = Len(q)
  BY LastReplaced
<1>3. ASSUME NEW i \in 1 .. Len(q) PROVE p[i] = IF i = Len(q) THEN b ELSE q[i]
  BY LastReplaced
<1>4. Last(p) = b
  BY LastReplaced
<1>5. Head(p) = IF Len(q) = 1 THEN b ELSE Head(q)
  BY LastReplaced
<1> QED  BY <1>2, <1>3, <1>4, <1>5 DEF HasBufp

\* A turn of the reader's loop: read_dev marks bufp, and a read may begin.
LEMMA SockTurn ==
  ASSUME NEW c, NEW ks, NEW q, NEW r, NEW w, NEW v, NEW m, NEW f,
         Typed(q, r, v, m, f), Sock(c, ks, q, r, w, v, m, f),
         NEW b \in Buffer, b.data = Last(q).data, b.off = Last(q).off,
         b.step = (IF Len(Last(q).data) < HdrLen THEN 1
                   ELSE IF Last(q).step = 3 THEN 3
                   ELSE IF Len(Last(q).data) < CmdLen(ks, Filling(q, f)) THEN 2 ELSE 3),
         NEW t, \/ t = r
                \/ /\ b.step # 3
                   /\ t = (IF Len(Last(q).data) < HdrLen THEN HdrLen
                           ELSE CmdLen(ks, Filling(q, f))) - Len(Last(q).data)
  PROVE  Sock(c, ks, [q EXCEPT ![Len(q)] = b], t, w, v, m, f)
<1>0. PICK p : p = [q EXCEPT ![Len(q)] = b]
  OBVIOUS
<1> DEFINE d == Last(q).data
           n == Filling(q, f)
<1>1. /\ Len(q) \in Nat \ {0} /\ Len(f) \in Nat /\ HdrLen \in Nat \ {0}
      /\ Base(q, f) \in Nat /\ n \in Nat
      /\ Last(q) \in Buffer /\ Sound(Last(q)) /\ Last(q) = q[Len(q)]
      /\ Head(q) = q[1]
      /\ d \in Seq(Unit) /\ Len(d) \in Nat
      /\ CmdLen(ks, n) \in Nat /\ HdrLen <= CmdLen(ks, n)
      /\ Len(d) <= CmdLen(ks, n)
      /\ Len(d) > 0 => d[1] = <<c, n, 1>> /\ n <= m
      /\ Len(d) = CmdLen(ks, n) => d = Command(c, ks, n)
  BY BufpOfCommand
<1>2. /\ Len(p) = Len(q)
      /\ \A i \in 1 .. Len(q) : p[i] = IF i = Len(q) THEN b ELSE q[i]
      /\ Last(p) = b
      /\ Head(p) = IF Len(q) = 1 THEN b ELSE Head(q)
  <2>1. q \in Seq(Buffer) /\ q # <<>>
    BY DEF Typed, Shaped
  <2>2. HasBufp(p, q, b)
    BY <1>0, <2>1, BufpReplaced
  <2> QED  BY <2>2 DEF HasBufp
<1>3. Base(p, f) = Base(q, f) /\ Filling(p, f) = n
  BY <1>1, <1>2 DEF Base, Filling
<1>4. Last(q).step = 3 => Len(d) >= HdrLen /\ b.step = 3
  BY <1>1 DEF Sound
<1> HIDE DEF d, n
<1>5. OneEach(c, ks, p, m, f)
  <2> SUFFICES ASSUME NEW i \in 1 .. Len(q)
               PROVE  /\ i < Len(q) => p[i].step = 3
                      /\ p[i].step = 3 => /\ Base(q, f) + i <= m
                                          /\ p[i].data = Command(c, ks, Base(q, f) + i)
                      /\ p[i].off # 0 => i = 1 /\ p[i].step = 3 /\ p[i].off = Len(p[i].data)
    BY <1>2, <1>3 DEF OneEach
  <2>1. /\ i < Len(q) => q[i].step = 3
        /\ q[i].step = 3 => /\ Base(q, f) + i <= m
                            /\ q[i].data = Command(c, ks, Base(q, f) + i)
        /\ q[i].off # 0 => i = 1 /\ q[i].step = 3 /\ q[i].off = Len(q[i].data)
    BY DEF Sock, OneEach
  <2>2. CASE i # Len(q)
    BY <1>2, <2>1, <2>2
  <2>3. CASE i = Len(q)
    <3>1. p[i] = b /\ q[i] = Last(q) /\ Base(q, f) + i = n
      BY <1>1, <1>2, <2>3 DEF n, Filling
    <3>2. b.off # 0 => i = 1 /\ b.step = 3 /\ b.off = Len(b.data)
      BY <1>4, <2>1, <3>1
    <3>3. b.step = 3 => Last(q).step = 3 \/ Len(d) = CmdLen(ks, n)
      <4>1. b.step = 3 => Last(q).step = 3 \/ ~(Len(d) < CmdLen(ks, n))
        BY DEF d, n
      <4> QED  BY <1>1, <4>1
    <3>4. b.step = 3 => n <= m /\ b.data = Command(c, ks, n)
      <4>1. CASE Last(q).step = 3
        BY <2>1, <3>1, <4>1
      <4>2. CASE Len(d) = CmdLen(ks, n)
        BY <1>1, <4>2 DEF d
      <4> QED  BY <3>3, <4>1, <4>2
    <3> QED  BY <2>3, <3>1, <3>2, <3>4
  <2> QED  BY <2>2, <2>3
<1>6. Rest(c, ks, p, v, m, f)
  <2>1. /\ d # <<>> => Len(d) <= CmdLen(ks, n)
        /\ Stream(c, ks, d \o v, n, m)
    BY DEF Sock, Rest, d, n
  <2>2. Last(p).data = d
    BY <1>2 DEF d
  <2> QED  BY <1>1, <1>3, <2>1, <2>2 DEF Rest
<1>7. ReadsOne(ks, p, t, f)
  <2> DEFINE e == IF Len(d) < HdrLen THEN HdrLen ELSE CmdLen(ks, n)
  <2>1. e \in Nat /\ r \in Nat /\ b.step \in {1, 2, 3}
    BY <1>1 DEF Typed
  <2>2. r > 0 => Last(q).step \in {1, 2} /\ r = e - Len(d)
    BY DEF Sock, ReadsOne, d, n
  <2>3. t = r \/ (b.step # 3 /\ t = e - Len(d))
    BY DEF d, n
  <2>4. Len(d) < e /\ Last(q).step # 3 => b.step # 3
    BY <1>1 DEF d, n
  <2> HIDE DEF e
  <2>5. t > 0 => b.step \in {1, 2} /\ t = e - Len(d)
    BY SMTT(30), <1>1, <2>1, <2>2, <2>3, <2>4
  <2>6. Last(p).step = b.step /\ Last(p).data = d /\ Filling(p, f) = n
    BY <1>2, <1>3 DEF d
  <2> QED  BY <2>5, <2>6 DEF ReadsOne, e
<1>8. w => Unwritten(Head(p))
  <2>1. w => Unwritten(Head(q))
    BY DEF Sock
  <2>2. Len(q) = 1 /\ Unwritten(Head(q)) => Unwritten(b)
    BY <1>1, <1>4 DEF Unwritten
  <2> QED  BY <1>2, <2>1, <2>2
<1>9. Forwarded(c, ks, m, f)
  BY DEF Sock
<1> QED  BY <1>0, <1>5, <1>6, <1>7, <1>8, <1>9 DEF Sock

\* A read is over: the first n units under way are in bufp.
LEMMA SockData ==
  ASSUME NEW c, NEW ks, NEW q, NEW r, NEW w, NEW v, NEW m, NEW f,
         Typed(q, r, v, m, f), Sock(c, ks, q, r, w, v, m, f),
         NEW n \in 1 .. r, n <= Len(v),
         NEW b \in Buffer, b.data = Last(q).data \o SubSeq(v, 1, n),
         b.step = Last(q).step, b.off = Last(q).off
  PROVE  Sock(c, ks, [q EXCEPT ![Len(q)] = b], 0, w, SubSeq(v, n + 1, Len(v)), m, f)
<1>0. PICK p : p = [q EXCEPT ![Len(q)] = b]
  OBVIOUS
<1> DEFINE d == Last(q).data
           e == SubSeq(v, 1, n)
           u == SubSeq(v, n + 1, Len(v))
           num == Filling(q, f)
<1>1. /\ Len(q) \in Nat \ {0} /\ Len(f) \in Nat /\ HdrLen \in Nat \ {0}
      /\ Base(q, f) \in Nat /\ num \in Nat
      /\ Last(q) = q[Len(q)] /\ Head(q) = q[1] /\ Last(q) \in Buffer
      /\ d \in Seq(Unit) /\ Len(d) \in Nat
      /\ CmdLen(ks, num) \in Nat /\ HdrLen <= CmdLen(ks, num)
      /\ Len(d) <= CmdLen(ks, num)
  BY BufpOfCommand
<1>2. v \in Seq(Unit) /\ Len(v) \in Nat /\ r \in Nat /\ n \in Nat /\ r > 0 /\ n <= r
  BY DEF Typed
<1>3. /\ e \in Seq(Unit) /\ Len(e) = n /\ u \in Seq(Unit) /\ e \o u = v
  BY <1>2, Cut
<1>4. /\ Last(q).step \in {1, 2}
      /\ r = (IF Len(d) < HdrLen THEN HdrLen ELSE CmdLen(ks, num)) - Len(d)
  BY <1>2 DEF Sock, ReadsOne
<1> HIDE DEF d, e, u, num
<1>5. b.data = d \o e /\ b.data \in Seq(Unit) /\ Len(b.data) = Len(d) + n
  BY <1>1, <1>3 DEF d, e
<1>6. Len(b.data) <= CmdLen(ks, num)
  BY SMTT(30), <1>1, <1>2, <1>4, <1>5
<1>7. b.data \o u = d \o v
  <2>1. d \in Seq(Unit) /\ e \in Seq(Unit) /\ u \in Seq(Unit)
    BY <1>1, <1>3
  <2>2. (d \o e) \o u = d \o (e \o u)
    BY <2>1, ThreeParts
  <2> QED  BY <1>3, <1>5, <2>2
<1>8. /\ Len(p) = Len(q)
      /\ \A i \in 1 .. Len(q) : p[i] = IF i = Len(q) THEN b ELSE q[i]
      /\ Last(p) = b
      /\ Head(p) = IF Len(q) = 1 THEN b ELSE Head(q)
  <2>1. q \in Seq(Buffer) /\ q # <<>>
    BY DEF Typed, Shaped
  <2>2. HasBufp(p, q, b)
    BY <1>0, <2>1, BufpReplaced
  <2> QED  BY <2>2 DEF HasBufp
<1>9. \A i \in 1 .. Len(q) :
        /\ p[i].step = q[i].step /\ p[i].off = q[i].off
        /\ q[i].step = 3 => p[i] = q[i]
  <2> SUFFICES ASSUME NEW i \in 1 .. Len(q)
               PROVE  /\ p[i].step = q[i].step /\ p[i].off = q[i].off
                      /\ q[i].step = 3 => p[i] = q[i]
    OBVIOUS
  <2>1. CASE i = Len(q)
    <3>1. p[i] = b /\ q[i] = Last(q)
      BY <1>1, <1>8, <2>1
    <3> QED  BY <1>4, <3>1
  <2>2. CASE i # Len(q)
    BY <1>8, <2>2
  <2> QED  BY <2>1, <2>2
<1>10. Head(p).off = Head(q).off
  BY <1>1, <1>8
<1>11. Base(p, f) = Base(q, f) /\ Filling(p, f) = num
  BY <1>8, <1>10 DEF Base, Filling, num
<1>12. OneEach(c, ks, p, m, f)
  BY <1>8, <1>9, <1>11 DEF Sock, OneEach
<1>13. Rest(c, ks, p, u, m, f)
  <2>1. Stream(c, ks, d \o v, num, m)
    BY DEF Sock, Rest, d, num
  <2> QED  BY <1>1, <1>6, <1>7, <1>8, <1>11, <2>1 DEF Rest
<1>14. w => Unwritten(Head(p))
  <2>1. w => Unwritten(Head(q)) /\ Head(q).step = 3
    BY DEF Sock, Unwritten
  <2>2. Head(q).step = 3 => Head(p) = Head(q)
    BY SMTT(30), <1>1, <1>4, <1>8
  <2> QED  BY <2>1, <2>2
<1>15. ReadsOne(ks, p, 0, f) /\ Forwarded(c, ks, m, f)
  BY DEF ReadsOne, Sock
<1>16. Sock(c, ks, p, 0, w, u, m, f)
  BY <1>12, <1>13, <1>14, <1>15 DEF Sock
<1> QED  BY <1>0, <1>16 DEF u

\* The refresher drops a bufc that is written.
LEMMA SockDrop ==
  ASSUME NEW c, NEW ks, NEW q, NEW r, NEW w, NEW v, NEW m, NEW f,
         Typed(q, r, v, m, f), Sock(c, ks, q, r, w, v, m, f),
         Len(q) > 1, Head(q).off = Len(Head(q).data)
  PROVE  Sock(c, ks, Tail(q), r, w, v, m, f)
<1>0. PICK p : p = Tail(q)
  OBVIOUS
<1>1. /\ Len(q) \in Nat \ {0} /\ Len(f) \in Nat /\ HdrLen \in Nat \ {0}
      /\ Head(q) = q[1] /\ Head(q) \in Buffer /\ Sound(Head(q))
      /\ Base(q, f) \in Nat
  BY BufpOfCommand
<1>2. /\ Len(p) = Len(q) - 1
      /\ \A i \in 1 .. Len(p) : i + 1 \in 1 .. Len(q) /\ p[i] = q[i + 1]
      /\ Last(p) = Last(q) /\ Head(p) = q[2]
  <2>1. q \in Seq(Buffer)
    BY DEF Typed, Shaped
  <2>2. /\ Len(p) = Len(q) - 1 /\ \A i \in 1 .. Len(p) : p[i] = q[i + 1]
    BY <1>0, <2>1, Shorter
  <2>3. Last(p) = Last(q) /\ Head(p) = q[2]
    BY <1>0, <2>1, Shorter
  <2>4. \A i \in 1 .. Len(p) : i + 1 \in 1 .. Len(q)
    BY <1>1, <2>2
  <2> QED  BY <2>2, <2>3, <2>4
<1>3. \A i \in 1 .. Len(q) :
        /\ i < Len(q) => q[i].step = 3
        /\ q[i].step = 3 => /\ Base(q, f) + i <= m
                            /\ q[i].data = Command(c, ks, Base(q, f) + i)
        /\ q[i].off # 0 => i = 1 /\ q[i].step = 3 /\ q[i].off = Len(q[i].data)
  BY DEF Sock, OneEach
<1>4. 1 \in 1 .. Len(q) /\ 2 \in 1 .. Len(q) /\ 1 < Len(q)
  BY <1>1
<1>5. Head(q).step = 3 /\ Len(Head(q).data) > 0 /\ Head(q).off # 0 /\ ~Unwritten(Head(q))
  <2>1. Head(q).step = 3
    BY <1>1, <1>3, <1>4
  <2>2. Len(Head(q).data) \in Nat /\ Len(Head(q).data) >= HdrLen
    BY <1>1, <2>1 DEF Sound, Buffer
  <2> QED  BY <1>1, <2>1, <2>2 DEF Unwritten
<1>6. q[2].off = 0
  BY <1>3, <1>4
<1>7. /\ Base(p, f) = Len(f) /\ Base(q, f) = Len(f) - 1
      /\ Filling(p, f) = Filling(q, f)
  BY <1>1, <1>2, <1>5, <1>6 DEF Base, Filling
<1>8. OneEach(c, ks, p, m, f)
  <2> SUFFICES ASSUME NEW i \in 1 .. Len(p)
               PROVE  /\ i < Len(p) => p[i].step = 3
                      /\ p[i].step = 3 => /\ Len(f) + i <= m
                                          /\ p[i].data = Command(c, ks, Len(f) + i)
                      /\ p[i].off # 0 => i = 1 /\ p[i].step = 3 /\ p[i].off = Len(p[i].data)
    BY <1>7 DEF OneEach
  <2>1. /\ i + 1 \in 1 .. Len(q) /\ p[i] = q[i + 1] /\ i + 1 # 1
        /\ i < Len(p) => i + 1 < Len(q)
        /\ Base(q, f) + (i + 1) = Len(f) + i
    BY <1>1, <1>2, <1>7
  <2>2. p[i].off = 0
    BY <1>3, <2>1
  <2>3. p[i].step = 3 => /\ Base(q, f) + (i + 1) <= m
                         /\ p[i].data = Command(c, ks, Base(q, f) + (i + 1))
    BY <1>3, <2>1
  <2>4. i < Len(p) => p[i].step = 3
    BY <1>3, <2>1
  <2> QED  BY <2>1, <2>2, <2>3, <2>4
<1>9. Rest(c, ks, p, v, m, f)
  BY <1>1, <1>2, <1>7 DEF Sock, Rest
<1>10. ReadsOne(ks, p, r, f)
  BY <1>2, <1>7 DEF Sock, ReadsOne
<1>11. ~w /\ Forwarded(c, ks, m, f)
  BY <1>5 DEF Sock
<1> QED  BY <1>0, <1>8, <1>9, <1>10, <1>11 DEF Sock

\* The refresher appends a bufp behind one that is whole.
LEMMA SockNew ==
  ASSUME NEW c, NEW ks, NEW q, NEW r, NEW w, NEW v, NEW m, NEW f,
         Typed(q, r, v, m, f), Sock(c, ks, q, r, w, v, m, f),
         Last(q).step = 3
  PROVE  Sock(c, ks, Append(q, NewBuffer), r, w, v, m, f)
<1>0. PICK p : p = Append(q, NewBuffer)
  OBVIOUS
<1> DEFINE n == Filling(q, f)
<1>1. /\ Len(q) \in Nat \ {0} /\ Len(f) \in Nat /\ HdrLen \in Nat \ {0}
      /\ Last(q) = q[Len(q)] /\ Head(q) = q[1]
      /\ Base(q, f) \in Nat /\ n \in Nat
  BY BufpOfCommand
<1>2. /\ Len(p) = Len(q) + 1
      /\ \A i \in 1 .. Len(p) : p[i] = IF i = Len(p) THEN NewBuffer ELSE q[i]
      /\ Last(p) = NewBuffer /\ Head(p) = Head(q)
  <2>1. q \in Seq(Buffer) /\ q # <<>> /\ NewBuffer \in Buffer
    BY NewIsSound DEF Typed, Shaped
  <2>2. Len(p) = Len(q) + 1 /\ p \in Seq(Buffer) /\ p # <<>>
    BY <1>0, <2>1, Longer
  <2>3. \A i \in 1 .. Len(p) : p[i] = IF i = Len(p) THEN NewBuffer ELSE q[i]
    BY <1>0, <2>1, Longer
  <2>4. Last(p) = NewBuffer
    BY <1>0, <2>1, Longer
  <2>5. Head(p) = Head(q)
    BY <1>0, <2>1, Longer
  <2> QED  BY <2>2, <2>3, <2>4, <2>5
<1>3. \A i \in 1 .. Len(q) :
        /\ i < Len(q) => q[i].step = 3
        /\ q[i].step = 3 => /\ Base(q, f) + i <= m
                            /\ q[i].data = Command(c, ks, Base(q, f) + i)
        /\ q[i].off # 0 => i = 1 /\ q[i].step = 3 /\ q[i].off = Len(q[i].data)
  BY DEF Sock, OneEach
<1>4. /\ Base(p, f) = Base(q, f) /\ Filling(p, f) = n + 1
      /\ n = Base(q, f) + Len(q) /\ Len(q) \in 1 .. Len(q)
  <2>1. Base(p, f) = Base(q, f)
    BY <1>2 DEF Base
  <2>2. n = Base(q, f) + Len(q) /\ Filling(p, f) = Base(q, f) + (Len(q) + 1)
    BY <1>2, <2>1 DEF Filling
  <2> HIDE DEF n
  <2> QED  BY <1>1, <2>1, <2>2
<1>5. Last(q).data = Command(c, ks, n)
  BY <1>1, <1>3, <1>4
<1>6. NewBuffer.data = <<>> /\ NewBuffer.off = 0 /\ NewBuffer.step = 0
  BY DEF NewBuffer
<1>7. OneEach(c, ks, p, m, f)
  <2> SUFFICES ASSUME NEW i \in 1 .. Len(p)
               PROVE  /\ i < Len(p) => p[i].step = 3
                      /\ p[i].step = 3 => /\ Base(q, f) + i <= m
                                          /\ p[i].data = Command(c, ks, Base(q, f) + i)
                      /\ p[i].off # 0 => i = 1 /\ p[i].step = 3 /\ p[i].off = Len(p[i].data)
    BY <1>4 DEF OneEach
  <2>1. CASE i = Len(p)
    BY <1>2, <1>6, <2>1
  <2>2. CASE i # Len(p)
    <3>1. i \in 1 .. Len(q) /\ p[i] = q[i]
      BY <1>1, <1>2, <2>2
    <3>2. q[i].step = 3
      BY <1>1, <1>3, <3>1
    <3> QED  BY <1>3, <3>1, <3>2
  <2> QED  BY <2>1, <2>2
<1> HIDE DEF n
<1>8. Rest(c, ks, p, v, m, f)
  <2>1. v \in Seq(Unit) /\ m \in Nat /\ Stream(c, ks, Command(c, ks, n) \o v, n, m)
    BY <1>5 DEF Typed, Sock, Rest, n
  <2>2. Stream(c, ks, v, n + 1, m)
    BY <1>1, <2>1, StreamDrops
  <2>3. Last(p).data \o v = v
    BY <1>2, <1>6, <2>1, ConcatEmptySeq
  <2> QED  BY <1>1, <1>2, <1>4, <1>6, <2>2, <2>3 DEF Rest
<1>9. ReadsOne(ks, p, r, f)
  BY DEF Sock, ReadsOne
<1>10. (w => Unwritten(Head(p))) /\ Forwarded(c, ks, m, f)
  BY <1>2 DEF Sock
<1> QED  BY <1>0, <1>7, <1>8, <1>9, <1>10 DEF Sock

\* The client sends its next command.
LEMMA SockSend ==
  ASSUME NEW c, NEW ks, NEW q, NEW r, NEW w, NEW v, NEW m, NEW f,
         Typed(q, r, v, m, f), Sock(c, ks, q, r, w, v, m, f),
         Command(c, ks, m + 1) \in Seq(Unit)
  PROVE  Sock(c, ks, q, r, w, v \o Command(c, ks, m + 1), m + 1, f)
<1> DEFINE n == Filling(q, f)
           d == Last(q).data
           msg == Command(c, ks, m + 1)
<1>1. /\ Len(q) \in Nat \ {0} /\ Len(f) \in Nat /\ n \in Nat /\ Base(q, f) \in Nat
      /\ d \in Seq(Unit)
  BY BufpOfCommand
<1>2. v \in Seq(Unit) /\ m \in Nat /\ msg \in Seq(Unit)
  BY DEF Typed
<1>3. Stream(c, ks, (d \o v) \o msg, n, m + 1)
  <2>1. d \o v \in Seq(Unit) /\ Stream(c, ks, d \o v, n, m)
    BY <1>1, <1>2 DEF Sock, Rest
  <2> HIDE DEF d, n
  <2> QED  BY <1>1, <1>2, <2>1, StreamGrows
<1>4. (d \o v) \o msg = d \o (v \o msg)
  <2>1. d \in Seq(Unit) /\ v \in Seq(Unit) /\ msg \in Seq(Unit)
    BY <1>1, <1>2
  <2> HIDE DEF msg, d
  <2> QED  BY ZenonT(60), <2>1, ThreeParts
<1> HIDE DEF msg
<1>5. OneEach(c, ks, q, m + 1, f)
  <2>1. \A i \in 1 .. Len(q) : Base(q, f) + i <= m => Base(q, f) + i <= m + 1
    BY <1>1, <1>2
  <2> QED  BY <2>1 DEF Sock, OneEach
<1>6. Rest(c, ks, q, v \o msg, m + 1, f)
  BY <1>3, <1>4 DEF Sock, Rest
<1>7. Forwarded(c, ks, m + 1, f)
  <2>1. \A i \in 1 .. Len(f) : i <= m => i <= m + 1
    BY <1>1, <1>2
  <2> QED  BY <2>1 DEF Sock, Forwarded
<1>8. ReadsOne(ks, q, r, f) /\ (w => Unwritten(Head(q)))
  BY DEF Sock
<1>9. Sock(c, ks, q, r, w, v \o msg, m + 1, f)
  BY <1>5, <1>6, <1>7, <1>8 DEF Sock
<1> QED  BY <1>9 DEF msg

\* bufc has reached the stub.
LEMMA SockWritten ==
  ASSUME NEW c, NEW ks, NEW q, NEW r, NEW w, NEW v, NEW m, NEW f,
         Typed(q, r, v, m, f), Sock(c, ks, q, r, w, v, m, f), w
  PROVE  Sock(c, ks, [q EXCEPT ![1].off = Len(q[1].data)], r, FALSE, v, m,
              Append(f, Head(q).data))
<1> DEFINE b == [q[1] EXCEPT !.off = Len(q[1].data)]
           g == Append(f, Head(q).data)
<1>0. PICK p : p = [q EXCEPT ![1] = b]
  OBVIOUS
<1>1. /\ Len(q) \in Nat \ {0} /\ Len(f) \in Nat /\ HdrLen \in Nat \ {0}
      /\ Last(q) = q[Len(q)] /\ Head(q) = q[1] /\ Head(q) \in Buffer /\ Sound(Head(q))
      /\ Base(q, f) \in Nat
  BY BufpOfCommand
<1>2. /\ b \in Buffer /\ b.data = q[1].data /\ b.step = q[1].step
      /\ b.off = Len(q[1].data) /\ Len(q[1].data) \in Nat
  BY SMTT(30), <1>1, ConstantsAssumption DEF Buffer, Sound
<1> HIDE DEF b
<1>3. /\ Len(p) = Len(q)
      /\ \A i \in 1 .. Len(q) : p[i] = IF i = 1 THEN b ELSE q[i]
      /\ Last(p) = IF Len(q) = 1 THEN b ELSE Last(q)
      /\ Head(p) = b
  <2>1. q \in Seq(Buffer) /\ q # <<>>
    BY DEF Typed, Shaped
  <2>2. Len(p) = Len(q)
    BY <1>0, <1>2, <2>1, FirstReplaced
  <2>3. \A i \in 1 .. Len(q) : p[i] = IF i = 1 THEN b ELSE q[i]
    BY <1>0, <1>2, <2>1, FirstReplaced
  <2>4. Last(p) = IF Len(q) = 1 THEN b ELSE Last(q)
    <3>1. Last(p) = p[Len(q)] /\ Len(q) \in 1 .. Len(q)
      BY <1>1, <2>2 DEF Last
    <3> QED  BY <1>1, <2>3, <3>1
  <2>5. Head(p) = b
    BY <1>0, <1>2, <2>1, FirstReplaced
  <2> QED  BY <2>2, <2>3, <2>4, <2>5
<1>4. \A i \in 1 .. Len(q) :
        /\ i < Len(q) => q[i].step = 3
        /\ q[i].step = 3 => /\ Base(q, f) + i <= m
                            /\ q[i].data = Command(c, ks, Base(q, f) + i)
        /\ q[i].off # 0 => i = 1 /\ q[i].step = 3 /\ q[i].off = Len(q[i].data)
  BY DEF Sock, OneEach
<1>5. q[1].step = 3 /\ Len(q[1].data) > q[1].off /\ 1 \in 1 .. Len(q)
  BY <1>1 DEF Sock, Unwritten
<1>6. q[1].off = 0 /\ b.off # 0
  <2>1. q[1].off \in Nat
    BY <1>1 DEF Buffer
  <2> QED  BY <1>2, <1>4, <1>5, <2>1
<1>7. /\ g \in Seq(Seq(Unit)) /\ Len(g) = Len(f) + 1
      /\ \A i \in 1 .. Len(f) : g[i] = f[i]
      /\ g[Len(f) + 1] = q[1].data
  <2>1. f \in Seq(Seq(Unit)) /\ q[1].data \in Seq(Unit)
    BY <1>1 DEF Typed, Buffer
  <2> QED  BY <1>1, <2>1
<1> HIDE DEF g
<1>8. /\ Base(q, f) = Len(f) /\ Base(p, g) = Len(f)
      /\ Filling(p, g) = Filling(q, f)
  BY <1>1, <1>3, <1>6, <1>7 DEF Base, Filling
<1>9. OneEach(c, ks, p, m, g)
  <2> SUFFICES ASSUME NEW i \in 1 .. Len(q)
               PROVE  /\ i < Len(q) => p[i].step = 3
                      /\ p[i].step = 3 => /\ Base(q, f) + i <= m
                                          /\ p[i].data = Command(c, ks, Base(q, f) + i)
                      /\ p[i].off # 0 => i = 1 /\ p[i].step = 3 /\ p[i].off = Len(p[i].data)
    BY <1>3, <1>8 DEF OneEach
  <2>1. CASE i = 1
    <3>1. p[i] = b
      BY <1>3, <2>1
    <3> QED  BY <1>2, <1>4, <1>5, <2>1, <3>1
  <2>2. CASE i # 1
    <3>1. p[i] = q[i]
      BY <1>3, <2>2
    <3> QED  BY <1>4, <3>1
  <2> QED  BY <2>1, <2>2
<1>10. Last(p).data = Last(q).data /\ Last(p).step = Last(q).step
  BY <1>1, <1>2, <1>3
<1>11. Rest(c, ks, p, v, m, g)
  BY <1>1, <1>8, <1>10 DEF Sock, Rest
<1>12. ReadsOne(ks, p, r, g)
  BY <1>8, <1>10 DEF Sock, ReadsOne
<1>13. Forwarded(c, ks, m, g)
  <2> SUFFICES ASSUME NEW i \in 1 .. Len(g) PROVE i <= m /\ g[i] = Command(c, ks, i)
    BY DEF Forwarded
  <2>1. CASE i = Len(f) + 1
    <3>1. Base(q, f) + 1 <= m /\ q[1].data = Command(c, ks, Base(q, f) + 1)
      BY <1>4, <1>5
    <3> QED  BY <1>7, <1>8, <2>1, <3>1
  <2>2. CASE i # Len(f) + 1
    <3>1. i \in 1 .. Len(f)
      BY <1>1, <1>7, <2>2
    <3> QED  BY <1>7, <3>1 DEF Sock, Forwarded
  <2> QED  BY <2>1, <2>2
<1>14. Sock(c, ks, p, r, FALSE, v, m, g)
  BY <1>9, <1>11, <1>12, <1>13 DEF Sock
<1>15. p = [q EXCEPT ![1].off = Len(q[1].data)]
  BY <1>0 DEF b
<1> QED  BY <1>14, <1>15 DEF g
-----------------------------------------------------------------------------
(* SockInv is an invariant.                                                 *)

\* What SockInv speaks of.
View(c) ==
  <<scenario.kinds[c], bufs[<<c, "sock">>], in_reading[<<c, "sock">>],
    in_writing[<<c, "dev">>], wire[c], sent[c], forwarded[c]>>

LEMMA SockKept ==
  ASSUME NEW c \in Conn, SockInv(c), View(c)' = View(c)
  PROVE  SockInv(c)'
BY DEF SockInv, View

\* The keys of a connection.
LEMMA Keys ==
  ASSUME NEW c \in Conn
  PROVE  /\ "sock" \in Side /\ "dev" \in Side /\ Peer("sock") = "dev" /\ Peer("dev") = "sock"
         /\ <<c, "sock">> \in Conn \X Side /\ <<c, "dev">> \in Conn \X Side
         /\ \A d : <<c, "sock">> # <<d, "dev">> /\ <<c, "dev">> # <<d, "sock">>
         /\ \A d, s : d # c => <<c, "sock">> # <<d, s>> /\ <<c, "dev">> # <<d, s>>
BY DEF Side, Peer

LEMMA SockTyped ==
  ASSUME TypeInv, NEW c \in Conn
  PROVE  /\ Typed(bufs[<<c, "sock">>], in_reading[<<c, "sock">>], wire[c], sent[c], forwarded[c])
         /\ bufs \in [Conn \X Side -> Seq(Buffer) \ {<<>>}]
         /\ in_reading \in [Conn \X Side -> 0 .. HdrLen + 2]
         /\ in_writing \in [Conn \X Side -> BOOLEAN]
         /\ wire \in [Conn -> Seq(Unit)]
         /\ sent \in [Conn -> Numbers \cup {0}]
         /\ forwarded \in [Conn -> Seq(Seq(Unit))]
<1>1. /\ bufs \in [Conn \X Side -> Seq(Buffer) \ {<<>>}]
      /\ in_reading \in [Conn \X Side -> 0 .. HdrLen + 2]
      /\ in_writing \in [Conn \X Side -> BOOLEAN]
      /\ wire \in [Conn -> Seq(Unit)]
      /\ sent \in [Conn -> Numbers \cup {0}]
      /\ forwarded \in [Conn -> Seq(Seq(Unit))]
  BY DEF TypeInv, TypeOK
<1>2. Shaped(bufs[<<c, "sock">>], in_reading[<<c, "sock">>]) /\ in_reading[<<c, "sock">>] \in Nat
  <2>1. "sock" \in Side
    BY Keys
  <2> QED  BY <2>1, Bufs
<1>3. wire[c] \in Seq(Unit) /\ sent[c] \in Nat /\ forwarded[c] \in Seq(Seq(Unit))
  BY <1>1 DEF Numbers
<1> QED  BY <1>1, <1>2, <1>3 DEF Typed

\* A buffer that is put into bufp.
LEMMA BufpIs ==
  ASSUME TypeInv, NEW c \in Conn, NEW s \in Side, NEW b, bufs' = WithBufp(c, s, b)
  PROVE  /\ bufs'[<<c, s>>] = [bufs[<<c, s>>] EXCEPT ![Len(bufs[<<c, s>>])] = b]
         /\ \A x \in Conn \X Side : x # <<c, s>> => bufs'[x] = bufs[x]
<1> DEFINE q == bufs[<<c, s>>]
           p == [q EXCEPT ![Len(q)] = b]
<1>1. bufs' = [bufs EXCEPT ![<<c, s>>] = p] /\ <<c, s>> \in Conn \X Side
  BY DEF WithBufp
<1> HIDE DEF p
<1>2. bufs'[<<c, s>>] = p /\ \A x \in Conn \X Side : x # <<c, s>> => bufs'[x] = bufs[x]
  BY <1>1 DEF TypeInv, TypeOK
<1> QED  BY <1>2 DEF p, q

LEMMA OthersKept ==
  ASSUME TypeInv, NEW d \in Conn, NEW s \in Side,
         UNCHANGED bufs \/ \E b : bufs' = WithBufp(d, s, b),
         NEW x \in Conn \X Side, x # <<d, s>>
  PROVE  bufs'[x] = bufs[x]
<1>1. ASSUME NEW b, bufs' = WithBufp(d, s, b) PROVE bufs'[x] = bufs[x]
  BY <1>1, BufpIs
<1> QED  BY <1>1

\* What read_dev makes of bufp of a socket.
LEMMA ReadsCommand ==
  ASSUME TypeInv, NEW c \in Conn, SockInv(c)
  PROVE  LET q == bufs[<<c, "sock">>]
             d == Last(q).data
             e == IF Len(d) < HdrLen THEN HdrLen
                  ELSE CmdLen(scenario.kinds[c], Filling(q, forwarded[c]))
             b == read_dev("sock", Last(q))
         IN /\ b \in Buffer /\ b.data = d /\ b.off = Last(q).off
            /\ b.step = (IF Len(d) < HdrLen THEN 1
                         ELSE IF Last(q).step = 3 THEN 3
                         ELSE IF Len(d) < e THEN 2 ELSE 3)
            /\ Asks("sock", Last(q)) > 0 => b.step # 3 /\ Asks("sock", Last(q)) = e - Len(d)
<1> DEFINE q == bufs[<<c, "sock">>]
           ks == scenario.kinds[c]
           l == Last(q)
           d == l.data
           n == Filling(q, forwarded[c])
           e == IF Len(d) < HdrLen THEN HdrLen ELSE CmdLen(ks, n)
           b == read_dev("sock", l)
<1>1. "sock" \in Side
  BY Keys
<1>2. /\ l \in Buffer /\ Sound(l) /\ Len(d) \in Nat /\ HdrLen \in Nat \ {0}
      /\ Len(d) > 0 => d[1] = <<c, n, 1>>
  <2> DEFINE r == in_reading[<<c, "sock">>]
             w == in_writing[<<c, "dev">>]
             v == wire[c]
             m == sent[c]
             f == forwarded[c]
  <2>1. Typed(q, r, v, m, f) /\ Sock(c, ks, q, r, w, v, m, f)
    BY SockTyped DEF SockInv
  <2>2. n = Filling(q, f)
    OBVIOUS
  <2> HIDE DEF q, r, w, v, m, f, ks, n
  <2>3. /\ Last(q) \in Buffer /\ Sound(Last(q)) /\ HdrLen \in Nat \ {0}
        /\ Len(Last(q).data) \in Nat
        /\ Len(Last(q).data) > 0 => Last(q).data[1] = <<c, n, 1>>
    BY <2>1, <2>2, BufpOfCommand
  <2> QED  BY <2>3 DEF q
<1>3. Expected("sock", l) = e
  <2>1. CASE Len(d) < HdrLen
    BY <2>1 DEF Expected
  <2>2. CASE ~(Len(d) < HdrLen)
    <3>1. d[1] = <<c, n, 1>>
      BY SMTT(30), <1>2, <2>2
    <3>2. d[1][1] = c /\ d[1][2] = n
      BY <3>1
    <3>3. /\ get_xfer_len("sock", d[1]) = PayloadLen(TRUE, ks[n])
          /\ get_iso_len(KindOf(d[1][1], d[1][2])) = get_iso_len(ks[n])
      <4> HIDE DEF d, n
      <4> QED  BY <3>2, Zenon DEF get_xfer_len, KindOf
    <3> DEFINE x == get_xfer_len("sock", d[1])
               y == get_iso_len(KindOf(d[1][1], d[1][2]))
    <3>4. Expected("sock", l) = HdrLen + x + y
      BY <2>2 DEF Expected
    <3>5. e = HdrLen + PayloadLen(TRUE, ks[n]) + get_iso_len(ks[n])
      BY <2>2 DEF CmdLen
    <3> QED  BY <3>3, <3>4, <3>5, Zenon
  <2> QED  BY <2>1, <2>2
<1>4. /\ b \in Buffer /\ b.data = d /\ b.off = l.off
  BY <1>1, <1>2, ReadDev
<1>5. b.step = (IF Len(d) < HdrLen THEN 1
                ELSE IF l.step = 3 THEN 3
                ELSE IF Len(d) < e THEN 2 ELSE 3)
  <2>1. b.step = (IF Len(d) < HdrLen THEN 1
                  ELSE IF l.step = 3 THEN 3
                  ELSE IF Len(d) < Expected("sock", l) THEN 2 ELSE 3)
    <3> HIDE DEF l
    <3> QED  BY <1>2 DEF read_dev, Buffer
  <2> HIDE DEF e
  <2> QED  BY <1>3, <2>1
<1>6. Asks("sock", l) > 0 => b.step # 3 /\ Asks("sock", l) = e - Len(d)
  <2> HIDE DEF e, l
  <2> QED  BY <1>3 DEF Asks
<1> HIDE DEF l
<1> QED  BY <1>4, <1>5, <1>6 DEF l

LEMMA ReaderSock ==
  ASSUME TypeInv, NEW c \in Conn, SockInv(c), ReaderThread(c)
  PROVE  SockInv(c)'
<1> DEFINE q == bufs[<<c, "sock">>]
           r == in_reading[<<c, "sock">>]
           w == in_writing[<<c, "dev">>]
           ks == scenario.kinds[c]
           n == Filling(q, forwarded[c])
<1>1. /\ Typed(q, r, wire[c], sent[c], forwarded[c])
      /\ Sock(c, ks, q, r, w, wire[c], sent[c], forwarded[c])
      /\ "sock" \in Side /\ <<c, "sock">> \in Conn \X Side
      /\ in_reading \in [Conn \X Side -> 0 .. HdrLen + 2]
  BY SockTyped, Keys DEF SockInv
<1>2. CASE ReaderTurn(c)
  <2>0. UNCHANGED <<scenario, in_writing, wire, sent, forwarded>>
    BY <1>2 DEF ReaderTurn, clients, history
  <2>1. CASE UNCHANGED <<bufs, in_reading>>
    BY <2>0, <2>1, SockKept DEF View
  <2>2. CASE bufs' = WithBufp(c, "sock", read_dev("sock", Last(q)))
    <3> DEFINE b == read_dev("sock", Last(q))
               p == [q EXCEPT ![Len(q)] = b]
               t == in_reading'[<<c, "sock">>]
    <3>1. bufs'[<<c, "sock">>] = p
      BY <1>1, <2>2, BufpIs
    <3>2. /\ b \in Buffer /\ b.data = Last(q).data /\ b.off = Last(q).off
          /\ b.step = (IF Len(Last(q).data) < HdrLen THEN 1
                       ELSE IF Last(q).step = 3 THEN 3
                       ELSE IF Len(Last(q).data) < CmdLen(ks, n) THEN 2 ELSE 3)
          /\ Asks("sock", Last(q)) > 0 =>
               /\ b.step # 3
               /\ Asks("sock", Last(q)) = (IF Len(Last(q).data) < HdrLen THEN HdrLen
                                           ELSE CmdLen(ks, n)) - Len(Last(q).data)
      <4> HIDE DEF q
      <4> QED  BY ReadsCommand DEF q
    <3>3. t = r \/ (Asks("sock", Last(q)) > 0 /\ t = Asks("sock", Last(q)))
      BY <1>1, <1>2 DEF ReaderTurn, bufp
    <3>4. \/ t = r
          \/ /\ b.step # 3
             /\ t = (IF Len(Last(q).data) < HdrLen THEN HdrLen
                     ELSE CmdLen(ks, n)) - Len(Last(q).data)
      BY <3>2, <3>3
    <3> HIDE DEF q, r, w, ks, b, t
    <3>5. Sock(c, ks, p, t, w, wire[c], sent[c], forwarded[c])
      BY <1>1, <3>2, <3>4, SockTurn
    <3> QED  BY <2>0, <3>1, <3>5 DEF SockInv, ks, w, t
  <2> QED  BY <1>2, <2>1, <2>2 DEF ReaderTurn, bufp
<1>3. CASE ReaderWake(c)
  <2>1. UNCHANGED <<scenario, bufs, in_reading, in_writing, wire, sent, forwarded>>
    BY <1>3 DEF ReaderWake, devbuf, clients, history
  <2> QED  BY <2>1, SockKept DEF View
<1>4. CASE ReaderApc(c)
  <2>0. /\ UNCHANGED <<scenario, in_writing, sent, forwarded>>
        /\ in_reading'[<<c, "sock">>] = 0 /\ r > 0
    BY <1>1, <1>4 DEF ReaderApc, history
  <2>1. CASE UNCHANGED <<bufs, wire>>
    <3> HIDE DEF q, r, w, ks
    <3>1. Sock(c, ks, q, 0, w, wire[c], sent[c], forwarded[c])
      <4>1. ReadsOne(ks, q, 0, forwarded[c])
        BY DEF ReadsOne
      <4> QED  BY <1>1, <4>1 DEF Sock
    <3> QED  BY <2>0, <2>1, <3>1 DEF SockInv, q, w, ks
  <2>2. CASE \E i \in 1 .. r :
          /\ i <= Len(wire[c])
          /\ bufs' = WithBufp(c, "sock",
                       [bufp(c, "sock") EXCEPT !.data = @ \o SubSeq(wire[c], 1, i)])
          /\ wire' = [wire EXCEPT ![c] = SubSeq(@, i + 1, Len(@))]
    <3>1. PICK i \in 1 .. r :
            /\ i <= Len(wire[c])
            /\ bufs' = WithBufp(c, "sock",
                         [bufp(c, "sock") EXCEPT !.data = @ \o SubSeq(wire[c], 1, i)])
            /\ wire' = [wire EXCEPT ![c] = SubSeq(@, i + 1, Len(@))]
      BY <2>2
    <3> DEFINE d == SubSeq(wire[c], 1, i)
               u == SubSeq(wire[c], i + 1, Len(wire[c]))
               b == [Last(q) EXCEPT !.data = @ \o d]
               p == [q EXCEPT ![Len(q)] = b]
    <3>2. bufs'[<<c, "sock">>] = p
      <4>1. bufs' = WithBufp(c, "sock", b)
        BY <3>1 DEF bufp
      <4> HIDE DEF b
      <4> QED  BY <1>1, <4>1, BufpIs
    <3>3. wire'[c] = u
      BY <3>1 DEF TypeInv, TypeOK
    <3>4. /\ Last(q) \in Buffer /\ Sound(Last(q)) /\ Len(Last(q).data) \in Nat
          /\ r \in Nat /\ Len(Last(q).data) + r <= HdrLen + 2
      BY <1>1, Bufs DEF bufp
    <3>5. wire[c] \in Seq(Unit)
      BY <1>1 DEF Typed
    <3>6. i \in Nat /\ i <= r /\ d \in Seq(Unit) /\ Len(d) = i
      <4>1. i \in Nat /\ i <= r /\ i <= Len(wire[c])
        BY <3>1, <3>4
      <4> QED  BY <3>5, <4>1, Cut
    <3> HIDE DEF q, r, w, ks, d, u
    <3>7. Len(Last(q).data) + Len(d) <= HdrLen + 2
      BY <3>4, <3>6, ConstantsAssumption
    <3>8. b \in Buffer /\ b.data = Last(q).data \o d /\ b.step = Last(q).step /\ b.off = Last(q).off
      BY <3>4, <3>6, <3>7, DataAdded
    <3> HIDE DEF b
    <3>9. Sock(c, ks, p, 0, w, u, sent[c], forwarded[c])
      BY <1>1, <3>1, <3>8, SockData DEF d, u
    <3> QED  BY <2>0, <3>2, <3>3, <3>9 DEF SockInv, w, ks
  <2> QED  BY <1>4, <2>1, <2>2 DEF ReaderApc
<1> QED  BY <1>2, <1>3, <1>4 DEF ReaderThread

LEMMA RefresherSock ==
  ASSUME TypeInv, NEW c \in Conn, SockInv(c), RefresherThread(c)
  PROVE  SockInv(c)'
<1> DEFINE q == bufs[<<c, "sock">>]
           r == in_reading[<<c, "sock">>]
           w == in_writing[<<c, "dev">>]
           v == wire[c]
           m == sent[c]
           f == forwarded[c]
           ks == scenario.kinds[c]
<1>1. /\ Typed(q, r, v, m, f) /\ Sock(c, ks, q, r, w, v, m, f)
      /\ "sock" \in Side /\ <<c, "sock">> \in Conn \X Side
      /\ bufs \in [Conn \X Side -> Seq(Buffer) \ {<<>>}]
  BY SockTyped, Keys DEF SockInv
<1>2. UNCHANGED <<scenario, in_reading, in_writing, wire, sent, forwarded>>
  BY DEF RefresherThread, DropBufc, NewBufp, RefresherEnds, threads, devbuf, clients, history
<1>3. ASSUME UNCHANGED q PROVE SockInv(c)'
  BY <1>2, <1>3, SockKept DEF View
<1>4. ASSUME NEW p, bufs'[<<c, "sock">>] = p, Sock(c, ks, p, r, w, v, m, f)
      PROVE  SockInv(c)'
  BY <1>2, <1>4 DEF SockInv
<1>5. ASSUME NEW s \in Side, DropBufc(c, s) PROVE SockInv(c)'
  <2>1. CASE s = "dev"
    <3>1. UNCHANGED q
      BY <1>1, <1>5, <2>1 DEF DropBufc
    <3> QED  BY <1>3, <3>1
  <2>2. CASE s = "sock"
    <3>1. bufs'[<<c, "sock">>] = Tail(q)
      BY <1>1, <1>5, <2>2 DEF DropBufc
    <3>2. Len(q) > 1 /\ Head(q).off = Len(Head(q).data)
      BY <1>5, <2>2 DEF DropBufc, CanDrop, bufc
    <3> HIDE DEF q, r, w, v, m, f, ks
    <3>3. Sock(c, ks, Tail(q), r, w, v, m, f)
      BY <1>1, <3>2, SockDrop
    <3> QED  BY <1>4, <3>1, <3>3
  <2> QED  BY <2>1, <2>2 DEF Side
<1>6. ASSUME NEW s \in Side, NewBufp(c, s) PROVE SockInv(c)'
  <2>1. CASE s = "dev" \/ UNCHANGED bufs
    <3>1. UNCHANGED q
      BY <1>1, <1>6, <2>1 DEF NewBufp
    <3> QED  BY <1>3, <3>1
  <2>2. CASE s = "sock" /\ bufs' = [bufs EXCEPT ![<<c, s>>] = Append(@, NewBuffer)]
    <3>1. bufs'[<<c, "sock">>] = Append(q, NewBuffer)
      BY <1>1, <2>2
    <3>2. Last(q).step = 3
      BY <1>6, <2>2 DEF NewBufp, bufp
    <3> HIDE DEF q, r, w, v, m, f, ks
    <3>3. Sock(c, ks, Append(q, NewBuffer), r, w, v, m, f)
      BY <1>1, <3>2, SockNew
    <3> QED  BY <1>4, <3>1, <3>3
  <2> QED  BY <1>6, <2>1, <2>2 DEF Side, NewBufp
<1>7. ASSUME RefresherEnds(c) PROVE SockInv(c)'
  BY <1>3, <1>7 DEF RefresherEnds, devbuf
<1> QED  BY <1>5, <1>6, <1>7 DEF RefresherThread

\* The consumer does not touch the socket of a connection, but when it writes
\* to the stub.
LEMMA ConsumerSock ==
  ASSUME TypeInv, NEW c \in Conn, SockInv(c), NEW k \in Conn, ConsumerThread(k)
  PROVE  SockInv(c)'
<1> DEFINE q == bufs[<<c, "sock">>]
           r == in_reading[<<c, "sock">>]
           w == in_writing[<<c, "dev">>]
           v == wire[c]
           m == sent[c]
           f == forwarded[c]
           ks == scenario.kinds[c]
<1>1. /\ Typed(q, r, v, m, f) /\ Sock(c, ks, q, r, w, v, m, f)
      /\ <<c, "sock">> \in Conn \X Side /\ <<c, "dev">> \in Conn \X Side
      /\ bufs \in [Conn \X Side -> Seq(Buffer) \ {<<>>}]
      /\ in_reading \in [Conn \X Side -> 0 .. HdrLen + 2]
      /\ in_writing \in [Conn \X Side -> BOOLEAN]
      /\ forwarded \in [Conn -> Seq(Seq(Unit))]
  BY SockTyped, Keys DEF SockInv
<1>2. UNCHANGED <<scenario, wire, sent>>
  BY DEF ConsumerThread, ConsumerLook, ConsumerAdd, ConsumerFirst, ConsumerTurn, ConsumerWake,
         ConsumerReadApc, ConsumerWriteApc, clients
<1>3. ASSUME NEW z, in_writing'[<<c, "dev">>] = z, z => w \/ Unwritten(Head(q)),
             UNCHANGED <<q, r, f>>
      PROVE  SockInv(c)'
  <2> HIDE DEF q, r, w, v, m, f, ks
  <2>1. Sock(c, ks, q, r, z, v, m, f)
    BY <1>1, <1>3 DEF Sock
  <2> QED  BY <1>2, <1>3, <2>1 DEF SockInv, q, r, v, m, f, ks
<1>4. CASE ConsumerLook(k) \/ ConsumerAdd(k) \/ ConsumerFirst(k) \/ ConsumerWake(k)
  <2>1. UNCHANGED <<bufs, in_reading, in_writing, forwarded>>
    BY <1>4 DEF ConsumerLook, ConsumerAdd, ConsumerFirst, ConsumerWake, devbuf, history
  <2> QED  BY <1>3, <2>1
<1>5. CASE ConsumerTurn(k)
  <2> DEFINE d == at[k]
             z == CanWrite(d, "dev") \/ in_writing[<<d, "dev">>]
  <2>1. d \in Conn /\ "dev" \in Side
    BY <1>5 DEF ConsumerTurn, TypeInv, TypeOK, Side
  <2>2. /\ in_writing' = [in_writing EXCEPT ![<<d, "dev">>] = z]
        /\ UNCHANGED forwarded
        /\ \E a : in_reading' = [in_reading EXCEPT ![<<d, "dev">>] = a]
        /\ UNCHANGED bufs \/ \E b : bufs' = WithBufp(d, "dev", b)
    <3> HIDE DEF CanWrite
    <3> QED  BY <1>5 DEF ConsumerTurn, history
  <2>3. UNCHANGED q
    <3> HIDE DEF d
    <3>1. <<c, "sock">> # <<d, "dev">>
      BY Keys
    <3> QED  BY <1>1, <2>1, <2>2, <3>1, OthersKept
  <2>4. UNCHANGED <<r, f>>
    <3> HIDE DEF d, z
    <3> QED  BY <1>1, <2>1, <2>2, Keys
  <2>5. CASE d # c
    <3>1. in_writing'[<<c, "dev">>] = w
      <4> HIDE DEF d, z
      <4> QED  BY <1>1, <2>1, <2>2, <2>5, Keys
    <3> QED  BY <1>3, <2>3, <2>4, <3>1
  <2>6. CASE d = c
    <3>1. in_writing'[<<c, "dev">>] = z
      <4> HIDE DEF z
      <4> QED  BY <1>1, <2>1, <2>2, <2>6
    <3>2. z => w \/ Unwritten(Head(q))
      BY <2>6, Keys DEF CanWrite, bufc
    <3> HIDE DEF z, q, r, w, f
    <3> QED  BY <1>3, <2>3, <2>4, <3>1, <3>2
  <2> QED  BY <2>5, <2>6
<1>6. CASE ConsumerReadApc(k)
  <2> DEFINE d == at[k]
  <2>1. d \in Conn /\ "dev" \in Side
    BY <1>6, GoesOn DEF ConsumerReadApc
  <2>2. /\ UNCHANGED <<in_writing, forwarded>>
        /\ in_reading' = [in_reading EXCEPT ![<<d, "dev">>] = 0]
        /\ UNCHANGED bufs \/ \E b : bufs' = WithBufp(d, "dev", b)
    BY <1>6 DEF ConsumerReadApc, history
  <2>3. UNCHANGED q
    <3> HIDE DEF d
    <3>1. <<c, "sock">> # <<d, "dev">>
      BY Keys
    <3> QED  BY <1>1, <2>1, <2>2, <3>1, OthersKept
  <2>4. UNCHANGED <<r, f>> /\ in_writing'[<<c, "dev">>] = w
    <3> HIDE DEF d
    <3> QED  BY <1>1, <2>1, <2>2, Keys
  <2> QED  BY <1>3, <2>3, <2>4
<1>7. CASE ConsumerWriteApc(k)
  <2> DEFINE d == at[k]
  <2>1. d \in Conn /\ "dev" \in Side
    BY <1>7, GoesOn DEF ConsumerWriteApc
  <2>2. /\ in_writing' = [in_writing EXCEPT ![<<d, "dev">>] = FALSE] /\ in_writing[<<d, "dev">>]
        /\ UNCHANGED in_reading
        /\ \/ /\ bufs' = Written(d, "sock")
              /\ forwarded' = [forwarded EXCEPT ![d] = Append(@, bufc(d, "sock").data)]
           \/ UNCHANGED <<bufs, forwarded>>
    BY <1>7 DEF ConsumerWriteApc
  <2>3. CASE d # c
    <3>1. in_writing'[<<c, "dev">>] = w /\ UNCHANGED <<q, r, f>>
      <4> HIDE DEF d
      <4>1. in_writing'[<<c, "dev">>] = w /\ UNCHANGED <<r, f>>
        BY <1>1, <2>1, <2>2, <2>3, Keys
      <4>2. UNCHANGED q
        BY <1>1, <2>1, <2>2, <2>3, Keys DEF Written
      <4> QED  BY <4>1, <4>2
    <3> QED  BY <1>3, <3>1
  <2>4. CASE d = c
    <3>1. in_writing'[<<c, "dev">>] = FALSE /\ w /\ UNCHANGED r
      BY <1>1, <2>2, <2>4
    <3>2. CASE UNCHANGED <<bufs, forwarded>>
      BY <1>3, <3>1, <3>2
    <3>3. CASE /\ bufs' = Written(d, "sock")
               /\ forwarded' = [forwarded EXCEPT ![d] = Append(@, bufc(d, "sock").data)]
      <4> DEFINE p == [q EXCEPT ![1].off = Len(q[1].data)]
      <4>1. bufs'[<<c, "sock">>] = p
        <5>1. bufs' = [bufs EXCEPT ![<<c, "sock">>] = p]
          BY <2>4, <3>3 DEF Written
        <5> HIDE DEF p
        <5> QED  BY <1>1, <5>1
      <4>2. forwarded'[c] = Append(f, Head(q).data)
        BY <1>1, <2>4, <3>3 DEF bufc
      <4> HIDE DEF q, r, w, v, m, f, ks
      <4>3. Sock(c, ks, p, r, FALSE, v, m, Append(f, Head(q).data))
        BY <1>1, <3>1, SockWritten
      <4> QED  BY <1>2, <3>1, <4>1, <4>2, <4>3 DEF SockInv, r, v, m, ks
    <3> QED  BY <2>2, <3>2, <3>3
  <2> QED  BY <2>3, <2>4
<1> QED  BY <1>4, <1>5, <1>6, <1>7 DEF ConsumerThread

LEMMA ClientSendSock ==
  ASSUME TypeInv, NEW c \in Conn, SockInv(c), ClientSend(c)
  PROVE  SockInv(c)'
<1> DEFINE q == bufs[<<c, "sock">>]
           r == in_reading[<<c, "sock">>]
           w == in_writing[<<c, "dev">>]
           v == wire[c]
           m == sent[c]
           f == forwarded[c]
           ks == scenario.kinds[c]
           msg == Command(c, ks, m + 1)
<1>1. Typed(q, r, v, m, f) /\ Sock(c, ks, q, r, w, v, m, f)
  BY SockTyped DEF SockInv
<1>2. Message(c, m + 1, TRUE) = msg
  BY Zenon DEF Message, Command, CmdLen, KindOf
<1>3. wire'[c] = v \o msg /\ sent'[c] = m + 1
  <2>1. wire' = [wire EXCEPT ![c] = @ \o msg] /\ sent' = [sent EXCEPT ![c] = @ + 1]
    BY <1>2 DEF ClientSend
  <2> HIDE DEF msg
  <2> QED  BY <2>1, SockTyped
<1>4. msg \in Seq(Unit)
  <2>1. m + 1 \in Numbers
    <3>1. scenario \in Scenarios /\ m < Len(scenario.kinds[c]) /\ m \in Nat
      BY <1>1 DEF ClientSend, TypeInv, TypeOK, Typed
    <3>2. Len(scenario.kinds[c]) <= MaxNumber /\ Len(scenario.kinds[c]) \in Nat
      BY <3>1, ConstantsAssumption
    <3> QED  BY <3>1, <3>2, ConstantsAssumption DEF Numbers
  <2> QED  BY <1>2, <2>1, Messages
<1>5. UNCHANGED <<scenario, bufs, in_reading, in_writing, forwarded>>
  BY DEF ClientSend, devbuf, history
<1> HIDE DEF q, r, w, v, m, f, ks
<1>6. Sock(c, ks, q, r, w, v \o msg, m + 1, f)
  BY <1>1, <1>4, SockSend
<1> HIDE DEF msg
<1> QED  BY <1>3, <1>5, <1>6 DEF SockInv, q, r, w, f, ks

LEMMA SockStep ==
  ASSUME TypeInv, NEW c \in Conn, SockInv(c), [Next]_vars
  PROVE  SockInv(c)'
<1>0. /\ <<c, "sock">> \in Conn \X Side /\ <<c, "dev">> \in Conn \X Side
      /\ bufs \in [Conn \X Side -> Seq(Buffer) \ {<<>>}]
      /\ in_reading \in [Conn \X Side -> 0 .. HdrLen + 2]
      /\ in_writing \in [Conn \X Side -> BOOLEAN]
      /\ wire \in [Conn -> Seq(Unit)] /\ sent \in [Conn -> Numbers \cup {0}]
      /\ forwarded \in [Conn -> Seq(Seq(Unit))]
  BY SockTyped, Keys
<1>1. ASSUME NEW d \in Conn, Join(d) PROVE SockInv(c)'
  <2>1. UNCHANGED <<scenario, devbuf, clients, history>>
    BY <1>1 DEF Join, Export, Lookup, AddToArray, Link
  <2> QED  BY <2>1, SockKept DEF View, devbuf, clients, history
<1>2. ASSUME NEW d \in Conn, ReaderThread(d) PROVE SockInv(c)'
  <2>1. CASE d = c
    BY <1>2, <2>1, ReaderSock
  <2>2. CASE d # c
    <3>1. /\ UNCHANGED <<scenario, in_writing, sent, forwarded>>
          /\ UNCHANGED in_reading
             \/ \E a : in_reading' = [in_reading EXCEPT ![<<d, "sock">>] = a]
          /\ UNCHANGED wire \/ \E a : wire' = [wire EXCEPT ![d] = a]
          /\ UNCHANGED bufs \/ \E b : bufs' = WithBufp(d, "sock", b)
      BY <1>2
      DEF ReaderThread, ReaderTurn, ReaderWake, ReaderApc, devbuf, clients, history
    <3>2. bufs'[<<c, "sock">>] = bufs[<<c, "sock">>]
      <4>1. <<c, "sock">> # <<d, "sock">> /\ "sock" \in Side
        BY <2>2, Keys
      <4> QED  BY <1>0, <3>1, <4>1, OthersKept
    <3>3. in_reading'[<<c, "sock">>] = in_reading[<<c, "sock">>] /\ wire'[c] = wire[c]
      BY <1>0, <2>2, <3>1, Keys
    <3> QED  BY <3>1, <3>2, <3>3, SockKept DEF View
  <2> QED  BY <2>1, <2>2
<1>3. ASSUME NEW d \in Conn, ProducerThread(d) PROVE SockInv(c)'
  <2>1. /\ UNCHANGED <<scenario, in_reading, wire, sent, forwarded>>
        /\ UNCHANGED in_writing
           \/ \E a : in_writing' = [in_writing EXCEPT ![<<d, "sock">>] = a]
        /\ UNCHANGED bufs \/ bufs' = Written(d, "dev")
    BY <1>3
    DEF ProducerThread, ProducerTurn, ProducerWake, ProducerApc, devbuf, clients, history
  <2>2. in_writing'[<<c, "dev">>] = in_writing[<<c, "dev">>]
    BY <1>0, <2>1, Keys
  <2>3. bufs'[<<c, "sock">>] = bufs[<<c, "sock">>]
    BY <1>0, <2>1, Keys DEF Written
  <2> QED  BY <2>1, <2>2, <2>3, SockKept DEF View
<1>4. ASSUME NEW d \in Conn, RefresherThread(d) PROVE SockInv(c)'
  <2>1. CASE d = c
    BY <1>4, <2>1, RefresherSock
  <2>2. CASE d # c
    <3>1. /\ UNCHANGED <<scenario, in_reading, in_writing, wire, sent, forwarded>>
          /\ UNCHANGED bufs \/ \E s \in Side : \E a : bufs' = [bufs EXCEPT ![<<d, s>>] = a]
      BY <1>4
      DEF RefresherThread, DropBufc, NewBufp, RefresherEnds, threads, devbuf, clients, history
    <3>2. bufs'[<<c, "sock">>] = bufs[<<c, "sock">>]
      BY <1>0, <2>2, <3>1, Keys
    <3> QED  BY <3>1, <3>2, SockKept DEF View
  <2> QED  BY <2>1, <2>2
<1>5. ASSUME NEW k \in Conn, ConsumerThread(k) PROVE SockInv(c)'
  BY <1>5, ConsumerSock
<1>6. ASSUME NEW d \in Conn, ClientSend(d) PROVE SockInv(c)'
  <2>1. CASE d = c
    BY <1>6, <2>1, ClientSendSock
  <2>2. CASE d # c
    <3>1. UNCHANGED <<scenario, devbuf, history>> /\ wire'[c] = wire[c] /\ sent'[c] = sent[c]
      BY <1>0, <1>6, <2>2 DEF ClientSend
    <3> QED  BY <3>1, SockKept DEF View, devbuf, history
  <2> QED  BY <2>1, <2>2
<1>7. ASSUME \/ \E d \in Conn : ClientClose(d)
             \/ StubAnswer \/ DeviceGone \/ signalhandlerPool
      PROVE  SockInv(c)'
  <2>1. UNCHANGED <<scenario, devbuf, sent, wire, history>>
    BY <1>7 DEF ClientClose, StubAnswer, DeviceGone, signalhandlerPool, clients
  <2> QED  BY <2>1, SockKept DEF View, devbuf, history
<1>8. ASSUME UNCHANGED vars PROVE SockInv(c)'
  BY <1>8, SockKept DEF View, vars, devbuf, clients, history
<1> QED
  BY <1>1, <1>2, <1>3, <1>4, <1>5, <1>6, <1>7, <1>8 DEF Next, Environment

LEMMA SockInit ==
  ASSUME Init, NEW c \in Conn
  PROVE  SockInv(c)
<1> DEFINE q == <<NewBuffer>>
           ks == scenario.kinds[c]
<1>1. /\ bufs[<<c, "sock">>] = q /\ in_reading[<<c, "sock">>] = 0
      /\ in_writing[<<c, "dev">>] = FALSE /\ wire[c] = <<>> /\ sent[c] = 0
      /\ forwarded[c] = <<>>
  <2>1. <<c, "sock">> \in Conn \X Side /\ <<c, "dev">> \in Conn \X Side
    BY Keys
  <2> QED  BY <2>1 DEF Init
<1>2. Len(q) = 1 /\ q[1] = NewBuffer /\ Head(q) = NewBuffer /\ Last(q) = NewBuffer
  BY DEF Last
<1>3. NewBuffer.step = 0 /\ NewBuffer.off = 0 /\ NewBuffer.data = <<>>
  BY DEF NewBuffer
<1>4. Len(<<>>) = 0 /\ <<>> \o <<>> = <<>> /\ \A i \in 1 .. Len(<<>>) : FALSE
  OBVIOUS
<1> HIDE DEF q, ks
<1>5. Base(q, <<>>) = 0 /\ Filling(q, <<>>) = 1
  BY <1>2, <1>3, <1>4 DEF Base, Filling
<1>6. OneEach(c, ks, q, 0, <<>>)
  BY <1>2, <1>3 DEF OneEach
<1>7. Stream(c, ks, <<>>, 1, 0)
  BY <1>4 DEF Stream, Units, Runs, Follows
<1>8. Rest(c, ks, q, <<>>, 0, <<>>)
  BY <1>2, <1>3, <1>4, <1>5, <1>7 DEF Rest
<1>9. ReadsOne(ks, q, 0, <<>>) /\ Forwarded(c, ks, 0, <<>>)
  BY <1>4 DEF ReadsOne, Forwarded
<1> QED  BY <1>1, <1>6, <1>8, <1>9 DEF SockInv, Sock, ks

\* For any number of clients, whatever they send, however their bytes are cut
\* and whatever fails: a connection writes to the stub what its client sent,
\* command for command, each whole, once and in order.
THEOREM CommandsArriveInOrder == Spec => []CommandsInOrder
<1> DEFINE Inv == TypeInv /\ \A c \in Conn : SockInv(c)
<1>1. Init => Inv
  BY TypeInvInit, SockInit
<1>2. Inv /\ [Next]_vars => Inv'
  BY TypeInvStep, SockStep
<1>3. Inv => CommandsInOrder
  <2> SUFFICES ASSUME NEW c \in Conn, SockInv(c), NEW i \in 1 .. Len(forwarded[c])
               PROVE  i <= sent[c] /\ forwarded[c][i] = Message(c, i, TRUE)
    BY DEF CommandsInOrder
  <2>1. i <= sent[c] /\ forwarded[c][i] = Command(c, scenario.kinds[c], i)
    BY DEF SockInv, Sock, Forwarded
  <2>2. Message(c, i, TRUE) = Command(c, scenario.kinds[c], i)
    BY Zenon DEF Message, Command, CmdLen, KindOf
  <2> QED  BY <2>1, <2>2
<1> QED  BY <1>1, <1>2, <1>3, PTL DEF Spec
-----------------------------------------------------------------------------
(* The consumer of the device.                                              *)

\* Connections come one after the other.
NotTogether == "together" \notin scenario.faults

OneJoins == \A c, d \in Conn : Joining(c) /\ Joining(d) => c = d

\* A consumer that has found no other, or runs.
Consuming(k) == consumer[k] \in {"add", "run", "wait"}

OneConsumer ==
  /\ \A k, l \in Conn : Consuming(k) /\ Consuming(l) => k = l
  /\ \A k \in Conn : consumer[k] \in {"run", "wait"} => k \in consumerThreadList
  /\ \A k \in Conn : consumer[k] = "add" => consumerThreadList = {}
  /\ \A c \in Conn : producer[c] \in {"none", "lookup", "add", "link"} => consumer[c] = "none"

\* A connection that is in the middle of reading an answer has a consumer.
InAnswer(c) == in_reading[<<c, "dev">>] > 0 \/ bufp(c, "dev").step \in {1, 2}
Served ==
  \A c \in Conn : InAnswer(c) => \E k \in Conn : consumer[k] \in {"run", "wait"} /\ at[k] = c

ConsumerInv == NotTogether /\ OneJoins /\ OneConsumer /\ Served

\* No connection joins and no consumer begins or ends.
LEMMA ThreadsKept ==
  ASSUME OneJoins, OneConsumer,
         \A c \in Conn : /\ \/ producer'[c] = producer[c]
                            \/ {producer[c], producer'[c]} \subseteq {"run", "wait", "ended"}
                         /\ \/ consumer'[c] = consumer[c]
                            \/ {consumer[c], consumer'[c]} \subseteq {"run", "wait"},
         UNCHANGED consumerThreadList
  PROVE  OneJoins' /\ OneConsumer'
<1>1. \A c \in Conn : /\ Joining(c)' <=> Joining(c)
                      /\ Consuming(c)' <=> Consuming(c)
                      /\ consumer'[c] \in {"run", "wait"} <=> consumer[c] \in {"run", "wait"}
                      /\ consumer'[c] = "add" <=> consumer[c] = "add"
                      /\ consumer'[c] = "none" <=> consumer[c] = "none"
                      /\ producer'[c] \in {"none", "lookup", "add", "link"}
                           <=> producer[c] \in {"none", "lookup", "add", "link"}
  BY DEF Joining, Consuming
<1>2. OneJoins'
  BY <1>1 DEF OneJoins
<1>3. OneConsumer'
  BY <1>1 DEF OneConsumer
<1> QED  BY <1>2, <1>3

\* A connection joins when no other does.
LEMMA JoinOne ==
  ASSUME TypeInv, NotTogether, OneJoins, OneConsumer, NEW c \in Conn, Join(c)
  PROVE  OneJoins' /\ OneConsumer'
<1>1. /\ producer \in [Conn -> {"none", "lookup", "add", "link", "run", "wait", "ended"}]
      /\ consumer \in [Conn -> {"none", "look", "add", "refused", "run", "wait"}]
  BY DEF TypeInv, TypeOK
<1>2. /\ UNCHANGED consumerThreadList
      /\ \A d \in Conn : d # c => producer'[d] = producer[d] /\ consumer'[d] = consumer[d]
      /\ consumer[c] = "none" /\ consumer'[c] \in {"none", "look"}
      /\ consumer'[c] = "look" => producer'[c] \in {"run", "ended"}
      /\ \A d \in Conn : Joining(d) => d = c
  <2>1. CASE Export(c)
    BY <1>1, <2>1 DEF Export, lists, NotTogether, OneConsumer
  <2>2. CASE Lookup(c) \/ AddToArray(c)
    <3>1. Joining(c) /\ consumer[c] = "none" /\ consumer' = consumer
          /\ UNCHANGED consumerThreadList
      BY <2>2 DEF Lookup, AddToArray, Joining, OneConsumer, lists
    <3>2. \A d \in Conn : Joining(d) => d = c
      BY <3>1 DEF OneJoins
    <3>3. \A d \in Conn : d # c => producer'[d] = producer[d]
      BY <1>1, <2>2 DEF Lookup, AddToArray
    <3> QED  BY <3>1, <3>2, <3>3
  <2>3. CASE Link(c)
    <3>1. Joining(c) /\ consumer[c] = "none" /\ UNCHANGED consumerThreadList
      BY <2>3 DEF Link, Joining, OneConsumer
    <3>2. \A d \in Conn : Joining(d) => d = c
      BY <3>1 DEF OneJoins
    <3>3. PICK n \in 0 .. 3 :
            /\ consumer' = [consumer EXCEPT ![c] = IF n >= 2 THEN "look" ELSE "none"]
            /\ producer' = [producer EXCEPT ![c] = IF n = 3 THEN "run" ELSE "ended"]
      BY <2>3 DEF Link
    <3> QED  BY <1>1, <3>1, <3>2, <3>3
  <2> QED  BY <2>1, <2>2, <2>3 DEF Join
<1>3. \A d \in Conn : d # c => ~Joining(d)'
  BY <1>2 DEF Joining
<1>4. \A d \in Conn : Consuming(d)' => Consuming(d) /\ d # c
  BY <1>2 DEF Consuming
<1>5. OneJoins'
  BY <1>3 DEF OneJoins
<1>6. OneConsumer'
  <2>1. \A k, l \in Conn : Consuming(k)' /\ Consuming(l)' => k = l
    BY <1>4 DEF OneConsumer
  <2>2. \A k \in Conn : consumer'[k] \in {"run", "wait"} => k \in consumerThreadList'
    BY <1>2 DEF OneConsumer
  <2>3. \A k \in Conn : consumer'[k] = "add" => consumerThreadList' = {}
    BY <1>2 DEF OneConsumer
  <2>4. \A d \in Conn : producer'[d] \in {"none", "lookup", "add", "link"} => consumer'[d] = "none"
    BY <1>2 DEF OneConsumer
  <2> QED  BY <2>1, <2>2, <2>3, <2>4 DEF OneConsumer
<1> QED  BY <1>5, <1>6

\* The consumer of a connection looks for another and finds none.
LEMMA ConsumerOne ==
  ASSUME TypeInv, OneJoins, OneConsumer, NEW k \in Conn, ConsumerThread(k)
  PROVE  OneJoins' /\ OneConsumer'
<1>0. /\ consumer \in [Conn -> {"none", "look", "add", "refused", "run", "wait"}]
      /\ UNCHANGED producer
  <2>1. UNCHANGED producer
    BY DEF ConsumerThread, ConsumerLook, ConsumerAdd, ConsumerFirst, ConsumerTurn,
           ConsumerWake, ConsumerReadApc, ConsumerWriteApc
  <2> QED  BY <2>1 DEF TypeInv, TypeOK
<1>1. CASE ConsumerLook(k)
  <2>1. /\ consumer[k] = "look" /\ UNCHANGED consumerThreadList
        /\ consumer'[k] \in {"add", "refused"}
        /\ consumer'[k] = "add" => consumerThreadList = {}
        /\ \A l \in Conn : l # k => consumer'[l] = consumer[l]
    BY <1>0, <1>1 DEF ConsumerLook, lists
  <2>2. \A l \in Conn : Joining(l) => l = k
    BY <2>1 DEF OneJoins, Joining
  <2>3. OneJoins'
    <3>1. \A l \in Conn : l # k => (Joining(l)' <=> Joining(l))
      BY <1>0, <2>1 DEF Joining
    <3> QED  BY <2>2, <3>1 DEF OneJoins
  <2>4. \A c, l \in Conn : Consuming(c)' /\ Consuming(l)' => c = l
    <3>1. ASSUME NEW l \in Conn, l # k, Consuming(l)' PROVE Consuming(l) /\ consumer'[k] # "add"
      <4>1. Consuming(l)
        BY <2>1, <3>1 DEF Consuming
      <4>2. consumer[l] # "add"
        BY <2>2, <3>1 DEF Joining
      <4>3. l \in consumerThreadList
        BY <4>1, <4>2 DEF Consuming, OneConsumer
      <4> QED  BY <2>1, <4>1, <4>3
    <3>2. Consuming(k)' => consumer'[k] = "add"
      BY <2>1 DEF Consuming
    <3>3. ASSUME NEW c \in Conn, NEW l \in Conn, Consuming(c)', Consuming(l)' PROVE c = l
      <4>1. CASE c = k \/ l = k
        BY <3>1, <3>2, <3>3, <4>1
      <4>2. CASE c # k /\ l # k
        BY <3>1, <3>3, <4>2 DEF OneConsumer
      <4> QED  BY <4>1, <4>2
    <3> QED  BY <3>3
  <2>5. /\ \A l \in Conn : consumer'[l] \in {"run", "wait"} => l \in consumerThreadList'
        /\ \A l \in Conn : consumer'[l] = "add" => consumerThreadList' = {}
        /\ \A c \in Conn : producer'[c] \in {"none", "lookup", "add", "link"} => consumer'[c] = "none"
    BY <1>0, <2>1 DEF OneConsumer
  <2> QED  BY <2>3, <2>4, <2>5 DEF OneConsumer
<1>2. CASE ConsumerAdd(k)
  <2>1. /\ consumer[k] = "add"
        /\ \A l \in Conn : l # k => consumer'[l] = consumer[l]
        /\ \/ consumer'[k] = "run" /\ consumerThreadList' = consumerThreadList \cup {k}
           \/ consumer'[k] = "refused" /\ UNCHANGED consumerThreadList
    BY <1>0, <1>2 DEF ConsumerAdd
  <2>2. \A l \in Conn : l # k => ~Joining(l) /\ ~Joining(l)' /\ ~Consuming(l)'
    <3>1. \A l \in Conn : l # k => ~Joining(l) /\ ~Consuming(l)
      BY <2>1 DEF OneJoins, OneConsumer, Joining, Consuming
    <3> QED  BY <1>0, <2>1, <3>1 DEF Joining, Consuming
  <2>3. OneJoins'
    BY <2>2 DEF OneJoins
  <2>4. \A c, l \in Conn : Consuming(c)' /\ Consuming(l)' => c = l
    BY <2>2
  <2>5. /\ \A l \in Conn : consumer'[l] \in {"run", "wait"} => l \in consumerThreadList'
        /\ \A l \in Conn : consumer'[l] # "add"
        /\ \A c \in Conn : producer'[c] \in {"none", "lookup", "add", "link"} => consumer'[c] = "none"
    <3>1. \A l \in Conn : l # k => consumer'[l] \notin {"add", "run", "wait"}
      BY <2>2 DEF Consuming
    <3>2. producer'[k] \notin {"none", "lookup", "add", "link"}
      BY <1>0, <2>1 DEF OneConsumer
    <3> QED  BY <1>0, <2>1, <3>1, <3>2 DEF OneConsumer
  <2> QED  BY <2>3, <2>4, <2>5 DEF OneConsumer
<1>3. CASE ConsumerFirst(k)
  BY <1>0, <1>3, ThreadsKept DEF ConsumerFirst, lists
<1>4. CASE ConsumerTurn(k)
  <2>1. /\ consumer[k] = "run" /\ UNCHANGED consumerThreadList
        /\ \E x \in {"run", "wait"} : consumer' = [consumer EXCEPT ![k] = x]
    BY <1>4 DEF ConsumerTurn, lists
  <2> QED  BY <1>0, <2>1, ThreadsKept
<1>5. CASE ConsumerWake(k) \/ ConsumerReadApc(k) \/ ConsumerWriteApc(k)
  <2>1. /\ consumer[k] = "wait" /\ UNCHANGED consumerThreadList
        /\ consumer' = [consumer EXCEPT ![k] = "run"]
    BY <1>5 DEF ConsumerWake, ConsumerReadApc, ConsumerWriteApc, ConsumerGoesOn, lists
  <2> QED  BY <1>0, <2>1, ThreadsKept
<1> QED  BY <1>1, <1>2, <1>3, <1>4, <1>5 DEF ConsumerThread

LEMMA OneStep ==
  ASSUME TypeInv, ConsumerInv, [Next]_vars
  PROVE  NotTogether' /\ OneJoins' /\ OneConsumer'
<1>1. NotTogether'
  <2>1. UNCHANGED scenario
    BY ZenonT(60) DEF Next, Join, ReaderThread, ProducerThread, RefresherThread, ConsumerThread, Environment,
           Export, Lookup, AddToArray, Link, ReaderTurn, ReaderWake, ReaderApc,
           ProducerTurn, ProducerWake, ProducerApc, DropBufc, NewBufp, RefresherEnds,
           ConsumerLook, ConsumerAdd, ConsumerFirst, ConsumerTurn, ConsumerWake,
           ConsumerReadApc, ConsumerWriteApc, ClientSend, ClientClose, StubAnswer, DeviceGone,
           signalhandlerPool, vars
  <2> QED  BY SMTT(30), <2>1 DEF NotTogether, ConsumerInv
<1>2. ASSUME NEW c \in Conn, Join(c) PROVE OneJoins' /\ OneConsumer'
  BY <1>2, JoinOne DEF ConsumerInv
<1>3. ASSUME UNCHANGED <<producer, consumer, lists>> PROVE OneJoins' /\ OneConsumer'
  BY <1>3, ThreadsKept DEF ConsumerInv, lists
<1>4. ASSUME NEW c \in Conn, ReaderThread(c) PROVE OneJoins' /\ OneConsumer'
  <2>1. UNCHANGED <<producer, consumer, lists>>
    BY <1>4 DEF ReaderThread, ReaderTurn, ReaderWake, ReaderApc
  <2> QED  BY <1>3, <2>1
<1>5. ASSUME NEW c \in Conn, ProducerThread(c) PROVE OneJoins' /\ OneConsumer'
  <2>1. /\ UNCHANGED <<consumer, lists>> /\ producer[c] \in {"run", "wait"}
        /\ \E x \in {"run", "wait", "ended"} : producer' = [producer EXCEPT ![c] = x]
    BY <1>5 DEF ProducerThread, ProducerTurn, ProducerWake, ProducerApc
  <2>2. \A d \in Conn : \/ producer'[d] = producer[d]
                        \/ {producer[d], producer'[d]} \subseteq {"run", "wait", "ended"}
    BY <2>1 DEF TypeInv, TypeOK
  <2> QED  BY <2>1, <2>2, ThreadsKept DEF ConsumerInv, lists
<1>6. ASSUME NEW c \in Conn, RefresherThread(c) PROVE OneJoins' /\ OneConsumer'
  <2>1. UNCHANGED <<producer, consumer, lists>>
    BY <1>6 DEF RefresherThread, DropBufc, NewBufp, RefresherEnds, threads
  <2> QED  BY <1>3, <2>1
<1>7. ASSUME NEW k \in Conn, ConsumerThread(k) PROVE OneJoins' /\ OneConsumer'
  BY <1>7, ConsumerOne DEF ConsumerInv
<1>8. ASSUME Environment \/ UNCHANGED vars PROVE OneJoins' /\ OneConsumer'
  <2>1. UNCHANGED <<producer, consumer, lists>>
    BY <1>8
    DEF Environment, ClientSend, ClientClose, StubAnswer, DeviceGone, signalhandlerPool, vars,
        threads
  <2> QED  BY <1>3, <2>1
<1> QED  BY <1>1, <1>2, <1>4, <1>5, <1>6, <1>7, <1>8 DEF Next

\* Nobody begins to read an answer, and every consumer stays where it is.
LEMMA ServedKept ==
  ASSUME Served,
         \A k \in Conn : consumer[k] \in {"run", "wait"} /\ at[k] \in Conn
                           => consumer'[k] \in {"run", "wait"} /\ at'[k] = at[k],
         \A c \in Conn : InAnswer(c)' => InAnswer(c)
  PROVE  Served'
BY DEF Served

\* A connection begins to read an answer only in a turn of the consumer.
LEMMA AnswerKept ==
  ASSUME TypeInv, [Next]_vars, \A k \in Conn : ~ConsumerTurn(k), NEW c \in Conn, InAnswer(c)'
  PROVE  InAnswer(c)
<1> DEFINE q == bufs[<<c, "dev">>]
           r == in_reading[<<c, "dev">>]
<1>1. /\ q \in Seq(Buffer) /\ q # <<>> /\ Len(q) \in Nat \ {0} /\ r \in Nat
      /\ "sock" \in Side /\ "dev" \in Side /\ <<c, "dev">> \in Conn \X Side
      /\ bufs \in [Conn \X Side -> Seq(Buffer) \ {<<>>}]
      /\ in_reading \in [Conn \X Side -> 0 .. HdrLen + 2]
  BY Bufs, Keys, SockTyped
<1>2. ASSUME r' = r \/ r' = 0, Last(q').step \in {0, Last(q).step} PROVE InAnswer(c)
  BY <1>2 DEF InAnswer, bufp
<1>3. ASSUME UNCHANGED <<q, r>> PROVE InAnswer(c)
  BY <1>2, <1>3
\* A written bufc is the same but for its off.
<1>4. ASSUME NEW d \in Conn, NEW s \in Side, bufs' = Written(d, s), UNCHANGED in_reading
      PROVE  InAnswer(c)
  <2>1. CASE <<d, s>> # <<c, "dev">>
    <3>1. UNCHANGED q
      BY <1>1, <1>4, <2>1 DEF Written
    <3> QED  BY <1>3, <1>4, <3>1
  <2>2. CASE <<d, s>> = <<c, "dev">>
    <3> DEFINE b == [q[1] EXCEPT !.off = Len(q[1].data)]
    <3>1. b.step = q[1].step /\ b \in Buffer
      <4>1. q[1] \in Buffer /\ Sound(q[1]) /\ Len(q[1].data) \in Nat
        <5>1. bufc(c, "dev") = q[1] /\ bufc(c, "dev") \in Buffer /\ Sound(bufc(c, "dev"))
          BY <1>1, Bufs
        <5> QED  BY <5>1 DEF Buffer
      <4> QED  BY SMTT(30), <4>1, ConstantsAssumption DEF Buffer, Sound
    <3>2. q' = [q EXCEPT ![1] = b]
      <4> DEFINE p == [q EXCEPT ![1] = b]
      <4>1. bufs' = [bufs EXCEPT ![<<c, "dev">>] = p]
        BY <1>4, <2>2 DEF Written
      <4> HIDE DEF p
      <4>2. bufs'[<<c, "dev">>] = p
        BY <1>1, <4>1
      <4> QED  BY <4>2 DEF p, q
    <3>3. Last(q).step = q[Len(q)].step
      BY DEF Last
    <3> HIDE DEF b
    <3>4. Last(q') = IF Len(q) = 1 THEN b ELSE Last(q)
      <4>1. PICK p : p = q'
        OBVIOUS
      <4>2. p = [q EXCEPT ![1] = b]
        BY <3>2, <4>1
      <4> HIDE DEF q
      <4>3. q \in Seq(Buffer) /\ q # <<>> /\ b \in Buffer
        BY <1>1, <3>1
      <4>4. Last(p) = IF Len(q) = 1 THEN b ELSE Last(q)
        <5>1. Len(p) = Len(q) /\ Len(q) \in Nat \ {0}
          BY <4>2, <4>3, FirstReplaced
        <5>2. \A i \in 1 .. Len(q) : p[i] = IF i = 1 THEN b ELSE q[i]
          BY <4>2, <4>3, FirstReplaced
        <5>3. Last(p) = p[Len(q)] /\ Len(q) \in 1 .. Len(q) /\ Last(q) = q[Len(q)]
          BY <5>1 DEF Last
        <5> QED  BY <5>1, <5>2, <5>3
      <4> QED  BY <4>1, <4>4
    <3>5. Last(q').step = Last(q).step
      BY <3>1, <3>3, <3>4
    <3> QED  BY <1>2, <1>4, <3>5
  <2> QED  BY <2>1, <2>2
<1>5. ASSUME NEW d \in Conn, Join(d) PROVE InAnswer(c)
  BY <1>3, <1>5 DEF Join, Export, Lookup, AddToArray, Link, devbuf
<1>6. ASSUME NEW d \in Conn, ReaderThread(d) PROVE InAnswer(c)
  <2>1. /\ UNCHANGED bufs \/ \E b : bufs' = WithBufp(d, "sock", b)
        /\ UNCHANGED in_reading \/ \E a : in_reading' = [in_reading EXCEPT ![<<d, "sock">>] = a]
    BY <1>6 DEF ReaderThread, ReaderTurn, ReaderWake, ReaderApc, devbuf
  <2>2. UNCHANGED q
    <3>1. <<c, "dev">> # <<d, "sock">>
      BY Keys
    <3> QED  BY <1>1, <2>1, <3>1, OthersKept
  <2>3. UNCHANGED r
    BY <1>1, <2>1, Keys
  <2> QED  BY <1>3, <2>2, <2>3
<1>7. ASSUME NEW d \in Conn, ProducerThread(d) PROVE InAnswer(c)
  <2>1. UNCHANGED in_reading /\ (UNCHANGED bufs \/ bufs' = Written(d, "dev"))
    BY <1>7 DEF ProducerThread, ProducerTurn, ProducerWake, ProducerApc, devbuf
  <2> QED  BY <1>1, <1>3, <1>4, <2>1
<1>8. ASSUME NEW d \in Conn, RefresherThread(d) PROVE InAnswer(c)
  <2>1. UNCHANGED in_reading
    BY <1>8 DEF RefresherThread, DropBufc, NewBufp, RefresherEnds, devbuf
  <2>2. ASSUME NEW s \in Side, DropBufc(d, s), <<d, s>> = <<c, "dev">> PROVE InAnswer(c)
    <3>1. q' = Tail(q) /\ Len(q) > 1
      BY <1>1, <2>2 DEF DropBufc, CanDrop
    <3>2. Last(q') = Last(q)
      <4> HIDE DEF q
      <4> QED  BY <1>1, <3>1, Shorter
    <3> QED  BY <1>2, <2>1, <3>2
  <2>3. ASSUME NEW s \in Side, NewBufp(d, s), <<d, s>> = <<c, "dev">> PROVE InAnswer(c)
    <3>1. CASE UNCHANGED bufs
      BY <1>3, <2>1, <3>1
    <3>2. CASE bufs' = [bufs EXCEPT ![<<c, "dev">>] = Append(@, NewBuffer)]
      <4>1. q' = Append(q, NewBuffer)
        BY <1>1, <3>2
      <4>2. Last(q') = NewBuffer
        <5>1. PICK p : p = q'
          OBVIOUS
        <5>2. p = Append(q, NewBuffer)
          BY <4>1, <5>1
        <5> HIDE DEF q
        <5>3. q \in Seq(Buffer) /\ q # <<>> /\ NewBuffer \in Buffer
          BY <1>1, NewIsSound
        <5>4. Last(p) = NewBuffer
          BY <5>2, <5>3, Longer
        <5> QED  BY <5>1, <5>4
      <4> QED  BY <1>2, <2>1, <4>2 DEF NewBuffer
    <3> QED  BY <2>3, <3>1, <3>2 DEF NewBufp
  <2>4. ASSUME NEW s \in Side, DropBufc(d, s) \/ NewBufp(d, s), <<d, s>> # <<c, "dev">>
        PROVE  InAnswer(c)
    <3>1. UNCHANGED bufs \/ \E a : bufs' = [bufs EXCEPT ![<<d, s>>] = a]
      BY <2>4 DEF DropBufc, NewBufp
    <3>2. UNCHANGED q
      BY <1>1, <2>4, <3>1
    <3> QED  BY <1>3, <2>1, <3>2
  <2>5. ASSUME RefresherEnds(d) PROVE InAnswer(c)
    BY <1>3, <2>5 DEF RefresherEnds, devbuf
  <2> QED  BY <1>8, <2>2, <2>3, <2>4, <2>5 DEF RefresherThread
<1>9. ASSUME NEW k \in Conn, ConsumerThread(k) PROVE InAnswer(c)
  <2>1. CASE ConsumerLook(k) \/ ConsumerAdd(k) \/ ConsumerFirst(k) \/ ConsumerWake(k)
    BY <1>3, <2>1 DEF ConsumerLook, ConsumerAdd, ConsumerFirst, ConsumerWake, devbuf
  <2>2. CASE ConsumerReadApc(k)
    <3>0. PICK d : d = at[k]
      OBVIOUS
    <3>1. d \in Conn
      BY <2>2, <3>0, GoesOn DEF ConsumerReadApc
    <3> DEFINE b == bufp(d, "dev")
    <3>2. /\ in_reading' = [in_reading EXCEPT ![<<d, "dev">>] = 0]
          /\ UNCHANGED bufs
             \/ \E x : bufs' = WithBufp(d, "dev", [b EXCEPT !.data = @ \o x])
      BY <2>2, <3>0 DEF ConsumerReadApc
    <3>3. r' = r \/ r' = 0
      BY <1>1, <3>2
    <3>4. CASE UNCHANGED bufs
      BY <1>2, <3>3, <3>4
    <3>5. ASSUME NEW x, bufs' = WithBufp(d, "dev", [b EXCEPT !.data = @ \o x])
          PROVE  Last(q').step = Last(q).step
      <4>1. CASE d # c
        <5>1. <<c, "dev">> # <<d, "dev">>
          BY <4>1
        <5>2. UNCHANGED q
          BY <1>1, <3>1, <3>5, <5>1, BufpIs
        <5> QED  BY <5>2
      <4>2. CASE d = c
        <5> DEFINE e == [b EXCEPT !.data = @ \o x]
        <5>1. b \in Buffer /\ b = Last(q)
          BY <1>1, <4>2, Bufs DEF bufp
        <5>2. e.step = b.step
          BY <5>1 DEF Buffer
        <5>0. bufs' = WithBufp(c, "dev", e)
          BY <3>5, <4>2
        <5> HIDE DEF e
        <5>3. q' = [q EXCEPT ![Len(q)] = e]
          BY <1>1, <5>0, BufpIs
        <5>4. Last(q') = e
          <6>1. Len(q') = Len(q) /\ q'[Len(q)] = e
            BY <1>1, <5>3
          <6> QED  BY <6>1 DEF Last
        <5> QED  BY <5>1, <5>2, <5>4
      <4> QED  BY <4>1, <4>2
    <3> QED  BY <1>2, <3>2, <3>3, <3>4, <3>5
  <2>3. CASE ConsumerWriteApc(k)
    <3>1. /\ at[k] \in Conn /\ UNCHANGED in_reading
          /\ UNCHANGED bufs \/ bufs' = Written(at[k], "sock")
      BY <2>3, GoesOn DEF ConsumerWriteApc
    <3> QED  BY <1>1, <1>3, <1>4, <3>1
  <2> QED  BY <1>9, <2>1, <2>2, <2>3 DEF ConsumerThread
<1>10. ASSUME Environment \/ UNCHANGED vars PROVE InAnswer(c)
  BY <1>3, <1>10
  DEF Environment, ClientSend, ClientClose, StubAnswer, DeviceGone, signalhandlerPool, vars, devbuf
<1> QED  BY <1>5, <1>6, <1>7, <1>8, <1>9, <1>10 DEF Next

\* A consumer that leaves a connection has read all of its answer.
LEMMA TurnServed ==
  ASSUME TypeInv, ConsumerInv, NEW k \in Conn, ConsumerTurn(k)
  PROVE  Served'
<1>0. PICK c : c = at[k]
  OBVIOUS
<1> DEFINE b == bufp(c, "dev")
           write == CanWrite(c, "dev")
           writing == write \/ in_writing[<<c, "dev">>]
           read == writing \/ b.step \in {1, 2}
           old == in_reading[<<c, "dev">>]
           starts == read /\ old = 0 /\ Asks("dev", b) > 0
           asked == IF starts THEN Asks("dev", b) ELSE old
           new == read_dev("dev", b)
           leaves == Leaves(c, asked, writing)
<1>1. /\ c \in Conn /\ "dev" \in Side /\ <<c, "dev">> \in Conn \X Side
      /\ consumer[k] = "run"
      /\ consumer \in [Conn -> {"none", "look", "add", "refused", "run", "wait"}]
      /\ at \in [Conn -> Conn \cup {NoConn}]
      /\ bufs \in [Conn \X Side -> Seq(Buffer) \ {<<>>}]
      /\ in_reading \in [Conn \X Side -> 0 .. HdrLen + 2]
  BY <1>0 DEF ConsumerTurn, TypeInv, TypeOK, Side
<1>2. /\ bufs' = IF read THEN WithBufp(c, "dev", new) ELSE bufs
      /\ in_reading' = [in_reading EXCEPT ![<<c, "dev">>] = asked]
      /\ at' = [at EXCEPT ![k] = IF leaves THEN next[c] ELSE @]
      /\ \E x \in {"run", "wait"} : consumer' = [consumer EXCEPT ![k] = x]
  <2> HIDE DEF CanWrite
  <2> QED  BY <1>0 DEF ConsumerTurn
<1>3. /\ b \in Buffer /\ Sound(b) /\ b.step \in 0 .. 3 /\ old \in Nat
      /\ bufs[<<c, "dev">>] \in Seq(Buffer) /\ bufs[<<c, "dev">>] # <<>>
      /\ Len(bufs[<<c, "dev">>]) \in Nat \ {0}
  <2>1. /\ b \in Buffer /\ Sound(b) /\ old \in Nat
        /\ bufs[<<c, "dev">>] \in Seq(Buffer) /\ bufs[<<c, "dev">>] # <<>>
        /\ Len(bufs[<<c, "dev">>]) \in Nat \ {0}
    BY <1>1, Bufs
  <2> QED  BY <2>1 DEF Buffer
<1>4. new.step = 3 \/ Asks("dev", b) > 0
  <2> HIDE DEF b
  <2>1. Len(b.data) \in Nat /\ HdrLen \in Nat /\ Expected("dev", b) \in HdrLen .. HdrLen + 2
    BY <1>1, <1>3, ReadDev
  <2>2. new.step # 3 => Len(b.data) < Expected("dev", b)
    BY <1>3, <2>1 DEF read_dev, Buffer, Expected
  <2>3. new.step # 3 => Asks("dev", b) = Expected("dev", b) - Len(b.data)
    BY DEF Asks
  <2> HIDE DEF new
  <2> QED  BY <2>1, <2>2, <2>3
<1>5. ASSUME NEW d \in Conn, d # c PROVE InAnswer(d)' => InAnswer(d)
  <2>1. <<d, "dev">> \in Conn \X Side /\ <<d, "dev">> # <<c, "dev">>
    BY <1>1, <1>5
  <2>2. bufs'[<<d, "dev">>] = bufs[<<d, "dev">>]
    <3>1. UNCHANGED bufs \/ \E x : bufs' = WithBufp(c, "dev", x)
      BY <1>2
    <3> QED  BY <1>1, <2>1, <3>1, OthersKept
  <2>3. in_reading'[<<d, "dev">>] = in_reading[<<d, "dev">>]
    <3> HIDE DEF asked
    <3> QED  BY <1>1, <1>2, <2>1
  <2> QED  BY <2>2, <2>3 DEF InAnswer, bufp
<1>6. ASSUME NEW l \in Conn, l # k PROVE consumer'[l] = consumer[l] /\ at'[l] = at[l]
  <2> HIDE DEF leaves
  <2> QED  BY <1>1, <1>2, <1>6
<1>7. consumer'[k] \in {"run", "wait"}
  BY <1>1, <1>2
<1>8. at'[k] = c \/ ~InAnswer(c)'
  <2>1. CASE ~leaves
    <3> HIDE DEF leaves
    <3> QED  BY <1>0, <1>1, <1>2, <2>1
  <2>2. CASE leaves
    <3>1. asked = 0 /\ ~writing
      BY <2>2 DEF Leaves
    <3>2. ~(in_reading'[<<c, "dev">>] > 0)
      <4>1. in_reading'[<<c, "dev">>] = 0
        <5> HIDE DEF asked
        <5> QED  BY <1>1, <1>2, <3>1
      <4> QED  BY <4>1
    <3>3. CASE read
      <4>1. new.step = 3
        <5>1. ~(Asks("dev", b) > 0)
          <6> HIDE DEF read, b
          <6> QED  BY <1>3, <3>1, <3>3
        <5> QED  BY <1>4, <5>1
      <4> DEFINE q == bufs[<<c, "dev">>]
      <4>2. bufs'[<<c, "dev">>] = [q EXCEPT ![Len(q)] = new]
        <5>1. bufs' = WithBufp(c, "dev", new)
          BY <1>2, <3>3
        <5> HIDE DEF new
        <5> QED  BY <1>1, <5>1, BufpIs
      <4> HIDE DEF new, q
      <4>3. Last(bufs'[<<c, "dev">>]) = new
        <5>1. q \in Seq(Buffer) /\ Len(q) \in 1 .. Len(q)
          BY <1>3 DEF q
        <5>2. Len([q EXCEPT ![Len(q)] = new]) = Len(q) /\ [q EXCEPT ![Len(q)] = new][Len(q)] = new
          BY <5>1
        <5> QED  BY <4>2, <5>2 DEF Last
      <4> QED  BY <3>2, <4>1, <4>3 DEF InAnswer, bufp
    <3>4. CASE ~read
      <4>1. bufs' = bufs /\ b.step \notin {1, 2}
        BY <1>2, <3>4
      <4> QED  BY <3>2, <4>1 DEF InAnswer, bufp
    <3> QED  BY <3>3, <3>4
  <2> QED  BY <2>1, <2>2
<1> HIDE DEF b, write, writing, read, old, starts, asked, new, leaves
<1>9. ASSUME NEW d \in Conn, InAnswer(d)'
      PROVE  \E l \in Conn : consumer'[l] \in {"run", "wait"} /\ at'[l] = d
  <2>1. CASE d = c
    BY <1>7, <1>8, <1>9, <2>1
  <2>2. CASE d # c
    <3>1. PICK l \in Conn : consumer[l] \in {"run", "wait"} /\ at[l] = d
      BY <1>5, <1>9, <2>2 DEF ConsumerInv, Served
    <3>2. l # k
      BY <1>0, <2>2, <3>1
    <3> QED  BY <1>6, <3>1, <3>2
  <2> QED  BY <2>1, <2>2
<1> QED  BY <1>9 DEF Served

LEMMA ServedStep ==
  ASSUME TypeInv, ConsumerInv, [Next]_vars
  PROVE  Served'
<1>1. CASE \E k \in Conn : ConsumerTurn(k)
  BY <1>1, TurnServed
<1>2. CASE \A k \in Conn : ~ConsumerTurn(k)
  <2> DEFINE Stays == \A k \in Conn : consumer[k] \in {"run", "wait"} /\ at[k] \in Conn
                        => consumer'[k] \in {"run", "wait"} /\ at'[k] = at[k]
  <2>0. /\ consumer \in [Conn -> {"none", "look", "add", "refused", "run", "wait"}]
        /\ at \in [Conn -> Conn \cup {NoConn}]
    BY DEF TypeInv, TypeOK
  <2>1. ASSUME NEW c \in Conn, Join(c) PROVE Stays
    <3>1. /\ UNCHANGED at
          /\ \/ UNCHANGED consumer
             \/ consumer[c] = "none" /\ \E x : consumer' = [consumer EXCEPT ![c] = x]
      <4>1. CASE Export(c) \/ Lookup(c) \/ AddToArray(c)
        BY <4>1 DEF Export, Lookup, AddToArray
      <4>2. CASE Link(c)
        BY <4>2 DEF Link, ConsumerInv, OneConsumer
      <4> QED  BY <2>1, <4>1, <4>2 DEF Join
    <3> QED  BY <2>0, <3>1
  <2>2. ASSUME UNCHANGED <<consumer, at>> PROVE Stays
    BY <2>2
  <2>3. ASSUME NEW c \in Conn, ReaderThread(c) \/ ProducerThread(c) \/ RefresherThread(c)
        PROVE  Stays
    BY <2>2, <2>3
    DEF ReaderThread, ReaderTurn, ReaderWake, ReaderApc, ProducerThread, ProducerTurn,
        ProducerWake, ProducerApc, RefresherThread, DropBufc, NewBufp, RefresherEnds, threads
  <2>4. ASSUME NEW k \in Conn, ConsumerThread(k) PROVE Stays
    <3>1. CASE ConsumerLook(k) \/ ConsumerAdd(k)
      <4>1. /\ UNCHANGED at /\ consumer[k] \in {"look", "add"}
            /\ \E x : consumer' = [consumer EXCEPT ![k] = x]
        BY <3>1 DEF ConsumerLook, ConsumerAdd
      <4> QED  BY <2>0, <4>1
    <3>2. CASE ConsumerFirst(k)
      <4>1. UNCHANGED consumer /\ at[k] = NoConn /\ \E x : at' = [at EXCEPT ![k] = x]
        BY <3>2 DEF ConsumerFirst
      <4> QED  BY <2>0, <4>1, ConstantsAssumption
    <3>3. CASE ConsumerWake(k) \/ ConsumerReadApc(k) \/ ConsumerWriteApc(k)
      <4>1. UNCHANGED at /\ consumer' = [consumer EXCEPT ![k] = "run"]
        BY <3>3 DEF ConsumerWake, ConsumerReadApc, ConsumerWriteApc, ConsumerGoesOn
      <4> QED  BY <2>0, <4>1
    <3> QED  BY <1>2, <2>4, <3>1, <3>2, <3>3 DEF ConsumerThread
  <2>5. ASSUME Environment \/ UNCHANGED vars PROVE Stays
    BY <2>2, <2>5
    DEF Environment, ClientSend, ClientClose, StubAnswer, DeviceGone, signalhandlerPool, vars, threads
  <2>6. Stays
    <3> HIDE DEF Stays
    <3> QED  BY <2>1, <2>3, <2>4, <2>5 DEF Next
  <2>7. \A c \in Conn : InAnswer(c)' => InAnswer(c)
    BY <1>2, AnswerKept
  <2> QED  BY <2>6, <2>7, ServedKept DEF ConsumerInv
<1> QED  BY <1>1, <1>2

LEMMA ConsumerInit == Init /\ NotTogether => ConsumerInv
<1> SUFFICES ASSUME Init, NotTogether PROVE ConsumerInv
  OBVIOUS
<1>1. OneJoins
  BY DEF Init, OneJoins, Joining
<1>2. OneConsumer
  BY DEF Init, OneConsumer, Consuming
<1>3. ASSUME NEW c \in Conn PROVE ~InAnswer(c)
  <2>1. in_reading[<<c, "dev">>] = 0 /\ bufs[<<c, "dev">>] = <<NewBuffer>>
    BY Keys DEF Init
  <2>2. bufp(c, "dev") = NewBuffer
    BY <2>1 DEF bufp, Last
  <2> QED  BY <2>1, <2>2 DEF InAnswer, NewBuffer
<1> QED  BY <1>1, <1>2, <1>3 DEF ConsumerInv, Served

\* If connections come one after the other: an answer that one connection has
\* begun to read from the stub is not finished by another.
THEOREM OneReadsAtATime == NotTogether /\ Spec => []OneReader
<1> DEFINE Inv == TypeInv /\ ConsumerInv
<1>1. Init /\ NotTogether => Inv
  BY TypeInvInit, ConsumerInit
<1>2. Inv /\ [Next]_vars => Inv'
  BY TypeInvStep, OneStep, ServedStep DEF ConsumerInv
<1>3. Inv => OneReader
  <2> SUFFICES ASSUME TypeInv, ConsumerInv, NEW c \in Conn, NEW d \in Conn, c # d, InAnswer(c)
               PROVE  in_reading[<<d, "dev">>] = 0 /\ bufp(d, "dev").step \in {0, 3}
    BY DEF OneReader, InAnswer
  <2>1. PICK k \in Conn : consumer[k] \in {"run", "wait"} /\ at[k] = c
    BY DEF ConsumerInv, Served
  <2>2. ~InAnswer(d)
    <3> SUFFICES ASSUME InAnswer(d) PROVE FALSE
      OBVIOUS
    <3>1. PICK l \in Conn : consumer[l] \in {"run", "wait"} /\ at[l] = d
      BY DEF ConsumerInv, Served
    <3>2. k = l
      BY <2>1, <3>1 DEF ConsumerInv, OneConsumer, Consuming
    <3> QED  BY <2>1, <3>1, <3>2
  <2>3. in_reading[<<d, "dev">>] \in Nat /\ bufp(d, "dev").step \in 0 .. 3
    <3>1. bufp(d, "dev") \in Buffer /\ in_reading[<<d, "dev">>] \in Nat
      BY Keys, Bufs
    <3> QED  BY <3>1 DEF Buffer
  <2> QED  BY <2>2, <2>3 DEF InAnswer
<1> QED  BY <1>1, <1>2, <1>3, PTL DEF Spec
-----------------------------------------------------------------------------
(* The answers of the stub.                                                 *)

\* read_dev has nothing of a command in a new buffer, and has told hdrs_cache of
\* every command whose header it has gone past.
HeaderKept(b, k) ==
  /\ b.step = 0 => b.data = <<>>
  /\ b.step \in {2, 3} => /\ Len(b.data) >= HdrLen
                          /\ <<b.data[1][1], b.data[1][2]>> \in k
HeadersKept ==
  \A c \in Conn : \A i \in 1 .. Len(bufs[<<c, "sock">>]) :
    HeaderKept(bufs[<<c, "sock">>][i], kept)

\* The entry of a command whose answer is still to come is its own.
Right ==
  \A x \in kept :
    KindOf(x[1], x[2]) # "unlink" /\ Unanswered(x) =>
      hdrs_cache[Entry(x[2])]
        = [seqnum |-> x[2], direction |-> DirectionOf(KindOf(x[1], x[2]))]

\* The answers to a client c that sends commands of the kinds ks.
AnsLen(ks, n) == HdrLen + PayloadLen(FALSE, ks[n]) + get_iso_len(ks[n])
Answer(c, ks, n) == [i \in 1 .. AnsLen(ks, n) |-> <<c, n, i>>]

\* The clients have sent m commands of the kinds k; x is a whole answer to one
\* of them.
Whole(k, m, x) == \E d \in Conn : \E n \in 1 .. m[d] : x = Answer(d, k[d], n)

\* The buffer b has the header of an answer, and the queue v of the stub begins
\* with the rest of it.
Half(k, m, b, v) ==
  /\ b.step \in {1, 2} /\ Len(b.data) = HdrLen
  /\ v # <<>> /\ Len(Head(v)) > 0 /\ Whole(k, m, b.data \o Head(v))

\* The buffers q of a stub, of which r units are being read from the queue v, and
\* bufc is being written to the socket if w.

\* Buffers hold one answer each, and only bufc is ever written.
AnswerEach(k, m, q) ==
  \A i \in 1 .. Len(q) :
    /\ i < Len(q) => q[i].step = 3
    /\ q[i].step = 3 => Whole(k, m, q[i].data)
    /\ q[i].off # 0 => i = 1 /\ q[i].step = 3 /\ q[i].off = Len(q[i].data)

\* bufp is empty, or it has a header whose answer goes on in the queue, or all
\* of an answer.
Begins(k, m, b, v) ==
  b.step # 3 /\ b.data # <<>> =>
    b.step \in {1, 2} /\ (Whole(k, m, b.data) \/ Half(k, m, b, v))

\* A read asks for a header, or for the rest of the answer.
AsksOne(k, m, b, r, v) ==
  r > 0 => \/ b.step \in {1, 2} /\ b.data = <<>> /\ r = HdrLen
           \/ Half(k, m, b, v) /\ r = Len(Head(v))

Dev(k, m, q, r, w, v) ==
  /\ AnswerEach(k, m, q)
  /\ Begins(k, m, Last(q), v)
  /\ AsksOne(k, m, Last(q), r, v)
  /\ w => Unwritten(Head(q))

DevInv(c) ==
  Dev(scenario.kinds, sent, bufs[<<c, "dev">>], in_reading[<<c, "dev">>],
      in_writing[<<c, "sock">>], devq)

\* The queue of the stub holds whole answers, but for the rest of one that a
\* connection has begun to read.
Queued ==
  \A i \in 1 .. Len(devq) :
    \/ Whole(scenario.kinds, sent, devq[i])
    \/ i = 1 /\ \E c \in Conn : Half(scenario.kinds, sent, bufp(c, "dev"), devq)

OutWhole ==
  \A c \in Conn : \A i \in 1 .. Len(answered[c]) :
    Whole(scenario.kinds, sent, answered[c][i])

TodoSent == \A x \in todo : x[2] \in 1 .. sent[x[1]]

\* The places where the answer to command n of d may be: at work in the stub, in
\* its queue, in a buffer that is not written yet, or written to a socket.
Place == {"todo", "queue", "buffer", "out"} \X (Conn \cup {NoConn}) \X Nat
AtWork(p, x) == p = <<"todo", NoConn, 0>> /\ x \in todo
InQueue(p, x) ==
  /\ p[1] = "queue" /\ p[2] = NoConn /\ p[3] \in 1 .. Len(devq)
  /\ devq[p[3]][1] = <<x[1], x[2], 1>>
InBuffer(p, x) ==
  /\ p[1] = "buffer" /\ p[2] \in Conn /\ p[3] \in 1 .. Len(bufs[<<p[2], "dev">>])
  /\ LET b == bufs[<<p[2], "dev">>][p[3]]
     IN b.data # <<>> /\ b.off = 0 /\ b.data[1] = <<x[1], x[2], 1>>
InSocket(p, x) ==
  /\ p[1] = "out" /\ p[2] \in Conn /\ p[3] \in 1 .. Len(answered[p[2]])
  /\ answered[p[2]][p[3]][1] = <<x[1], x[2], 1>>
Holds(p, x) == AtWork(p, x) \/ InQueue(p, x) \/ InBuffer(p, x) \/ InSocket(p, x)

\* An answer is in one place only ...
OnePlace ==
  \A x \in Conn \X Numbers : \A p, r \in Place : Holds(p, x) /\ Holds(r, x) => p = r

\* ... and nowhere before hdrs_cache knows its command and it is written to the stub.
Begun(d) == Len(forwarded[d]) + (IF in_writing[<<d, "dev">>] THEN 1 ELSE 0)
NotBefore ==
  \A x \in Conn \X Numbers : \A p \in Place :
    Holds(p, x) => x \in kept /\ (~gone => x[2] <= Begun(x[1]))

AnswerState ==
  /\ Queued /\ OutWhole /\ TodoSent /\ OnePlace /\ NotBefore
  /\ \A c \in Conn : DevInv(c)

AnswerInv == HeadersKept /\ (clash \/ (Right /\ AnswerState))

LEMMA Answers ==
  ASSUME NEW c \in Conn, NEW ks, NEW n \in Numbers
  PROVE  /\ Answer(c, ks, n) \in Seq(Unit)
         /\ Len(Answer(c, ks, n)) = AnsLen(ks, n)
         /\ AnsLen(ks, n) \in HdrLen .. HdrLen + 2
         /\ \A i \in 1 .. AnsLen(ks, n) : Answer(c, ks, n)[i] = <<c, n, i>>
<1> DEFINE L == AnsLen(ks, n)
<1>1. HdrLen \in Nat
  BY ConstantsAssumption
<1>2. L \in HdrLen .. HdrLen + 2
  <2> DEFINE x == PayloadLen(FALSE, ks[n])
             y == get_iso_len(ks[n])
  <2>1. x \in {0, 1} /\ y \in {0, 1}
    BY Zenon DEF PayloadLen, get_iso_len
  <2>2. L = HdrLen + x + y
    BY DEF AnsLen
  <2> HIDE DEF x, y, L
  <2> QED  BY <1>1, <2>1, <2>2
<1>3. Answer(c, ks, n) = [i \in 1 .. L |-> <<c, n, i>>]
  BY DEF Answer
<1> HIDE DEF L
<1>4. L \in Nat /\ \A i \in 1 .. L : i \in 1 .. HdrLen + 2
  BY <1>1, <1>2
<1>5. \A i \in 1 .. L : <<c, n, i>> \in Unit
  BY <1>4 DEF Unit
<1>6. [i \in 1 .. L |-> <<c, n, i>>] \in Seq(Unit)
  BY <1>4, <1>5
<1>7. Len([i \in 1 .. L |-> <<c, n, i>>]) = L
  BY <1>4
<1>8. \A i \in 1 .. L : [j \in 1 .. L |-> <<c, n, j>>][i] = <<c, n, i>>
  OBVIOUS
<1> QED  BY <1>2, <1>3, <1>6, <1>7, <1>8 DEF L

\* x is the answer to command n of d, which has been sent.
AnswerTo(k, m, x, d, n) ==
  /\ n <= m[d] /\ x = Answer(d, k[d], n) /\ Len(x) = AnsLen(k[d], n)
  /\ \A i \in 1 .. Len(x) : x[i] = <<d, n, i>>

\* A whole answer is the units of one command that has been sent ...
LEMMA WholeNames ==
  ASSUME NEW k, NEW m \in [Conn -> Numbers \cup {0}], NEW x, Whole(k, m, x)
  PROVE  \E d \in Conn : \E n \in Numbers : AnswerTo(k, m, x, d, n)
<1>1. PICK d \in Conn : \E n \in 1 .. m[d] : x = Answer(d, k[d], n)
  BY DEF Whole
<1>2. PICK n \in 1 .. m[d] : x = Answer(d, k[d], n)
  BY <1>1
<1>3. n \in Numbers /\ n <= m[d]
  <2>1. m[d] \in Numbers \cup {0}
    OBVIOUS
  <2> QED  BY <2>1, ConstantsAssumption DEF Numbers
<1>4. Len(x) = AnsLen(k[d], n) /\ \A i \in 1 .. AnsLen(k[d], n) : x[i] = <<d, n, i>>
  BY <1>2, <1>3, Answers
<1>5. AnswerTo(k, m, x, d, n)
  BY <1>2, <1>3, <1>4 DEF AnswerTo
<1> QED  BY <1>3, <1>5

\* ... and not shorter than a header.
LEMMA WholeAnswer ==
  ASSUME NEW k, NEW m \in [Conn -> Numbers \cup {0}], NEW x, Whole(k, m, x)
  PROVE  /\ x \in Seq(Unit) /\ x # <<>> /\ Len(x) \in Nat
         /\ HdrLen <= Len(x) /\ 0 < Len(x) /\ Len(x) <= HdrLen + 2
<1>1. PICK d \in Conn, n \in Numbers : AnswerTo(k, m, x, d, n)
  BY WholeNames
<1>2. x \in Seq(Unit) /\ Len(x) \in HdrLen .. HdrLen + 2
  BY <1>1, Answers DEF AnswerTo
<1> QED  BY <1>2, ConstantsAssumption

LEMMA Joined ==
  ASSUME NEW s \in Seq(Unit), NEW t \in Seq(Unit)
  PROVE  /\ s \o t \in Seq(Unit) /\ Len(s \o t) = Len(s) + Len(t)
         /\ Len(s) \in Nat /\ Len(t) \in Nat
         /\ \A i \in 1 .. Len(s) + Len(t) :
              (s \o t)[i] = IF i <= Len(s) THEN s[i] ELSE t[i - Len(s)]
<1>1. s \o t \in Seq(Unit) /\ Len(s \o t) = Len(s) + Len(t) /\ Len(s) \in Nat /\ Len(t) \in Nat
  OBVIOUS
<1>2. \A i \in 1 .. Len(s) + Len(t) :
        (s \o t)[i] = IF i <= Len(s) THEN s[i] ELSE t[i - Len(s)]
  BY ConcatProperties
<1> QED  BY <1>1, <1>2

\* b and h are the two parts of the answer to command n of d.
RestOf(k, m, b, h, d, n) ==
  /\ n <= m[d] /\ HdrLen + Len(h) = AnsLen(k[d], n)
  /\ b.data[1] = <<d, n, 1>> /\ h[1] = <<d, n, HdrLen + 1>>

LEMMA HalfAnswer ==
  ASSUME NEW k, NEW m \in [Conn -> Numbers \cup {0}], NEW b \in Buffer,
         NEW v \in Seq(Seq(Unit)), Half(k, m, b, v)
  PROVE  /\ b.step \in {1, 2} /\ b.data \in Seq(Unit) /\ Len(b.data) = HdrLen
         /\ v # <<>> /\ Head(v) = v[1] /\ Head(v) \in Seq(Unit) /\ Len(Head(v)) \in Nat \ {0}
         /\ Whole(k, m, b.data \o Head(v))
         /\ (b.data \o Head(v))[1] = b.data[1]
         /\ \E d \in Conn : \E n \in Numbers : RestOf(k, m, b, Head(v), d, n)
<1> DEFINE h == Head(v)
           all == b.data \o h
<1>1. b.data \in Seq(Unit) /\ HdrLen \in Nat \ {0}
  BY ConstantsAssumption DEF Buffer
<1>2. /\ v # <<>> /\ h = v[1] /\ h \in Seq(Unit)
      /\ b.step \in {1, 2} /\ Len(b.data) = HdrLen /\ Len(h) > 0 /\ Whole(k, m, all)
  BY DEF Half
<1> HIDE DEF h, all
<1>3. Len(h) \in Nat \ {0}
  BY <1>2
<1>4. /\ Len(all) = HdrLen + Len(h)
      /\ all[1] = b.data[1] /\ all[HdrLen + 1] = h[1]
  <2>1. PICK s : s = b.data
    OBVIOUS
  <2>2. s \in Seq(Unit) /\ all = s \o h /\ Len(s) = HdrLen
    BY <1>1, <1>2, <2>1 DEF all
  <2>3. /\ Len(all) = HdrLen + Len(h)
        /\ \A i \in 1 .. HdrLen + Len(h) : all[i] = IF i <= HdrLen THEN s[i] ELSE h[i - HdrLen]
    BY <1>2, <2>2, Joined
  <2>4. /\ 1 \in 1 .. HdrLen + Len(h) /\ 1 <= HdrLen
        /\ HdrLen + 1 \in 1 .. HdrLen + Len(h) /\ ~(HdrLen + 1 <= HdrLen)
        /\ HdrLen + 1 - HdrLen = 1
    BY <1>1, <1>3
  <2>5. all[1] = s[1]
    BY <2>3, <2>4
  <2>6. all[HdrLen + 1] = h[1]
    <3>1. PICK j : j = HdrLen + 1
      OBVIOUS
    <3>2. j \in 1 .. HdrLen + Len(h) /\ ~(j <= HdrLen) /\ j - HdrLen = 1
      BY <1>1, <1>3, <3>1
    <3>3. all[j] = h[j - HdrLen]
      BY <2>3, <3>2
    <3> QED  BY <3>1, <3>2, <3>3
  <2> QED  BY <2>1, <2>3, <2>4, <2>5, <2>6
<1>5. PICK d \in Conn, n \in Numbers : AnswerTo(k, m, all, d, n)
  BY <1>2, WholeNames
<1>6. 1 \in 1 .. Len(all) /\ HdrLen + 1 \in 1 .. Len(all)
  BY <1>1, <1>3, <1>4
<1>7. all[1] = <<d, n, 1>> /\ all[HdrLen + 1] = <<d, n, HdrLen + 1>>
  BY <1>5, <1>6 DEF AnswerTo
<1>8. RestOf(k, m, b, h, d, n)
  BY <1>4, <1>5, <1>7 DEF AnswerTo, RestOf
<1> QED  BY <1>1, <1>2, <1>3, <1>4, <1>8 DEF h, all

\* Clients only ever send more.
LEMMA WholeStays ==
  ASSUME NEW k, NEW m \in [Conn -> Numbers \cup {0}], NEW l \in [Conn -> Numbers \cup {0}],
         \A d \in Conn : m[d] <= l[d], NEW x, Whole(k, m, x)
  PROVE  Whole(k, l, x)
<1>1. PICK d \in Conn : \E n \in 1 .. m[d] : x = Answer(d, k[d], n)
  BY DEF Whole
<1>2. 1 .. m[d] \subseteq 1 .. l[d]
  BY DEF Numbers
<1> QED  BY <1>1, <1>2 DEF Whole

LEMMA DevStays ==
  ASSUME NEW k, NEW m \in [Conn -> Numbers \cup {0}], NEW l \in [Conn -> Numbers \cup {0}],
         \A d \in Conn : m[d] <= l[d],
         NEW q, NEW r, NEW w, NEW v, Dev(k, m, q, r, w, v)
  PROVE  Dev(k, l, q, r, w, v)
<1>1. \A x : Whole(k, m, x) => Whole(k, l, x)
  BY WholeStays
<1>2. \A b : Half(k, m, b, v) => Half(k, l, b, v)
  BY <1>1 DEF Half
<1>3. AnswerEach(k, l, q)
  BY <1>1 DEF Dev, AnswerEach
<1>4. Begins(k, l, Last(q), v)
  BY <1>1, <1>2 DEF Dev, Begins
<1>5. AsksOne(k, l, Last(q), r, v)
  BY <1>2 DEF Dev, AsksOne
<1> QED  BY <1>3, <1>4, <1>5 DEF Dev
-----------------------------------------------------------------------------
(* What the threads do to the buffers of a stub.                            *)

\* read_dev has marked the bufp l, which is to have e units, as b, and t units
\* are being read now.
Marked(l, b, e, r, t) ==
  /\ b.data = l.data /\ b.off = l.off
  /\ b.step = (IF Len(l.data) < HdrLen THEN 1
               ELSE IF l.step = 3 THEN 3
               ELSE IF Len(l.data) < e THEN 2 ELSE 3)
  /\ t = r \/ (b.step # 3 /\ t = e - Len(l.data))

\* What bufp, the queue and the read in progress are like.
AtBufp(k, m, b, r, v) ==
  /\ b.step = 3 => Whole(k, m, b.data)
  /\ Begins(k, m, b, v)
  /\ AsksOne(k, m, b, r, v)

LEMMA BufpTurn ==
  ASSUME NEW k, NEW m \in [Conn -> Numbers \cup {0}], NEW l \in Buffer, Sound(l),
         NEW r \in Nat, NEW v \in Seq(Seq(Unit)), AtBufp(k, m, l, r, v),
         NEW b \in Buffer, NEW e, NEW t, Marked(l, b, e, r, t),
         l.data = <<>> => e = HdrLen,
         l.step # 3 /\ Whole(k, m, l.data) => e = Len(l.data),
         Half(k, m, l, v) => e = HdrLen + Len(Head(v))
  PROVE  /\ AtBufp(k, m, b, t, v)
         /\ l.step = 3 => b.step = 3
         /\ Half(k, m, l, v) => Half(k, m, b, v)
<1> DEFINE d == l.data
           h == Half(k, m, l, v)
           New == /\ AtBufp(k, m, b, t, v)
                  /\ l.step = 3 => b.step = 3
                  /\ h => Half(k, m, b, v)
<1>1. HdrLen \in Nat \ {0} /\ Len(d) \in Nat /\ Len(<<>>) = 0 /\ b.data = d
  BY ConstantsAssumption DEF Buffer, Marked
<1>2. l.step = 3 => Len(d) >= HdrLen /\ Whole(k, m, d)
  BY <1>1 DEF Sound, AtBufp
<1>3. r > 0 => \/ l.step \in {1, 2} /\ d = <<>> /\ r = HdrLen
               \/ h /\ r = Len(Head(v))
  BY DEF AtBufp, AsksOne
<1>4. h => /\ l.step \in {1, 2} /\ Len(d) = HdrLen
           /\ Len(Head(v)) \in Nat \ {0} /\ e = HdrLen + Len(Head(v))
  <2> SUFFICES ASSUME h
               PROVE  /\ l.step \in {1, 2} /\ Len(d) = HdrLen
                      /\ Len(Head(v)) \in Nat \ {0}
    OBVIOUS
  <2>1. Len(Head(v)) \in Nat \ {0}
    BY HalfAnswer
  <2> QED  BY <2>1 DEF Half
<1>5. l.step # 3 /\ d # <<>> => l.step \in {1, 2} /\ (Whole(k, m, d) \/ h)
  BY DEF AtBufp, Begins
<1>6. Whole(k, m, d) => HdrLen <= Len(d)
  BY WholeAnswer
<1>7. /\ b.step = (IF Len(d) < HdrLen THEN 1
                   ELSE IF l.step = 3 THEN 3
                   ELSE IF Len(d) < e THEN 2 ELSE 3)
      /\ t = r \/ (b.step # 3 /\ t = e - Len(d))
      /\ (d = <<>> => e = HdrLen) /\ (l.step # 3 /\ Whole(k, m, d) => e = Len(d))
  BY DEF Marked
<1>8. h /\ b.step = 2 => Half(k, m, b, v)
  BY <1>1 DEF Half
<1> HIDE DEF d, h, New
<1>9. ASSUME b.step = 3, t = 0, Whole(k, m, d), ~h PROVE New
  <2>1. AtBufp(k, m, b, t, v)
    BY <1>1, <1>9 DEF AtBufp, Begins, AsksOne
  <2> QED  BY <1>9, <2>1 DEF New
<1>10. ASSUME l.step = 3 PROVE New
  <2>1. b.step = 3
    BY <1>1, <1>2, <1>7, <1>10
  <2>2. ~h /\ r = 0
    BY <1>3, <1>4, <1>10
  <2> QED  BY <1>2, <1>7, <1>9, <1>10, <2>1, <2>2
<1>11. ASSUME l.step # 3, d = <<>> PROVE New
  <2>1. ~h
    BY <1>1, <1>4, <1>11
  <2>2. b.step = 1 /\ (t = r \/ t = HdrLen)
    BY <1>1, <1>7, <1>11
  <2>3. AsksOne(k, m, b, t, v)
    BY <1>1, <1>3, <1>11, <2>1, <2>2 DEF AsksOne
  <2>4. AtBufp(k, m, b, t, v)
    BY <1>1, <1>11, <2>2, <2>3 DEF AtBufp, Begins
  <2> QED  BY <1>11, <2>1, <2>4 DEF New
<1>12. ASSUME h PROVE New
  <2>1. b.step = 2
    <3>1. Len(d) < e /\ ~(Len(d) < HdrLen) /\ l.step # 3
      BY <1>1, <1>4, <1>12
    <3> QED  BY <1>7, <3>1
  <2>2. Half(k, m, b, v)
    BY <1>8, <1>12, <2>1
  <2>3. d # <<>> /\ (t = r \/ t = Len(Head(v)))
    BY <1>1, <1>4, <1>7, <1>12
  <2>4. AsksOne(k, m, b, t, v)
    BY <1>3, <2>2, <2>3 DEF AsksOne
  <2>5. AtBufp(k, m, b, t, v)
    BY <2>1, <2>2, <2>4 DEF AtBufp, Begins
  <2>6. l.step # 3
    BY <1>4, <1>12
  <2> QED  BY <2>2, <2>5, <2>6 DEF New
<1>13. ASSUME l.step # 3, d # <<>>, ~h PROVE New
  <2>1. Whole(k, m, d)
    BY <1>5, <1>13
  <2>2. b.step = 3
    BY <1>1, <1>6, <1>7, <1>13, <2>1
  <2>3. r = 0
    BY <1>3, <1>13
  <2> QED  BY <1>7, <1>9, <1>13, <2>1, <2>2, <2>3
<1>14. New
  BY <1>10, <1>11, <1>12, <1>13
<1> QED  BY <1>14 DEF New, h

\* The parts of Dev.
LEMMA DevParts ==
  ASSUME NEW k, NEW m, NEW q, NEW r \in Nat, NEW w, NEW v,
         Shaped(q, r), Dev(k, m, q, r, w, v)
  PROVE  /\ Len(q) \in Nat \ {0} /\ q \in Seq(Buffer) /\ q # <<>>
         /\ Last(q) \in Buffer /\ Sound(Last(q)) /\ Last(q) = q[Len(q)] /\ Head(q) = q[1]
         /\ AtBufp(k, m, Last(q), r, v)
         /\ AnswerEach(k, m, q)
         /\ w => Unwritten(Head(q))
<1>1. /\ Len(q) \in Nat \ {0} /\ Last(q) \in Buffer /\ Sound(Last(q)) /\ Last(q) = q[Len(q)]
      /\ Head(q) = q[1]
  BY Ends
<1>2. q \in Seq(Buffer) /\ q # <<>>
  BY DEF Shaped
<1>3. Len(q) \in 1 .. Len(q)
  BY <1>1
<1>4. AtBufp(k, m, Last(q), r, v)
  BY <1>1, <1>3 DEF Dev, AnswerEach, AtBufp
<1> QED  BY <1>1, <1>2, <1>4 DEF Dev

\* bufp is replaced.
LEMMA DevReplaced ==
  ASSUME NEW k, NEW m, NEW q, NEW r \in Nat, NEW w, NEW v,
         Shaped(q, r), Dev(k, m, q, r, w, v),
         NEW b \in Buffer, b.off = Last(q).off,
         Last(q).step = 3 => b.step = 3 /\ b.data = Last(q).data,
         NEW t, NEW u, AtBufp(k, m, b, t, u)
  PROVE  Dev(k, m, [q EXCEPT ![Len(q)] = b], t, w, u)
<1>0. PICK p : p = [q EXCEPT ![Len(q)] = b]
  OBVIOUS
<1>1. /\ Len(q) \in Nat \ {0} /\ q \in Seq(Buffer) /\ q # <<>>
      /\ Last(q) = q[Len(q)] /\ Head(q) = q[1]
      /\ AnswerEach(k, m, q)
      /\ w => Unwritten(Head(q))
  BY DevParts
<1>2. HasBufp(p, q, b)
  BY <1>0, <1>1, BufpReplaced
<1>3. ASSUME NEW i \in 1 .. Len(q)
      PROVE  /\ i < Len(q) => p[i].step = 3
             /\ p[i].step = 3 => Whole(k, m, p[i].data)
             /\ p[i].off # 0 => i = 1 /\ p[i].step = 3 /\ p[i].off = Len(p[i].data)
  <2>1. /\ i < Len(q) => q[i].step = 3
        /\ q[i].step = 3 => Whole(k, m, q[i].data)
        /\ q[i].off # 0 => i = 1 /\ q[i].step = 3 /\ q[i].off = Len(q[i].data)
    BY <1>1 DEF AnswerEach
  <2>2. CASE i # Len(q)
    BY <1>2, <2>1, <2>2 DEF HasBufp
  <2>3. CASE i = Len(q)
    <3>1. p[i] = b /\ q[i] = Last(q) /\ ~(i < Len(q))
      BY <1>1, <1>2, <2>3 DEF HasBufp
    <3>2. b.step = 3 => Whole(k, m, b.data)
      BY DEF AtBufp
    <3> QED  BY <2>1, <3>1, <3>2
  <2> QED  BY <2>2, <2>3
<1>4. AnswerEach(k, m, p)
  BY <1>2, <1>3 DEF AnswerEach, HasBufp
<1>5. w => Unwritten(Head(p))
  <2>1. Len(q) = 1 => Head(q) = Last(q) /\ Head(p) = b
    BY <1>1, <1>2 DEF HasBufp
  <2>2. Len(q) # 1 => Head(p) = Head(q)
    BY <1>2 DEF HasBufp
  <2>3. Unwritten(Last(q)) => Unwritten(b)
    BY DEF Unwritten
  <2> QED  BY <1>1, <2>1, <2>2, <2>3
<1>6. Dev(k, m, p, t, w, u)
  <2>1. Last(p) = b
    BY <1>2 DEF HasBufp
  <2> QED  BY <1>4, <1>5, <2>1 DEF Dev, AtBufp
<1> QED  BY <1>0, <1>6

\* Nothing is being read: the queue does not matter.
LEMMA DevApart ==
  ASSUME NEW k, NEW m, NEW q, NEW r, NEW w, NEW v, Dev(k, m, q, r, w, v),
         ~(r > 0), Last(q).step \notin {1, 2}, NEW u
  PROVE  Dev(k, m, q, r, w, u)
<1>1. Begins(k, m, Last(q), u)
  BY DEF Dev, Begins
<1>2. AsksOne(k, m, Last(q), r, u)
  BY DEF AsksOne
<1> QED  BY <1>1, <1>2 DEF Dev

\* The stub has another answer.
LEMMA DevQueue ==
  ASSUME NEW k, NEW m, NEW v \in Seq(Seq(Unit)), NEW y \in Seq(Unit)
  PROVE  /\ \A b : Half(k, m, b, v) => Half(k, m, b, Append(v, y))
         /\ \A q, r, w : Dev(k, m, q, r, w, v) => Dev(k, m, q, r, w, Append(v, y))
<1>1. PICK u : u = Append(v, y)
  OBVIOUS
<1>2. v # <<>> => u # <<>> /\ Head(u) = Head(v)
  <2>1. SUFFICES ASSUME v # <<>> PROVE u # <<>> /\ Head(u) = Head(v)
    OBVIOUS
  <2>2. Len(v) \in Nat \ {0} /\ Len(u) = Len(v) + 1 /\ u[1] = v[1] /\ u # <<>>
    BY <1>1, <2>1, EmptySeq, AppendProperties
  <2>3. Head(u) = u[1] /\ Head(v) = v[1]
    BY <2>1, <2>2
  <2> QED  BY <2>2, <2>3
<1>3. ASSUME NEW b, Half(k, m, b, v) PROVE Half(k, m, b, u) /\ Head(u) = Head(v)
  BY <1>2, <1>3 DEF Half
<1>4. ASSUME NEW q, NEW r, NEW w, Dev(k, m, q, r, w, v) PROVE Dev(k, m, q, r, w, u)
  <2>1. Begins(k, m, Last(q), u)
    BY <1>3, <1>4 DEF Dev, Begins
  <2>2. AsksOne(k, m, Last(q), r, u)
    BY <1>3, <1>4 DEF Dev, AsksOne
  <2> QED  BY <1>4, <2>1, <2>2 DEF Dev
<1> QED  BY <1>1, <1>3, <1>4

\* The refresher drops a bufc that is written.
LEMMA DevDrop ==
  ASSUME NEW k, NEW m, NEW q, NEW r \in Nat, NEW w, NEW v,
         Shaped(q, r), Dev(k, m, q, r, w, v),
         Len(q) > 1, Head(q).off = Len(Head(q).data)
  PROVE  Dev(k, m, Tail(q), r, w, v)
<1>0. PICK p : p = Tail(q)
  OBVIOUS
<1>1. /\ Len(q) \in Nat \ {0} /\ q \in Seq(Buffer) /\ AnswerEach(k, m, q)
      /\ w => Unwritten(Head(q))
  BY DevParts
<1>2. /\ Len(p) = Len(q) - 1 /\ Last(p) = Last(q)
      /\ \A i \in 1 .. Len(p) : p[i] = q[i + 1]
  <2>1. Len(p) = Len(q) - 1 /\ Last(p) = Last(q)
    BY <1>0, <1>1, Shorter
  <2>2. \A i \in 1 .. Len(p) : p[i] = q[i + 1]
    BY <1>0, <1>1, Shorter
  <2> QED  BY <2>1, <2>2
<1>3. ~w
  <2>1. Head(q) \in Buffer
    BY <1>1, Ends
  <2>2. ~Unwritten(Head(q))
    BY <2>1 DEF Unwritten, Buffer
  <2> QED  BY <1>1, <2>2
<1>4. ASSUME NEW i \in 1 .. Len(p)
      PROVE  /\ i < Len(p) => p[i].step = 3
             /\ p[i].step = 3 => Whole(k, m, p[i].data)
             /\ p[i].off # 0 => i = 1 /\ p[i].step = 3 /\ p[i].off = Len(p[i].data)
  <2>1. i + 1 \in 1 .. Len(q) /\ i + 1 # 1 /\ (i < Len(p) => i + 1 < Len(q)) /\ p[i] = q[i + 1]
    BY <1>1, <1>2
  <2>2. \A j \in 1 .. Len(q) :
          /\ j < Len(q) => q[j].step = 3
          /\ q[j].step = 3 => Whole(k, m, q[j].data)
          /\ q[j].off # 0 => j = 1
    BY <1>1 DEF AnswerEach
  <2>3. PICK j : j = i + 1
    OBVIOUS
  <2>4. j \in 1 .. Len(q) /\ j # 1 /\ (i < Len(p) => j < Len(q)) /\ p[i] = q[j]
    BY <2>1, <2>3
  <2> QED  BY <2>2, <2>4
<1>5. AnswerEach(k, m, p)
  BY <1>4 DEF AnswerEach
<1>6. Dev(k, m, p, r, w, v)
  BY <1>2, <1>3, <1>5 DEF Dev
<1> QED  BY <1>0, <1>6

\* The refresher appends a bufp behind one that is whole.
LEMMA DevNew ==
  ASSUME NEW k, NEW m, NEW q, NEW r \in Nat, NEW w, NEW v,
         Shaped(q, r), Dev(k, m, q, r, w, v), Last(q).step = 3
  PROVE  Dev(k, m, Append(q, NewBuffer), r, w, v)
<1>0. PICK p : p = Append(q, NewBuffer)
  OBVIOUS
<1>1. /\ Len(q) \in Nat \ {0} /\ q \in Seq(Buffer) /\ q # <<>> /\ AnswerEach(k, m, q)
      /\ Last(q) = q[Len(q)] /\ (w => Unwritten(Head(q)))
  BY DevParts
<1>2. /\ Len(p) = Len(q) + 1
      /\ \A i \in 1 .. Len(p) : p[i] = IF i = Len(p) THEN NewBuffer ELSE q[i]
      /\ Last(p) = NewBuffer /\ Head(p) = Head(q)
  <2>0. NewBuffer \in Buffer
    BY NewIsSound
  <2>1. Len(p) = Len(q) + 1
    BY <1>0, <1>1, <2>0, Longer
  <2>2. \A i \in 1 .. Len(p) : p[i] = IF i = Len(p) THEN NewBuffer ELSE q[i]
    BY <1>0, <1>1, <2>0, Longer
  <2>3. Last(p) = NewBuffer
    BY ZenonT(60), <1>0, <1>1, <2>0, Longer
  <2>4. Head(p) = Head(q)
    BY <1>0, <1>1, <2>0, Longer
  <2> QED  BY <2>1, <2>2, <2>3, <2>4
<1>3. NewBuffer.data = <<>> /\ NewBuffer.off = 0 /\ NewBuffer.step = 0
  BY DEF NewBuffer
<1>4. ASSUME NEW i \in 1 .. Len(p)
      PROVE  /\ i < Len(p) => p[i].step = 3
             /\ p[i].step = 3 => Whole(k, m, p[i].data)
             /\ p[i].off # 0 => i = 1 /\ p[i].step = 3 /\ p[i].off = Len(p[i].data)
  <2>1. CASE i = Len(p)
    BY <1>2, <1>3, <2>1
  <2>2. CASE i # Len(p)
    <3>1. i \in 1 .. Len(q) /\ p[i] = q[i]
      BY <1>1, <1>2, <2>2
    <3>2. \A j \in 1 .. Len(q) : q[j].step = 3
      BY <1>1 DEF AnswerEach
    <3>3. /\ q[i].step = 3 => Whole(k, m, q[i].data)
          /\ q[i].off # 0 => i = 1 /\ q[i].step = 3 /\ q[i].off = Len(q[i].data)
      BY <1>1, <3>1 DEF AnswerEach
    <3> QED  BY <3>1, <3>2, <3>3
  <2> QED  BY <2>1, <2>2
<1>5. AnswerEach(k, m, p)
  BY <1>4 DEF AnswerEach
<1>6. Begins(k, m, Last(p), v)
  BY <1>2, <1>3 DEF Begins
<1>7. AsksOne(k, m, Last(p), r, v)
  <2>1. ~(r > 0)
    BY DEF Dev, AsksOne, Half
  <2> QED  BY <2>1 DEF AsksOne
<1>8. Dev(k, m, p, r, w, v)
  BY <1>1, <1>2, <1>5, <1>6, <1>7 DEF Dev
<1> QED  BY <1>0, <1>8

\* bufc is written.
LEMMA DevWritten ==
  ASSUME NEW k, NEW m, NEW q, NEW r \in Nat, NEW v,
         Shaped(q, r), Dev(k, m, q, r, TRUE, v)
  PROVE  Dev(k, m, [q EXCEPT ![1].off = Len(q[1].data)], r, FALSE, v)
<1> DEFINE b == [q[1] EXCEPT !.off = Len(q[1].data)]
<1>0. PICK p : p = [q EXCEPT ![1] = b]
  OBVIOUS
<1>1. /\ Len(q) \in Nat \ {0} /\ q \in Seq(Buffer) /\ q # <<>> /\ AnswerEach(k, m, q)
      /\ Last(q) = q[Len(q)] /\ Head(q) = q[1] /\ Unwritten(Head(q))
      /\ AtBufp(k, m, Last(q), r, v)
  BY DevParts
<1>2. q[1] \in Buffer /\ Sound(q[1]) /\ Len(q[1].data) \in 0 .. HdrLen + 2
  <2>1. q[1] \in Buffer /\ Sound(q[1])
    BY <1>1, Ends
  <2> QED  BY <2>1, ConstantsAssumption DEF Buffer, Sound
<1>3. b \in Buffer /\ b.step = 3 /\ q[1].step = 3 /\ b.data = q[1].data /\ b.off = Len(b.data)
  BY <1>1, <1>2 DEF Unwritten, Buffer
<1> HIDE DEF b
<1>4. /\ Len(p) = Len(q)
      /\ \A i \in 1 .. Len(q) : p[i] = IF i = 1 THEN b ELSE q[i]
      /\ Last(p) = IF Len(q) = 1 THEN b ELSE Last(q)
  <2>1. Len(p) = Len(q)
    BY <1>0, <1>1, <1>3, FirstReplaced
  <2>2. \A i \in 1 .. Len(q) : p[i] = IF i = 1 THEN b ELSE q[i]
    BY <1>0, <1>1, <1>3, FirstReplaced
  <2>3. Last(p) = p[Len(q)] /\ Len(q) \in 1 .. Len(q)
    BY <1>1, <2>1 DEF Last
  <2> QED  BY <1>1, <2>1, <2>2, <2>3
<1>5. ASSUME NEW i \in 1 .. Len(q)
      PROVE  /\ i < Len(p) => p[i].step = 3
             /\ p[i].step = 3 => Whole(k, m, p[i].data)
             /\ p[i].off # 0 => i = 1 /\ p[i].step = 3 /\ p[i].off = Len(p[i].data)
  <2>1. /\ i < Len(q) => q[i].step = 3
        /\ q[i].step = 3 => Whole(k, m, q[i].data)
        /\ q[i].off # 0 => i = 1 /\ q[i].step = 3 /\ q[i].off = Len(q[i].data)
    BY <1>1 DEF AnswerEach
  <2>2. CASE i = 1
    BY <1>3, <1>4, <2>1, <2>2
  <2>3. CASE i # 1
    BY <1>4, <2>1, <2>3
  <2> QED  BY <2>2, <2>3
<1>6. AnswerEach(k, m, p)
  BY <1>4, <1>5 DEF AnswerEach
<1>7. Begins(k, m, Last(p), v) /\ AsksOne(k, m, Last(p), r, v)
  <2>1. CASE Len(q) = 1
    <3>1. ~(r > 0)
      BY <1>1, <1>3, <2>1 DEF AtBufp, AsksOne, Half
    <3> QED  BY <1>3, <1>4, <2>1, <3>1 DEF Begins, AsksOne
  <2>2. CASE Len(q) # 1
    BY <1>1, <1>4, <2>2 DEF AtBufp
  <2> QED  BY <2>1, <2>2
<1>8. Dev(k, m, p, r, FALSE, v)
  BY <1>6, <1>7 DEF Dev
<1>9. p = [q EXCEPT ![1].off = Len(q[1].data)]
  BY <1>0 DEF b
<1> QED  BY <1>8, <1>9
-----------------------------------------------------------------------------
(* What read_dev makes of the answers.                                      *)

\* What the types say about the answers.
LEMMA AnswerTypes ==
  ASSUME TypeInv
  PROVE  /\ scenario \in Scenarios /\ scenario.kinds \in [Conn -> Seq(Kind)]
         /\ sent \in [Conn -> Numbers \cup {0}]
         /\ \A c \in Conn : /\ sent[c] \in Nat /\ sent[c] <= Len(scenario.kinds[c])
                            /\ Len(scenario.kinds[c]) \in Nat
         /\ hdrs_cache \in Table /\ kept \subseteq Conn \X Numbers
         /\ devq \in Seq(Seq(Unit)) /\ todo \subseteq Conn \X Numbers
         /\ answered \in [Conn -> Seq(Seq(Unit))]
         /\ forwarded \in [Conn -> Seq(Seq(Unit))]
         /\ in_writing \in [Conn \X Side -> BOOLEAN]
         /\ in_reading \in [Conn \X Side -> 0 .. HdrLen + 2]
         /\ bufs \in [Conn \X Side -> Seq(Buffer) \ {<<>>}]
<1>1. /\ scenario \in Scenarios /\ sent \in [Conn -> Numbers \cup {0}]
      /\ \A c \in Conn : sent[c] <= Len(scenario.kinds[c])
  BY DEF TypeInv, TypeOK
<1>2. scenario.kinds \in [Conn -> Seq(Kind)]
  BY <1>1, ConstantsAssumption
<1>3. ASSUME NEW c \in Conn PROVE sent[c] \in Nat /\ Len(scenario.kinds[c]) \in Nat
  BY <1>1, <1>2 DEF Numbers
<1> QED  BY <1>1, <1>2, <1>3 DEF TypeInv, TypeOK, Table

\* The scenario stays and clients only ever send more.
LEMMA SentGrows ==
  ASSUME TypeInv, [Next]_vars
  PROVE  UNCHANGED scenario /\ \A d \in Conn : sent[d] <= sent'[d]
<1>1. \A d \in Conn : sent[d] \in Nat
  BY AnswerTypes
<1>2. CASE UNCHANGED <<scenario, sent>>
  BY <1>1, <1>2
<1>3. ASSUME NEW c \in Conn, ClientSend(c)
      PROVE  UNCHANGED scenario /\ \A d \in Conn : sent[d] <= sent'[d]
  <2>1. UNCHANGED scenario /\ sent' = [sent EXCEPT ![c] = @ + 1]
    BY <1>3 DEF ClientSend
  <2> QED  BY <1>1, <2>1, AnswerTypes
<1>4. CASE ~(\E c \in Conn : ClientSend(c))
  <2>1. ASSUME NEW c \in Conn, Join(c) PROVE UNCHANGED <<scenario, sent>>
    BY <2>1 DEF Join, Export, Lookup, AddToArray, Link, clients
  <2>2. ASSUME NEW c \in Conn, ReaderThread(c) PROVE UNCHANGED <<scenario, sent>>
    BY <2>2 DEF ReaderThread, ReaderTurn, ReaderWake, ReaderApc, clients
  <2>3. ASSUME NEW c \in Conn, ProducerThread(c) PROVE UNCHANGED <<scenario, sent>>
    BY <2>3 DEF ProducerThread, ProducerTurn, ProducerWake, ProducerApc, clients
  <2>4. ASSUME NEW c \in Conn, RefresherThread(c) PROVE UNCHANGED <<scenario, sent>>
    BY <2>4 DEF RefresherThread, DropBufc, NewBufp, RefresherEnds, clients
  <2>5. ASSUME NEW c \in Conn, ConsumerThread(c) PROVE UNCHANGED <<scenario, sent>>
    BY <2>5 DEF ConsumerThread, ConsumerLook, ConsumerAdd, ConsumerFirst, ConsumerTurn,
                ConsumerWake, ConsumerReadApc, ConsumerWriteApc, clients
  <2>6. ASSUME Environment \/ UNCHANGED vars PROVE UNCHANGED <<scenario, sent>>
    BY <1>4, <2>6
    DEF Environment, ClientClose, StubAnswer, DeviceGone, signalhandlerPool, vars, clients
  <2> QED  BY <1>2, <2>1, <2>2, <2>3, <2>4, <2>5, <2>6 DEF Next
<1> QED  BY <1>3, <1>4

\* What the types say of the devbuf of a stub.
LEMMA DevTypes ==
  ASSUME TypeInv, NEW c \in Conn, NEW q, q = bufs[<<c, "dev">>],
         NEW r, r = in_reading[<<c, "dev">>]
  PROVE  /\ <<c, "dev">> \in Conn \X Side /\ <<c, "sock">> \in Conn \X Side
         /\ q \in Seq(Buffer) /\ q # <<>> /\ Len(q) \in Nat \ {0}
         /\ Shaped(q, r) /\ r \in Nat
         /\ Head(q) = q[1] /\ Last(q) = q[Len(q)]
         /\ Head(q) \in Buffer /\ Last(q) \in Buffer /\ Sound(Last(q))
<1>1. /\ "dev" \in Side /\ <<c, "dev">> \in Conn \X Side /\ <<c, "sock">> \in Conn \X Side
  BY Keys
<1>2. q \in Seq(Buffer) /\ q # <<>> /\ Len(q) \in Nat \ {0} /\ Shaped(q, r) /\ r \in Nat
  BY <1>1, Bufs
<1>3. /\ Head(q) = q[1] /\ Last(q) = q[Len(q)]
      /\ Head(q) \in Buffer /\ Last(q) \in Buffer /\ Sound(Last(q))
  BY <1>2, Ends
<1> QED  BY <1>1, <1>2, <1>3

\* The direction kept for the number of an answer that is still to come is that of
\* its command.
LEMMA AnswerExpected ==
  ASSUME TypeInv, Right, NEW b, NEW d \in Conn, NEW n \in Numbers,
         <<d, n>> \in kept, Unanswered(<<d, n>>),
         b.data[1] = <<d, n, 1>>, ~(Len(b.data) < HdrLen)
  PROVE  Expected("dev", b) = AnsLen(scenario.kinds[d], n)
<1> DEFINE ks == scenario.kinds[d]
           hdr == b.data[1]
           x == get_xfer_len("dev", hdr)
           y == get_iso_len(KindOf(hdr[1], hdr[2]))
<1>1. hdr[1] = d /\ hdr[2] = n
  OBVIOUS
<1>2. KindOf(hdr[1], hdr[2]) = ks[n]
  BY <1>1 DEF KindOf
<1>3. y = get_iso_len(ks[n])
  BY <1>2, Zenon
<1>4. x = IF ks[n] # "unlink" /\ hdrs_cache_direction(hdr) = "in" THEN 1 ELSE 0
  BY <1>2 DEF get_xfer_len
<1>5. ASSUME ks[n] # "unlink" PROVE hdrs_cache_direction(hdr) = DirectionOf(ks[n])
  <2>1. PICK z : z = <<d, n>> /\ z[1] = d /\ z[2] = n
    OBVIOUS
  <2>2. KindOf(d, n) = ks[n]
    BY DEF KindOf
  <2>3. hdrs_cache[Entry(n)] = [seqnum |-> n, direction |-> DirectionOf(ks[n])]
    BY <1>5, <2>1, <2>2 DEF Right
  <2>4. PICK e : e = hdrs_cache[Entry(n)]
    OBVIOUS
  <2>5. e.seqnum = n /\ e.direction = DirectionOf(ks[n])
    BY <2>3, <2>4
  <2>6. hdrs_cache_direction(hdr) = IF e.seqnum = n THEN e.direction ELSE "out"
    BY <1>1, <2>4, Zenon DEF hdrs_cache_direction
  <2> QED  BY <2>5, <2>6
<1>6. x = PayloadLen(FALSE, ks[n])
  <2>1. PayloadLen(FALSE, ks[n]) =
          IF ks[n] # "unlink" /\ DirectionOf(ks[n]) = "in" THEN 1 ELSE 0
    BY DEF PayloadLen
  <2> HIDE DEF x, ks, hdr
  <2> QED  BY <1>4, <1>5, <2>1
<1>7. Expected("dev", b) = HdrLen + x + y
  BY DEF Expected
<1> HIDE DEF x, y
<1> QED  BY <1>3, <1>6, <1>7, Zenon DEF AnsLen

LEMMA Places ==
  /\ <<"todo", NoConn, 0>> \in Place
  /\ \A i \in Nat : <<"queue", NoConn, i>> \in Place
  /\ \A c \in Conn : \A i \in Nat : <<"buffer", c, i>> \in Place /\ <<"out", c, i>> \in Place
BY DEF Place

\* An answer that is being read is still to come, and hdrs_cache knows its command.
LEMMA AnswerAwaited ==
  ASSUME TypeInv, AnswerState, NEW c \in Conn, NEW l, l = bufp(c, "dev"), l.step # 3,
         l.data # <<>>, NEW d \in Conn, NEW n \in Numbers, l.data[1] = <<d, n, 1>>
  PROVE  <<d, n>> \in kept /\ Unanswered(<<d, n>>)
<1>0. PICK x : x = <<d, n>>
  OBVIOUS
<1>1. x = <<d, n>> /\ x[1] = d /\ x[2] = n /\ x \in Conn \X Numbers
  BY <1>0
<1>2. PICK q : q = bufs[<<c, "dev">>]
  OBVIOUS
<1>3. q \in Seq(Buffer) /\ Len(q) \in Nat \ {0} /\ l = q[Len(q)] /\ l \in Buffer
  BY <1>2, DevTypes DEF bufp
<1>4. l.off = 0
  <2>1. \A i \in 1 .. Len(q) : q[i].off # 0 => q[i].step = 3
    BY <1>2 DEF AnswerState, DevInv, Dev, AnswerEach
  <2> QED  BY <1>3, <2>1
<1>5. PICK p : p = <<"buffer", c, Len(q)>>
  OBVIOUS
<1>6. p \in Place /\ p[1] = "buffer" /\ p[2] = c /\ p[3] = Len(q)
  BY <1>3, <1>5, Places
<1>7. Holds(p, x)
  BY <1>1, <1>2, <1>3, <1>4, <1>6 DEF Holds, InBuffer
<1>8. ASSUME NEW e \in Conn, NEW i \in 1 .. Len(answered[e]),
             answered[e][i][1] = <<x[1], x[2], 1>>
      PROVE  FALSE
  <2>1. PICK r : r = <<"out", e, i>>
    OBVIOUS
  <2>2. r \in Place /\ r[1] = "out" /\ r[2] = e /\ r[3] = i
    <3>1. answered[e] \in Seq(Seq(Unit))
      BY AnswerTypes
    <3>2. i \in Nat
      BY <3>1
    <3> QED  BY <2>1, <3>2, Places
  <2>3. Holds(r, x)
    BY <1>8, <2>2 DEF Holds, InSocket
  <2> QED  BY <1>1, <1>6, <1>7, <2>2, <2>3 DEF AnswerState, OnePlace
<1> QED  BY <1>1, <1>6, <1>7, <1>8 DEF AnswerState, NotBefore, Unanswered

\* What read_dev expects in bufp of a stub.
LEMMA DevExpected ==
  ASSUME TypeInv, Right, AnswerState, NEW c \in Conn, NEW l \in Buffer, l = bufp(c, "dev")
  PROVE  /\ l.data = <<>> => Expected("dev", l) = HdrLen
         /\ l.step # 3 /\ Whole(scenario.kinds, sent, l.data)
              => Expected("dev", l) = Len(l.data)
         /\ Half(scenario.kinds, sent, l, devq) =>
              Expected("dev", l) = HdrLen + Len(Head(devq))
<1> DEFINE k == scenario.kinds
<1>1. HdrLen \in Nat \ {0} /\ sent \in [Conn -> Numbers \cup {0}] /\ devq \in Seq(Seq(Unit))
  BY AnswerTypes, ConstantsAssumption
<1>2. ASSUME l.data = <<>> PROVE Expected("dev", l) = HdrLen
  <2>1. Len(l.data) < HdrLen
    BY <1>1, <1>2
  <2> QED  BY <2>1 DEF Expected
<1>3. ASSUME l.step # 3, Whole(k, sent, l.data) PROVE Expected("dev", l) = Len(l.data)
  <2>0. PICK x : x = l.data
    OBVIOUS
  <2>1. Whole(k, sent, x)
    BY <1>3, <2>0
  <2> HIDE DEF k
  <2>2. PICK d \in Conn, n \in Numbers : AnswerTo(k, sent, x, d, n)
    BY <1>1, <2>1, WholeNames
  <2>3. Len(x) \in Nat /\ HdrLen <= Len(x) /\ 0 < Len(x)
    BY <1>1, <2>1, WholeAnswer
  <2>4. /\ l.data[1] = <<d, n, 1>> /\ l.data # <<>> /\ ~(Len(l.data) < HdrLen)
        /\ Len(l.data) = AnsLen(k[d], n)
    BY <1>1, <2>0, <2>2, <2>3 DEF AnswerTo
  <2>5. <<d, n>> \in kept /\ Unanswered(<<d, n>>)
    BY <1>3, <2>4, AnswerAwaited
  <2> QED  BY <2>4, <2>5, AnswerExpected DEF k
<1>4. ASSUME Half(k, sent, l, devq) PROVE Expected("dev", l) = HdrLen + Len(Head(devq))
  <2> HIDE DEF k
  <2>1. PICK d \in Conn, n \in Numbers : RestOf(k, sent, l, Head(devq), d, n)
    BY <1>1, <1>4, HalfAnswer
  <2>2. /\ l.data[1] = <<d, n, 1>> /\ ~(Len(l.data) < HdrLen)
        /\ l.step # 3 /\ l.data # <<>>
        /\ HdrLen + Len(Head(devq)) = AnsLen(k[d], n)
    BY <1>1, <1>4, <2>1 DEF RestOf, Half
  <2>3. <<d, n>> \in kept /\ Unanswered(<<d, n>>)
    BY <2>2, AnswerAwaited
  <2> QED  BY <2>2, <2>3, AnswerExpected DEF k
<1> QED  BY <1>2, <1>3, <1>4

\* What a turn of the consumer makes of bufp.
LEMMA DevMarked ==
  ASSUME TypeInv, NEW l \in Buffer, Sound(l), NEW r,
         NEW t, t = r \/ (Asks("dev", l) > 0 /\ t = Asks("dev", l))
  PROVE  Marked(l, read_dev("dev", l), Expected("dev", l), r, t)
<1> DEFINE b == read_dev("dev", l)
<1>1. "dev" \in Side
  BY DEF Side
<1>2. b.data = l.data /\ b.off = l.off
  BY <1>1, ReadDev
<1>3. b.step = (IF Len(l.data) < HdrLen THEN 1
                ELSE IF l.step = 3 THEN 3
                ELSE IF Len(l.data) < Expected("dev", l) THEN 2 ELSE 3)
  BY DEF read_dev, Buffer
<1>4. Asks("dev", l) > 0 => b.step # 3 /\ Asks("dev", l) = Expected("dev", l) - Len(l.data)
  BY DEF Asks
<1> QED  BY <1>2, <1>3, <1>4 DEF Marked
-----------------------------------------------------------------------------
(* hdrs_cache.                                                              *)

\* Only the reader tells hdrs_cache of commands.
LEMMA CachesKept ==
  ASSUME [Next]_vars, ~(\E c \in Conn : ReaderTurn(c))
  PROVE  UNCHANGED caches
<1>1. ASSUME NEW c \in Conn, Join(c) PROVE UNCHANGED caches
  BY <1>1 DEF Join, Export, Lookup, AddToArray, Link
<1>2. ASSUME NEW c \in Conn, ReaderThread(c) PROVE UNCHANGED caches
  BY <1>2 DEF ReaderThread, ReaderWake, ReaderApc
<1>3. ASSUME NEW c \in Conn, ProducerThread(c) PROVE UNCHANGED caches
  BY <1>3 DEF ProducerThread, ProducerTurn, ProducerWake, ProducerApc
<1>4. ASSUME NEW c \in Conn, RefresherThread(c) PROVE UNCHANGED caches
  BY <1>4 DEF RefresherThread, DropBufc, NewBufp, RefresherEnds
<1>5. ASSUME NEW c \in Conn, ConsumerThread(c) PROVE UNCHANGED caches
  BY <1>5 DEF ConsumerThread, ConsumerLook, ConsumerAdd, ConsumerFirst, ConsumerTurn,
              ConsumerWake, ConsumerReadApc, ConsumerWriteApc
<1>6. ASSUME Environment \/ UNCHANGED vars PROVE UNCHANGED caches
  BY <1>6
  DEF Environment, ClientSend, ClientClose, StubAnswer, DeviceGone, signalhandlerPool, vars
<1> QED  BY <1>1, <1>2, <1>3, <1>4, <1>5, <1>6 DEF Next

\* A turn of the reader that gets a header.
LEMMA CachesChange ==
  ASSUME [Next]_vars
  PROVE  \/ UNCHANGED caches
         \/ \E c \in Conn :
              LET b == bufp(c, "sock")
                  y == <<b.data[1][1], b.data[1][2]>>
              IN /\ ReaderTurn(c) /\ Len(b.data) >= HdrLen
                 /\ hdrs_cache' = hdrs_cache_insert(b.data[1])
                 /\ kept' = kept \cup {y}
                 /\ clash' = (clash \/ \E x \in kept : Unanswered(x) /\ Clash(x, y))
<1>1. ASSUME NEW c \in Conn, ReaderTurn(c) PROVE UNCHANGED caches \/ Keeps(bufp(c, "sock"))
  BY <1>1 DEF ReaderTurn
<1> QED  BY <1>1, CachesKept DEF Keeps

LEMMA KeptGrows ==
  ASSUME [Next]_vars
  PROVE  kept \subseteq kept' /\ (clash => clash')
<1>1. CASE UNCHANGED caches
  BY <1>1 DEF caches
<1>2. ASSUME NEW y, kept' = kept \cup {y},
             clash' = (clash \/ \E x \in kept : Unanswered(x) /\ Clash(x, y))
      PROVE  kept \subseteq kept' /\ (clash => clash')
  BY <1>2
<1> QED  BY <1>1, <1>2, CachesChange

\* The reader has in bufp of the socket a command that its client has sent.
LEMMA InsertsSent ==
  ASSUME TypeInv, NEW c \in Conn, SockInv(c), Len(bufp(c, "sock").data) >= HdrLen
  PROVE  \E n \in Numbers : n <= sent[c] /\ bufp(c, "sock").data[1] = <<c, n, 1>>
<1>1. PICK q, r, w, v, m, f, ks :
        /\ q = bufs[<<c, "sock">>] /\ r = in_reading[<<c, "sock">>]
        /\ w = in_writing[<<c, "dev">>] /\ v = wire[c] /\ m = sent[c] /\ f = forwarded[c]
        /\ ks = scenario.kinds[c]
  OBVIOUS
<1>2. Typed(q, r, v, m, f) /\ Sock(c, ks, q, r, w, v, m, f)
  BY <1>1, SockTyped DEF SockInv
<1>3. PICK n : n = Filling(q, f)
  OBVIOUS
<1>4. PICK d : d = Last(q).data
  OBVIOUS
<1>5. /\ HdrLen \in Nat \ {0} /\ Len(d) \in Nat /\ n \in Nat /\ Base(q, f) \in Nat /\ Len(q) \in Nat \ {0}
      /\ Len(d) > 0 => d[1] = <<c, n, 1>> /\ n <= m
  <2>1. /\ HdrLen \in Nat \ {0} /\ Len(Last(q).data) \in Nat /\ Filling(q, f) \in Nat
        /\ Base(q, f) \in Nat /\ Len(q) \in Nat \ {0}
    BY <1>2, BufpOfCommand
  <2>2. Len(Last(q).data) > 0 => Last(q).data[1] = <<c, Filling(q, f), 1>> /\ Filling(q, f) <= m
    BY <1>2, BufpOfCommand
  <2> QED  BY <1>3, <1>4, <2>1, <2>2
<1>6. bufp(c, "sock").data = d
  BY <1>1, <1>4 DEF bufp
<1>7. d[1] = <<c, n, 1>> /\ n <= m
  BY <1>5, <1>6
<1>8. n \in Numbers
  <2>1. m \in Numbers \cup {0} /\ MaxNumber \in Nat
    BY <1>1, AnswerTypes, ConstantsAssumption
  <2>2. n # 0
    BY <1>3, <1>5 DEF Filling
  <2> QED  BY <1>5, <1>7, <2>1, <2>2 DEF Numbers
<1> QED  BY <1>1, <1>6, <1>7, <1>8

\* The client has not lost an answer.
LEMMA AnsweredGrows ==
  ASSUME TypeInv, [Next]_vars, NEW x, Unanswered(x)'
  PROVE  Unanswered(x)
<1>1. \/ UNCHANGED answered
      \/ \E c \in Conn : \E y : answered' = [answered EXCEPT ![c] = Append(@, y)]
  <2>1. ASSUME NEW c \in Conn, Join(c) PROVE UNCHANGED answered
    BY <2>1 DEF Join, Export, Lookup, AddToArray, Link, history
  <2>2. ASSUME NEW c \in Conn, ReaderThread(c) \/ RefresherThread(c) PROVE UNCHANGED answered
    BY <2>2
    DEF ReaderThread, ReaderTurn, ReaderWake, ReaderApc, RefresherThread, DropBufc, NewBufp,
        RefresherEnds, history
  <2>3. ASSUME NEW c \in Conn, ProducerThread(c)
        PROVE  UNCHANGED answered \/ \E y : answered' = [answered EXCEPT ![c] = Append(@, y)]
    BY <2>3 DEF ProducerThread, ProducerTurn, ProducerWake, ProducerApc, history
  <2>4. ASSUME NEW c \in Conn, ConsumerThread(c) PROVE UNCHANGED answered
    BY <2>4 DEF ConsumerThread, ConsumerLook, ConsumerAdd, ConsumerFirst, ConsumerTurn,
                ConsumerWake, ConsumerReadApc, ConsumerWriteApc, history
  <2>5. ASSUME Environment \/ UNCHANGED vars PROVE UNCHANGED answered
    BY <2>5
    DEF Environment, ClientSend, ClientClose, StubAnswer, DeviceGone, signalhandlerPool, vars,
        history
  <2> QED  BY <2>1, <2>2, <2>3, <2>4, <2>5 DEF Next
<1>2. ASSUME NEW c \in Conn, NEW i \in 1 .. Len(answered[c])
      PROVE  i \in 1 .. Len(answered'[c]) /\ answered'[c][i] = answered[c][i]
  <2>1. PICK s : s = answered[c]
    OBVIOUS
  <2>2. answered \in [Conn -> Seq(Seq(Unit))] /\ s \in Seq(Seq(Unit))
    BY <2>1, AnswerTypes
  <2>3. answered'[c] = s \/ \E y : answered'[c] = Append(s, y)
    BY <1>1, <2>1, <2>2
  <2>4. ASSUME NEW y, NEW t, t = Append(s, y) PROVE i \in 1 .. Len(t) /\ t[i] = s[i]
    <3>1. i \in 1 .. Len(s) /\ Len(s) \in Nat
      BY <2>1, <2>2
    <3>2. Len(t) = Len(s) + 1 /\ t[i] = s[i]
      BY <2>2, <2>4, <3>1
    <3> QED  BY <3>1, <3>2
  <2> QED  BY <2>1, <2>3, <2>4
<1> QED  BY <1>2 DEF Unanswered

\* A command that does not clash with those whose answers are still to come leaves
\* their entries right.
LEMMA RightStep ==
  ASSUME TypeInv, \A c \in Conn : SockInv(c), Right, [Next]_vars, ~clash'
  PROVE  Right'
<1>1. \A d, n : KindOf(d, n)' = KindOf(d, n)
  BY SentGrows DEF KindOf
<1>2. hdrs_cache \in Table /\ kept \subseteq Conn \X Numbers
  BY AnswerTypes
<1>3. SUFFICES ASSUME NEW x \in kept', KindOf(x[1], x[2]) # "unlink", Unanswered(x)
               PROVE  hdrs_cache'[Entry(x[2])]
                        = [seqnum |-> x[2], direction |-> DirectionOf(KindOf(x[1], x[2]))]
  BY <1>1, AnsweredGrows DEF Right
<1>4. ASSUME x \in kept
      PROVE  hdrs_cache[Entry(x[2])]
               = [seqnum |-> x[2], direction |-> DirectionOf(KindOf(x[1], x[2]))]
  BY <1>3, <1>4 DEF Right
<1>5. CASE UNCHANGED caches
  BY <1>4, <1>5 DEF caches
<1>6. ASSUME NEW c \in Conn,
             Len(bufp(c, "sock").data) >= HdrLen,
             hdrs_cache' = hdrs_cache_insert(bufp(c, "sock").data[1]),
             kept' = kept \cup {<<bufp(c, "sock").data[1][1], bufp(c, "sock").data[1][2]>>},
             clash' = (clash \/ \E z \in kept :
               /\ Unanswered(z)
               /\ Clash(z, <<bufp(c, "sock").data[1][1], bufp(c, "sock").data[1][2]>>))
      PROVE  hdrs_cache'[Entry(x[2])]
               = [seqnum |-> x[2], direction |-> DirectionOf(KindOf(x[1], x[2]))]
  <2>1. PICK i \in Numbers : bufp(c, "sock").data[1] = <<c, i, 1>>
    BY <1>6, InsertsSent
  <2>0. PICK h, y : h = <<c, i, 1>> /\ y = <<c, i>>
    OBVIOUS
  <2>2. h = <<c, i, 1>> /\ y = <<c, i>> /\ h[1] = c /\ h[2] = i /\ y[1] = c /\ y[2] = i
    BY <2>0
  <2>3. /\ hdrs_cache' = hdrs_cache_insert(h) /\ kept' = kept \cup {y}
        /\ ~(\E z \in kept : Unanswered(z) /\ Clash(z, y))
    BY <1>6, <2>1, <2>2
  <2>4. PICK r, k : /\ k = KindOf(c, i) /\ r = [seqnum |-> i, direction |-> DirectionOf(k)]
    OBVIOUS
  <2>5. CASE k = "unlink"
    <3>1. hdrs_cache' = hdrs_cache
      BY <2>2, <2>3, <2>4, <2>5 DEF hdrs_cache_insert
    <3>2. x \in kept
      BY <1>3, <2>2, <2>3, <2>4, <2>5
    <3> QED  BY <1>4, <3>1, <3>2
  <2>6. CASE k # "unlink"
    <3>1. hdrs_cache' = [hdrs_cache EXCEPT ![Entry(i)] = r]
      BY <2>2, <2>3, <2>4, <2>6 DEF hdrs_cache_insert
    <3>2. /\ Entry(i) \in 0 .. CacheSize - 1 /\ hdrs_cache'[Entry(i)] = r
          /\ \A e \in 0 .. CacheSize - 1 : e # Entry(i) => hdrs_cache'[e] = hdrs_cache[e]
      <4>1. Entry(i) \in 0 .. CacheSize - 1
        BY EntryIs
      <4> QED  BY <1>2, <3>1, <4>1 DEF Table
    <3>3. CASE x = y
      BY <2>2, <2>4, <3>2, <3>3
    <3>4. CASE x # y
      <4>1. x \in kept /\ x[2] \in Numbers
        BY <1>2, <2>3, <3>4
      <4>2. Entry(x[2]) \in 0 .. CacheSize - 1
        BY <4>1, EntryIs
      <4>3. CASE Entry(x[2]) # Entry(i)
        BY <1>4, <3>2, <4>1, <4>2, <4>3
      <4>4. CASE Entry(x[2]) = Entry(i)
        <5>1. ~Clash(x, y)
          BY <1>3, <2>3, <4>1
        <5>2. x[2] = i /\ DirectionOf(KindOf(x[1], x[2])) = DirectionOf(k)
          BY <1>3, <2>2, <2>4, <2>6, <4>4, <5>1 DEF Clash
        <5> QED  BY <2>4, <3>2, <4>4, <5>2
      <4> QED  BY <4>3, <4>4
    <3> QED  BY <3>3, <3>4
  <2> QED  BY <2>5, <2>6
<1> QED  BY <1>5, <1>6, CachesChange

\* The buffers of a socket that are read into, or told of.
LEMMA HeadersStep ==
  ASSUME TypeInv, \A c \in Conn : SockInv(c), HeadersKept, [Next]_vars
  PROVE  HeadersKept'
<1>0. SUFFICES ASSUME NEW c \in Conn, NEW q, q = bufs[<<c, "sock">>],
                      NEW p, p = bufs'[<<c, "sock">>], NEW i \in 1 .. Len(p)
               PROVE  HeaderKept(p[i], kept')
  BY DEF HeadersKept
<1>1. /\ "sock" \in Side /\ <<c, "sock">> \in Conn \X Side
      /\ q \in Seq(Buffer) /\ q # <<>> /\ Len(q) \in Nat \ {0} /\ HdrLen \in Nat \ {0}
      /\ bufs \in [Conn \X Side -> Seq(Buffer) \ {<<>>}]
      /\ bufp(c, "sock") = q[Len(q)] /\ bufp(c, "sock") \in Buffer /\ Sound(bufp(c, "sock"))
      /\ bufp(c, "sock").data \in Seq(Unit)
  <2>1. "sock" \in Side /\ <<c, "sock">> \in Conn \X Side
    BY Keys
  <2> QED  BY <1>0, <2>1, Bufs, AnswerTypes, ConstantsAssumption
<1>2. \A j \in 1 .. Len(q) : HeaderKept(q[j], kept')
  BY <1>0, KeptGrows DEF HeadersKept, HeaderKept
<1>3. CASE p = q
  BY <1>0, <1>2, <1>3
<1>4. ASSUME NEW b \in Buffer, bufs' = WithBufp(c, "sock", b), HeaderKept(b, kept')
      PROVE  HeaderKept(p[i], kept')
  <2>1. p = [q EXCEPT ![Len(q)] = b]
    BY <1>0, <1>1, <1>4, BufpIs
  <2>2. HasBufp(p, q, b)
    BY <1>1, <2>1, BufpReplaced
  <2>3. i \in 1 .. Len(q) /\ (p[i] = b \/ p[i] = q[i])
    BY <1>0, <2>2 DEF HasBufp
  <2> QED  BY <1>2, <1>4, <2>3
<1>5. ASSUME NEW d \in Conn, ReaderThread(d) PROVE HeaderKept(p[i], kept')
  <2>1. CASE d # c
    <3>1. UNCHANGED bufs \/ \E b : bufs' = WithBufp(d, "sock", b)
      BY <1>5 DEF ReaderThread, ReaderTurn, ReaderWake, ReaderApc, devbuf
    <3>2. <<c, "sock">> # <<d, "sock">>
      BY <2>1, Keys
    <3>3. p = q
      BY <1>0, <1>1, <3>1, <3>2, OthersKept
    <3> QED  BY <1>3, <3>3
  <2>2. CASE ReaderWake(c) \/ UNCHANGED bufs
    BY <1>0, <1>3, <2>2 DEF ReaderWake, devbuf
  <2>3. PICK l : l = bufp(c, "sock")
    OBVIOUS
  <2>4. /\ l \in Buffer /\ Sound(l) /\ l.data \in Seq(Unit) /\ Len(l.data) \in Nat
        /\ HeaderKept(l, kept')
    <3>1. l = q[Len(q)] /\ Len(q) \in 1 .. Len(q)
      BY <1>1, <2>3
    <3> QED  BY <1>1, <1>2, <2>3, <3>1
  <2>5. CASE ReaderTurn(c) /\ Keeps(l) /\ bufs' = WithBufp(c, "sock", read_dev("sock", l))
    <3>1. PICK b : b = read_dev("sock", l)
      OBVIOUS
    <3>2. /\ b \in Buffer /\ b.data = l.data
          /\ b.step = (IF Len(l.data) < HdrLen THEN 1
                       ELSE IF l.step = 3 THEN 3
                       ELSE IF Len(l.data) < Expected("sock", l) THEN 2 ELSE 3)
      <4>1. b \in Buffer /\ b.data = l.data
        BY <1>1, <2>4, <3>1, ReadDev
      <4> QED  BY <3>1, <4>1 DEF read_dev, Buffer
    <3>3. l.step \in 0 .. 3
      BY <2>4 DEF Buffer
    <3>4. b.step \in {2, 3} => <<b.data[1][1], b.data[1][2]>> \in kept'
      <4>1. CASE l.step = 3
        BY <1>1, <2>4, <3>2, <4>1 DEF HeaderKept
      <4>2. CASE l.step = 0
        <5>1. Len(l.data) = 0
          BY <2>4, <4>2 DEF HeaderKept
        <5> QED  BY <1>1, <3>2, <5>1
      <4>3. CASE l.step \in {1, 2} /\ ~(Len(l.data) < HdrLen)
        <5>1. kept' = kept \cup {<<l.data[1][1], l.data[1][2]>>}
          BY <1>1, <2>4, <2>5, <4>3 DEF Keeps
        <5> QED  BY <3>2, <5>1
      <4> QED  BY <3>2, <3>3, <4>1, <4>2, <4>3
    <3>5. HeaderKept(b, kept')
      <4>1. b.step # 0
        BY <3>2
      <4>2. b.step \in {2, 3} => Len(b.data) >= HdrLen
        BY <1>1, <2>4, <3>2
      <4> QED  BY <3>4, <4>1, <4>2 DEF HeaderKept
    <3> QED  BY <1>4, <2>5, <3>1, <3>2, <3>5
  <2>6. CASE ReaderApc(c) /\ ~UNCHANGED bufs
    <3>1. PICK n \in 1 .. in_reading[<<c, "sock">>] :
            /\ n <= Len(wire[c])
            /\ bufs' = WithBufp(c, "sock", [l EXCEPT !.data = @ \o SubSeq(wire[c], 1, n)])
      BY <2>3, <2>6 DEF ReaderApc
    <3>2. PICK u : u = SubSeq(wire[c], 1, n)
      OBVIOUS
    <3>3. u \in Seq(Unit) /\ Len(u) \in Nat /\ Len(l.data) + Len(u) <= HdrLen + 2
      <4>1. /\ in_reading[<<c, "sock">>] \in Nat
            /\ Len(l.data) + in_reading[<<c, "sock">>] <= HdrLen + 2
        BY <1>1, <2>3, Bufs
      <4>2. n \in Nat /\ n <= in_reading[<<c, "sock">>] /\ wire[c] \in Seq(Unit)
        BY <3>1, <4>1, SockTyped
      <4>3. u \in Seq(Unit) /\ Len(u) = n
        BY <3>1, <3>2, <4>2, Cut
      <4> QED  BY <1>1, <2>4, <4>1, <4>2, <4>3
    <3>4. PICK b : b = [l EXCEPT !.data = @ \o u]
      OBVIOUS
    <3>5. b \in Buffer /\ b.data = l.data \o u /\ b.step = l.step
      BY <2>4, <3>3, <3>4, DataAdded
    <3>6. l.step \in {1, 2}
      <4>1. in_reading[<<c, "sock">>] > 0
        <5>1. in_reading[<<c, "sock">>] \in Nat
          BY <1>1, <2>3, Bufs
        <5> QED  BY <3>1, <5>1
      <4>2. Last(q).step \in {1, 2}
        BY <1>0, <4>1 DEF SockInv, Sock, ReadsOne
      <4> QED  BY <1>0, <2>3, <4>2 DEF bufp
    <3>7. l.step = 2 => /\ Len(b.data) >= HdrLen
                        /\ b.data[1] = l.data[1]
      <4>1. PICK s, t : s = l.data /\ t = s \o u
        OBVIOUS
      <4>2. /\ s \in Seq(Unit) /\ t \in Seq(Unit) /\ Len(t) = Len(s) + Len(u)
            /\ Len(s) \in Nat /\ (Len(s) > 0 => t[1] = s[1])
        BY <2>4, <3>3, <4>1, Joined
      <4>3. l.step = 2 => Len(s) >= HdrLen
        BY <2>4, <4>1 DEF HeaderKept
      <4> QED  BY <1>1, <3>3, <3>5, <4>1, <4>2, <4>3
    <3>8. HeaderKept(b, kept')
      <4>1. b.step = l.step /\ b.step # 0 /\ b.step # 3
        BY <3>5, <3>6
      <4>2. CASE b.step = 2
        <5>1. <<l.data[1][1], l.data[1][2]>> \in kept'
          BY <2>4, <4>1, <4>2 DEF HeaderKept
        <5> QED  BY <3>7, <4>1, <4>2, <5>1 DEF HeaderKept
      <4>3. CASE b.step # 2
        BY <4>1, <4>3 DEF HeaderKept
      <4> QED  BY <4>2, <4>3
    <3> QED  BY <1>4, <3>1, <3>2, <3>4, <3>5, <3>8
  <2>7. CASE ReaderTurn(c) /\ ~UNCHANGED bufs
    BY <2>3, <2>5, <2>7 DEF ReaderTurn
  <2> QED  BY <1>5, <2>1, <2>2, <2>6, <2>7 DEF ReaderThread
<1>6. ASSUME NEW d \in Conn, RefresherThread(d) PROVE HeaderKept(p[i], kept')
  <2>1. \/ p = q
        \/ p = Tail(q) /\ Len(q) > 1
        \/ p = Append(q, NewBuffer)
    <3>1. ASSUME NEW s \in Side, DropBufc(d, s) PROVE p = q \/ (p = Tail(q) /\ Len(q) > 1)
      <4>1. bufs' = [bufs EXCEPT ![<<d, s>>] = Tail(@)] /\ Len(bufs[<<d, s>>]) > 1
        BY <3>1 DEF DropBufc, CanDrop
      <4> QED  BY <1>0, <1>1, <4>1
    <3>2. ASSUME NEW s \in Side, NewBufp(d, s) PROVE p = q \/ p = Append(q, NewBuffer)
      BY <1>0, <1>1, <3>2 DEF NewBufp
    <3>3. ASSUME RefresherEnds(d) PROVE p = q
      BY <1>0, <3>3 DEF RefresherEnds, devbuf
    <3> QED  BY <1>6, <3>1, <3>2, <3>3 DEF RefresherThread
  <2>2. CASE p = Tail(q) /\ Len(q) > 1
    <3>1. Len(p) = Len(q) - 1 /\ \A j \in 1 .. Len(p) : p[j] = q[j + 1]
      BY <1>1, <2>2, Shorter
    <3>2. i + 1 \in 1 .. Len(q)
      <4>1. Len(q) \in Nat /\ Len(p) \in Nat
        BY <1>1, <3>1
      <4>2. i \in Nat /\ 1 <= i /\ i <= Len(p)
        BY <1>0, <4>1
      <4> QED  BY <3>1, <4>1, <4>2
    <3>3. p[i] = q[i + 1]
      BY <1>0, <3>1
    <3> QED  BY <1>2, <3>2, <3>3
  <2>3. CASE p = Append(q, NewBuffer)
    <3>1. /\ Len(p) = Len(q) + 1
          /\ \A j \in 1 .. Len(p) : p[j] = IF j = Len(p) THEN NewBuffer ELSE q[j]
      BY <1>1, <2>3, NewIsSound, Longer
    <3>2. (i \in 1 .. Len(q) /\ p[i] = q[i]) \/ p[i] = NewBuffer
      <4>1. CASE i = Len(p)
        BY <1>0, <3>1, <4>1
      <4>2. CASE i # Len(p)
        <5>1. i \in 1 .. Len(q)
          BY <1>0, <1>1, <3>1, <4>2
        <5> QED  BY <1>0, <3>1, <4>2, <5>1
      <4> QED  BY <4>1, <4>2
    <3>3. HeaderKept(NewBuffer, kept')
      BY DEF HeaderKept, NewBuffer
    <3> QED  BY <1>2, <3>2, <3>3
  <2> QED  BY <1>3, <2>1, <2>2, <2>3
<1>7. ASSUME NEW k \in Conn, ConsumerThread(k) PROVE HeaderKept(p[i], kept')
  <2>1. CASE ConsumerLook(k) \/ ConsumerAdd(k) \/ ConsumerFirst(k) \/ ConsumerWake(k)
             \/ UNCHANGED bufs
    BY <1>0, <1>3, <2>1
    DEF ConsumerLook, ConsumerAdd, ConsumerFirst, ConsumerWake, devbuf
  <2>2. CASE ConsumerTurn(k) \/ ConsumerReadApc(k)
    <3>1. PICK d : d = at[k]
      OBVIOUS
    <3>2. d \in Conn /\ (UNCHANGED bufs \/ \E b : bufs' = WithBufp(d, "dev", b))
      <4>1. CASE ConsumerTurn(k)
        <5>1. d \in Conn
          BY <3>1, <4>1 DEF ConsumerTurn, TypeInv, TypeOK
        <5>2. UNCHANGED bufs \/ \E b : bufs' = WithBufp(d, "dev", b)
          <6> HIDE DEF CanWrite
          <6> QED  BY <3>1, <4>1 DEF ConsumerTurn
        <5> QED  BY <5>1, <5>2
      <4>2. CASE ConsumerReadApc(k)
        BY <3>1, <4>2, GoesOn DEF ConsumerReadApc
      <4> QED  BY <2>2, <4>1, <4>2
    <3>3. <<c, "sock">> # <<d, "dev">> /\ "dev" \in Side
      BY <3>2, Keys
    <3>4. p = q
      BY <1>0, <1>1, <3>2, <3>3, OthersKept
    <3> QED  BY <1>3, <3>4
  <2>3. CASE ConsumerWriteApc(k) /\ ~UNCHANGED bufs
    <3>1. PICK d : d = at[k] /\ d \in Conn
      BY <2>3, GoesOn DEF ConsumerWriteApc
    <3>2. bufs' = Written(d, "sock")
      BY <2>3, <3>1 DEF ConsumerWriteApc
    <3>3. CASE d # c
      <4>1. p = q
        BY <1>0, <1>1, <3>1, <3>2, <3>3, Keys DEF Written
      <4> QED  BY <1>3, <4>1
    <3>4. CASE d = c
      <4>1. p = [q EXCEPT ![1].off = Len(q[1].data)]
        BY <1>0, <1>1, <3>1, <3>2, <3>4 DEF Written
      <4>2. PICK b : b = [q[1] EXCEPT !.off = Len(q[1].data)]
        OBVIOUS
      <4>3. 1 \in 1 .. Len(q) /\ q[1] \in Buffer
        BY <1>1
      <4>4. b.step = q[1].step /\ b.data = q[1].data
        BY <4>2, <4>3 DEF Buffer
      <4>5. HeaderKept(b, kept')
        BY <1>2, <4>3, <4>4 DEF HeaderKept
      <4>6. p = [q EXCEPT ![1] = b]
        BY <4>1, <4>2
      <4>7. i \in 1 .. Len(q) /\ (p[i] = b \/ p[i] = q[i])
        <5>1. Len(p) = Len(q)
          BY <1>1, <4>6
        <5> QED  BY <1>0, <1>1, <4>6, <5>1
      <4> QED  BY <1>2, <4>5, <4>7
    <3> QED  BY <3>3, <3>4
  <2> QED  BY <1>7, <2>1, <2>2, <2>3 DEF ConsumerThread
<1>8. ASSUME NEW d \in Conn, Join(d) \/ ProducerThread(d) PROVE HeaderKept(p[i], kept')
  <2>1. UNCHANGED bufs \/ bufs' = Written(d, "dev")
    BY <1>8 DEF Join, Export, Lookup, AddToArray, Link, ProducerThread, ProducerTurn,
                ProducerWake, ProducerApc, devbuf
  <2>2. p = q
    BY <1>0, <1>1, <2>1, Keys DEF Written
  <2> QED  BY <1>3, <2>2
<1>9. ASSUME Environment \/ UNCHANGED vars PROVE HeaderKept(p[i], kept')
  <2>1. UNCHANGED bufs
    BY <1>9
    DEF Environment, ClientSend, ClientClose, StubAnswer, DeviceGone, signalhandlerPool, vars,
        devbuf
  <2> QED  BY <1>0, <1>3, <2>1
<1> QED  BY <1>5, <1>6, <1>7, <1>8, <1>9 DEF Next

\* hdrs_cache knows the command that a consumer begins to write to the stub.
LEMMA WritesKept ==
  ASSUME TypeInv, HeadersKept, NEW c \in Conn, CanWrite(c, "dev"), NEW n,
         bufc(c, "sock").data[1] = <<c, n, 1>>
  PROVE  <<c, n>> \in kept
<1>1. PICK b, q : b = bufc(c, "sock") /\ q = bufs[<<c, "sock">>]
  OBVIOUS
<1>2. b = q[1] /\ 1 \in 1 .. Len(q)
  <2>1. "sock" \in Side /\ <<c, "sock">> \in Conn \X Side
    BY Keys
  <2>2. q \in Seq(Buffer) /\ q # <<>> /\ Len(q) \in Nat \ {0}
    BY <1>1, <2>1, Bufs
  <2> QED  BY <1>1, <2>2, Ends DEF bufc
<1>3. b.step = 3
  BY <1>1, Keys DEF CanWrite, Unwritten
<1>4. <<b.data[1][1], b.data[1][2]>> \in kept
  BY <1>1, <1>2, <1>3 DEF HeadersKept, HeaderKept
<1>5. PICK h : h = b.data[1] /\ h[1] = c /\ h[2] = n
  BY <1>1
<1> QED  BY <1>4, <1>5
-----------------------------------------------------------------------------
(* The places of the answers.                                               *)

LEMMA PlaceIs ==
  ASSUME NEW p \in Place
  PROVE  /\ p = <<p[1], p[2], p[3]>> /\ p[3] \in Nat
         /\ p[1] \in {"todo", "queue", "buffer", "out"}
BY DEF Place

\* Commands are only ever written to the stub.
LEMMA BegunGrows ==
  ASSUME TypeInv, [Next]_vars, NEW d \in Conn
  PROVE  /\ gone => gone'
         /\ Begun(d) \in Nat /\ Begun(d)' \in Nat
         /\ ~gone' => Begun(d) <= Begun(d)'
<1> DEFINE w == in_writing[<<d, "dev">>]
           f == forwarded[d]
<1>0. /\ <<d, "dev">> \in Conn \X Side /\ w \in BOOLEAN /\ f \in Seq(Seq(Unit)) /\ Len(f) \in Nat
      /\ in_writing \in [Conn \X Side -> BOOLEAN] /\ forwarded \in [Conn -> Seq(Seq(Unit))]
  <2>1. /\ in_writing \in [Conn \X Side -> BOOLEAN] /\ forwarded \in [Conn -> Seq(Seq(Unit))]
    BY AnswerTypes
  <2>2. <<d, "dev">> \in Conn \X Side
    BY Keys
  <2> QED  BY <2>1, <2>2
<1>1. Begun(d) \in Nat /\ Begun(d) <= Begun(d)
  <2>1. \A z \in {0, 1} : Len(f) + z \in Nat /\ Len(f) + z <= Len(f) + z
    BY <1>0
  <2> QED  BY <2>1 DEF Begun
<1>2. ASSUME w' = w, f' = f PROVE Begun(d) <= Begun(d)'
  BY <1>1, <1>2 DEF Begun
<1> DEFINE Goal == (gone => gone') /\ (~gone' => Begun(d) <= Begun(d)')
<1>3. ASSUME UNCHANGED <<in_writing, forwarded, gone>> PROVE Goal
  BY <1>2, <1>3
<1>4. ASSUME NEW c \in Conn, Join(c) PROVE Goal
  BY <1>3, <1>4 DEF Join, Export, Lookup, AddToArray, Link, devbuf, stub, history
<1>5. ASSUME NEW c \in Conn, ReaderThread(c) \/ RefresherThread(c) PROVE Goal
  BY <1>3, <1>5
  DEF ReaderThread, ReaderTurn, ReaderWake, ReaderApc, RefresherThread, DropBufc, NewBufp,
      RefresherEnds, devbuf, stub, history
<1>6. ASSUME NEW c \in Conn, ProducerThread(c) PROVE Goal
  <2>1. /\ UNCHANGED <<forwarded, gone>>
        /\ UNCHANGED in_writing \/ \E z : in_writing' = [in_writing EXCEPT ![<<c, "sock">>] = z]
    BY <1>6
    DEF ProducerThread, ProducerTurn, ProducerWake, ProducerApc, devbuf, stub, history
  <2>2. w' = w
    BY <1>0, <2>1, Keys
  <2> HIDE DEF w
  <2> QED  BY <1>2, <2>1, <2>2
<1>7. ASSUME NEW k \in Conn, ConsumerThread(k) PROVE Goal
  <2>1. CASE ConsumerLook(k) \/ ConsumerAdd(k) \/ ConsumerFirst(k) \/ ConsumerWake(k)
             \/ ConsumerReadApc(k)
    BY <1>3, <2>1
    DEF ConsumerLook, ConsumerAdd, ConsumerFirst, ConsumerWake, ConsumerReadApc, devbuf, stub,
        history
  <2>2. CASE ConsumerTurn(k)
    <3> DEFINE c == at[k]
               z == CanWrite(c, "dev") \/ in_writing[<<c, "dev">>]
    <3>1. /\ UNCHANGED <<forwarded, gone>> /\ in_writing' = [in_writing EXCEPT ![<<c, "dev">>] = z]
          /\ (in_writing[<<c, "dev">>] => z) /\ z \in BOOLEAN
      <4> HIDE DEF CanWrite
      <4> QED  BY <2>2 DEF ConsumerTurn, history
    <3>2. w => w'
      <4> HIDE DEF z, c
      <4> QED  BY <1>0, <3>1
    <3>3. \/ w' = w
          \/ ~w /\ w' = TRUE
      <4> HIDE DEF z, c
      <4> QED  BY <1>0, <3>1
    <3>4. Begun(d) <= Begun(d)'
      <4>1. CASE w' = w
        BY <1>2, <3>1, <4>1
      <4>2. CASE ~w /\ w' = TRUE
        <5>1. Begun(d) = Len(f) + 0 /\ Begun(d)' = Len(f) + 1
          BY <3>1, <4>2 DEF Begun
        <5> HIDE DEF f
        <5> QED  BY <1>0, <5>1
      <4> QED  BY <3>3, <4>1, <4>2
    <3> QED  BY <3>1, <3>4
  <2>3. CASE ConsumerWriteApc(k)
    <3> DEFINE c == at[k]
    <3>1. /\ c \in Conn /\ UNCHANGED gone
          /\ in_writing' = [in_writing EXCEPT ![<<c, "dev">>] = FALSE]
          /\ in_writing[<<c, "dev">>]
          /\ \/ \E x : forwarded' = [forwarded EXCEPT ![c] = Append(@, x)]
             \/ gone /\ UNCHANGED forwarded
      BY <2>3, GoesOn DEF ConsumerWriteApc, stub
    <3>2. CASE gone
      BY <3>1, <3>2
    <3>3. CASE c # d
      <4>1. w' = w /\ f' = f
        BY <1>0, <3>1, <3>3
      <4> QED  BY <1>2, <3>1, <4>1
    <3>4. CASE c = d /\ ~gone
      <4>1. PICK x : forwarded' = [forwarded EXCEPT ![c] = Append(@, x)]
        BY <3>1, <3>4
      <4>2. w = TRUE /\ w' = FALSE /\ f' = Append(f, x)
        BY <1>0, <3>1, <3>4, <4>1
      <4>3. Len(f') = Len(f) + 1
        <5> HIDE DEF f
        <5>1. PICK y : y = f'
          OBVIOUS
        <5>2. Len(y) = Len(f) + 1
          BY <1>0, <4>2, <5>1, AppendProperties
        <5> QED  BY <5>1, <5>2
      <4>4. Begun(d) = Len(f) + 1 /\ Begun(d)' = (Len(f) + 1) + 0
        BY <4>2, <4>3 DEF Begun
      <4> HIDE DEF f
      <4> QED  BY <1>0, <3>1, <4>4
    <3> QED  BY <3>2, <3>3, <3>4
  <2> QED  BY <1>7, <2>1, <2>2, <2>3 DEF ConsumerThread
<1>8. ASSUME Environment \/ UNCHANGED vars PROVE Goal
  <2>1. UNCHANGED <<in_writing, forwarded>> /\ (UNCHANGED gone \/ ~gone)
    <3>1. CASE StubAnswer
      BY <3>1 DEF StubAnswer, devbuf, history
    <3>2. CASE DeviceGone
      BY <3>2 DEF DeviceGone, devbuf, history
    <3>3. CASE UNCHANGED vars
      BY <3>3 DEF vars, devbuf, stub, history
    <3>4. CASE signalhandlerPool \/ \E c \in Conn : ClientSend(c) \/ ClientClose(c)
      BY <3>4 DEF ClientSend, ClientClose, signalhandlerPool, devbuf, stub, history
    <3> QED  BY <1>8, <3>1, <3>2, <3>3, <3>4 DEF Environment
  <2> QED  BY <1>2, <2>1
<1>9. Goal
  <2> HIDE DEF Goal
  <2> QED  BY <1>4, <1>5, <1>6, <1>7, <1>8 DEF Next
<1>10. Begun(d)' \in Nat
  <2>1. forwarded' \in [Conn -> Seq(Seq(Unit))]
    BY TypeInvStep DEF TypeInv, TypeOK
  <2>2. PICK n : n = Len(forwarded'[d])
    OBVIOUS
  <2>3. n \in Nat
    BY <2>1, <2>2
  <2>4. PICK z : z = IF w' THEN 1 ELSE 0
    OBVIOUS
  <2>5. z \in {0, 1}
    BY <2>4
  <2>6. Begun(d)' = n + z
    BY <2>2, <2>4, Zenon DEF Begun
  <2> QED  BY <2>3, <2>5, <2>6
<1> QED  BY <1>1, <1>9, <1>10

\* Every answer is where it was, or where another place was.
LEMMA PlacesMoved ==
  ASSUME TypeInv, [Next]_vars, OnePlace, NotBefore, NEW g,
         \A p \in Place : \A x \in Conn \X Numbers :
           Holds(p, x)' => g[p] \in Place /\ Holds(g[p], x),
         \A p, r \in Place : \A x \in Conn \X Numbers :
           Holds(p, x)' /\ Holds(r, x)' /\ g[p] = g[r] => p = r
  PROVE  OnePlace' /\ NotBefore'
<1>1. ASSUME NEW x \in Conn \X Numbers, NEW p \in Place, NEW r \in Place,
             Holds(p, x)', Holds(r, x)'
      PROVE  p = r
  <2>1. g[p] \in Place /\ Holds(g[p], x) /\ g[r] \in Place /\ Holds(g[r], x)
    BY <1>1
  <2>2. g[p] = g[r]
    BY <2>1 DEF OnePlace
  <2> QED  BY <1>1, <2>2
<1>2. ASSUME NEW x \in Conn \X Numbers, NEW p \in Place, Holds(p, x)'
      PROVE  x \in kept'
  <2>1. g[p] \in Place /\ Holds(g[p], x)
    BY <1>2
  <2> QED  BY <2>1, KeptGrows DEF NotBefore
<1>3. ASSUME ~gone', NEW x \in Conn \X Numbers, NEW p \in Place, Holds(p, x)'
      PROVE  x[2] <= Begun(x[1])'
  <2>1. g[p] \in Place /\ Holds(g[p], x)
    BY <1>3
  <2>2. PICK d, n : d = x[1] /\ n = x[2] /\ d \in Conn /\ n \in Nat
    BY DEF Numbers
  <2>3. (gone => gone') /\ Begun(d) \in Nat /\ (~gone' => Begun(d) <= Begun(d)')
    BY <2>2, BegunGrows
  <2>4. n <= Begun(d)
    BY <1>3, <2>1, <2>2, <2>3 DEF NotBefore
  <2>5. n <= Begun(d)'
    <3>1. Begun(d)' \in Nat
      BY <2>2, BegunGrows
    <3> QED  BY <1>3, <2>2, <2>3, <2>4, <3>1
  <2> QED  BY <2>2, <2>5
<1> QED  BY <1>1, <1>2, <1>3 DEF OnePlace, NotBefore

\* No answer comes to a place.
LEMMA PlacesKept ==
  ASSUME TypeInv, [Next]_vars, OnePlace, NotBefore,
         \A p \in Place : \A x \in Conn \X Numbers : Holds(p, x)' => Holds(p, x)
  PROVE  OnePlace' /\ NotBefore'
<1>1. PICK g : g = [p \in Place |-> p]
  OBVIOUS
<1>2. \A p \in Place : g[p] = p
  BY <1>1
<1>3. \A p \in Place : \A x \in Conn \X Numbers :
        Holds(p, x)' => g[p] \in Place /\ Holds(g[p], x)
  BY <1>2
<1>4. \A p, r \in Place : \A x \in Conn \X Numbers :
        Holds(p, x)' /\ Holds(r, x)' /\ g[p] = g[r] => p = r
  BY <1>2
<1> QED  BY <1>3, <1>4, PlacesMoved

\* One answer comes to a place.
LEMMA PlacesAdded ==
  ASSUME TypeInv, [Next]_vars, OnePlace, NotBefore, NEW new, NEW z \in Conn \X Numbers,
         \A p \in Place : \A x \in Conn \X Numbers :
           Holds(p, x)' => Holds(p, x) \/ (p = new /\ x = z),
         \A p \in Place : Holds(p, z)' => p = new,
         z \in kept', ~gone' => z[2] <= Begun(z[1])'
  PROVE  OnePlace' /\ NotBefore'
<1>1. ASSUME NEW x \in Conn \X Numbers, NEW p \in Place, NEW r \in Place,
             Holds(p, x)', Holds(r, x)'
      PROVE  p = r
  <2>1. CASE x = z
    BY <1>1, <2>1
  <2>2. CASE x # z
    <3>1. Holds(p, x) /\ Holds(r, x)
      BY <1>1, <2>2
    <3> QED  BY <3>1 DEF OnePlace
  <2> QED  BY <2>1, <2>2
<1>2. ASSUME NEW x \in Conn \X Numbers, NEW p \in Place, Holds(p, x)'
      PROVE  x \in kept'
  <2>1. Holds(p, x) \/ x = z
    BY <1>2
  <2> QED  BY <2>1, KeptGrows DEF NotBefore
<1>3. ASSUME ~gone', NEW x \in Conn \X Numbers, NEW p \in Place, Holds(p, x)'
      PROVE  x[2] <= Begun(x[1])'
  <2>1. CASE x = z
    BY <1>3, <2>1
  <2>2. CASE x # z
    <3>1. Holds(p, x)
      BY <1>3, <2>2
    <3>2. PICK d, n : d = x[1] /\ n = x[2] /\ d \in Conn /\ n \in Nat
      BY DEF Numbers
    <3>3. (gone => gone') /\ Begun(d) \in Nat /\ Begun(d)' \in Nat
          /\ (~gone' => Begun(d) <= Begun(d)')
      BY <3>2, BegunGrows
    <3>4. n <= Begun(d)
      BY <1>3, <3>1, <3>2, <3>3 DEF NotBefore
    <3>5. n <= Begun(d)'
      BY <1>3, <3>2, <3>3, <3>4
    <3> QED  BY <3>2, <3>5
  <2> QED  BY <2>1, <2>2
<1> QED  BY <1>1, <1>2, <1>3 DEF OnePlace, NotBefore
-----------------------------------------------------------------------------
(* What is kept.                                                            *)

LEMMA SentTypes ==
  ASSUME TypeInv, [Next]_vars
  PROVE  /\ UNCHANGED scenario
         /\ sent \in [Conn -> Numbers \cup {0}] /\ sent' \in [Conn -> Numbers \cup {0}]
         /\ \A d \in Conn : sent[d] <= sent'[d]
         /\ \A x : Whole(scenario.kinds, sent, x) => Whole(scenario.kinds, sent', x)
<1>1. UNCHANGED scenario /\ \A d \in Conn : sent[d] <= sent'[d]
  BY SentGrows
<1>2. sent \in [Conn -> Numbers \cup {0}]
  BY AnswerTypes
<1>3. sent' \in [Conn -> Numbers \cup {0}]
  BY TypeInvStep DEF TypeInv, TypeOK
<1>4. ASSUME NEW x, Whole(scenario.kinds, sent, x) PROVE Whole(scenario.kinds, sent', x)
  <2>1. PICK k, m, l : k = scenario.kinds /\ m = sent /\ l = sent'
    OBVIOUS
  <2>2. /\ m \in [Conn -> Numbers \cup {0}] /\ l \in [Conn -> Numbers \cup {0}]
        /\ \A d \in Conn : m[d] <= l[d]
    BY <1>1, <1>2, <1>3, <2>1
  <2>3. Whole(k, m, x)
    BY <1>4, <2>1
  <2>4. Whole(k, l, x)
    BY <2>2, <2>3, WholeStays
  <2> QED  BY <2>1, <2>4
<1> QED  BY <1>1, <1>2, <1>3, <1>4

\* A devbuf of which Dev holds for what has been sent before the step.
LEMMA DevLater ==
  ASSUME TypeInv, [Next]_vars, NEW d \in Conn,
         NEW q, NEW r, NEW w, NEW v, Dev(scenario.kinds, sent, q, r, w, v),
         bufs'[<<d, "dev">>] = q, in_reading'[<<d, "dev">>] = r,
         in_writing'[<<d, "sock">>] = w, devq' = v
  PROVE  DevInv(d)'
<1>1. PICK k, m, l : k = scenario.kinds /\ m = sent /\ l = sent'
  OBVIOUS
<1>2. /\ m \in [Conn -> Numbers \cup {0}] /\ l \in [Conn -> Numbers \cup {0}]
      /\ \A e \in Conn : m[e] <= l[e]
      /\ scenario'.kinds = k
  BY <1>1, SentTypes
<1>3. Dev(k, m, q, r, w, v)
  BY <1>1
<1>4. Dev(k, l, q, r, w, v)
  BY <1>2, <1>3, DevStays
<1> QED  BY <1>1, <1>2, <1>4 DEF DevInv

LEMMA QueueKept ==
  ASSUME TypeInv, [Next]_vars, Queued, UNCHANGED devq,
         \A d \in Conn : Half(scenario.kinds, sent, bufp(d, "dev"), devq)
                         => Half(scenario.kinds, sent, bufp(d, "dev")', devq)
  PROVE  Queued'
<1> SUFFICES ASSUME NEW i \in 1 .. Len(devq)
             PROVE  \/ Whole(scenario.kinds, sent', devq[i])
                    \/ i = 1 /\ \E c \in Conn :
                                  Half(scenario.kinds, sent', bufp(c, "dev")', devq)
  BY SentTypes DEF Queued
<1>1. \A b : Half(scenario.kinds, sent, b, devq) => Half(scenario.kinds, sent', b, devq)
  BY SentTypes DEF Half
<1>2. CASE Whole(scenario.kinds, sent, devq[i])
  BY <1>2, SentTypes
<1>3. CASE i = 1 /\ \E c \in Conn : Half(scenario.kinds, sent, bufp(c, "dev"), devq)
  BY <1>1, <1>3
<1> QED  BY <1>2, <1>3 DEF Queued

LEMMA OutKept ==
  ASSUME TypeInv, [Next]_vars, OutWhole, UNCHANGED answered
  PROVE  OutWhole'
BY SentTypes DEF OutWhole

LEMMA TodoKept ==
  ASSUME TypeInv, [Next]_vars, TodoSent, todo' \subseteq todo
  PROVE  TodoSent'
<1> SUFFICES ASSUME NEW x \in todo PROVE x[2] \in 1 .. sent'[x[1]]
  BY DEF TodoSent
<1>1. x[1] \in Conn /\ x[2] \in 1 .. sent[x[1]]
  BY AnswerTypes DEF TodoSent
<1>2. \A d \in Conn : sent[d] <= sent'[d] /\ sent[d] \in Nat /\ sent'[d] \in Nat
  BY SentTypes DEF Numbers
<1> QED  BY <1>1, <1>2

\* Nothing happens to an answer; a write to a socket may begin, any may end, and a read may end
\* that has brought nothing.
LEMMA Quiet ==
  ASSUME TypeInv, [Next]_vars, AnswerState, UNCHANGED <<devq, todo, answered>>,
         \A d \in Conn :
           /\ bufs'[<<d, "dev">>] = bufs[<<d, "dev">>]
           /\ in_reading'[<<d, "dev">>] \in {in_reading[<<d, "dev">>], 0}
           /\ in_writing'[<<d, "sock">>] =>
                in_writing[<<d, "sock">>] \/ Unwritten(bufc(d, "dev"))
  PROVE  AnswerState'
<1>1. ASSUME NEW d \in Conn PROVE DevInv(d)'
  <2>1. PICK q, r, w, v : /\ q = bufs[<<d, "dev">>] /\ r = in_reading'[<<d, "dev">>]
                          /\ w = in_writing'[<<d, "sock">>] /\ v = devq
    OBVIOUS
  <2>2. PICK k, m, s, o : /\ k = scenario.kinds /\ m = sent
                          /\ s = in_reading[<<d, "dev">>] /\ o = in_writing[<<d, "sock">>]
    OBVIOUS
  <2>3. Dev(k, m, q, s, o, v) /\ r \in {s, 0} /\ (w => o \/ Unwritten(Head(q)))
    BY <2>1, <2>2 DEF AnswerState, DevInv, bufc
  <2>4. AsksOne(k, m, Last(q), r, v)
    BY <2>3 DEF Dev, AsksOne
  <2>5. Dev(k, m, q, r, w, v)
    BY <2>3, <2>4 DEF Dev
  <2>6. bufs'[<<d, "dev">>] = q /\ devq' = v
    BY <2>1
  <2> QED  BY <2>1, <2>2, <2>5, <2>6, DevLater
<1>2. Queued'
  <2>1. \A d \in Conn : bufp(d, "dev")' = bufp(d, "dev")
    BY DEF bufp
  <2> QED  BY <2>1, QueueKept DEF AnswerState
<1>3. OutWhole' /\ TodoSent'
  BY SMTT(30), OutKept, TodoKept DEF AnswerState
<1>4. ASSUME NEW p \in Place, NEW x \in Conn \X Numbers, Holds(p, x)' PROVE Holds(p, x)
  BY <1>4 DEF Holds, AtWork, InQueue, InBuffer, InSocket
<1>5. OnePlace' /\ NotBefore'
  BY <1>4, PlacesKept DEF AnswerState
<1> QED  BY <1>1, <1>2, <1>3, <1>5 DEF AnswerState
-----------------------------------------------------------------------------
(* The refresher and the producer.                                          *)

\* The devbuf of a stub that nothing happens to.
LEMMA DevKept ==
  ASSUME TypeInv, [Next]_vars, AnswerState, NEW d \in Conn, UNCHANGED devq,
         bufs'[<<d, "dev">>] = bufs[<<d, "dev">>],
         in_reading'[<<d, "dev">>] = in_reading[<<d, "dev">>],
         in_writing'[<<d, "sock">>] = in_writing[<<d, "sock">>]
  PROVE  DevInv(d)'
<1>1. PICK q, r, w, v : /\ q = bufs[<<d, "dev">>] /\ r = in_reading[<<d, "dev">>]
                        /\ w = in_writing[<<d, "sock">>] /\ v = devq
  OBVIOUS
<1>2. Dev(scenario.kinds, sent, q, r, w, v)
  BY <1>1 DEF AnswerState, DevInv
<1> QED  BY <1>1, <1>2, DevLater

\* bufc of a stub is dropped.
LEMMA DropAnswers ==
  ASSUME TypeInv, [Next]_vars, AnswerState, NEW c \in Conn, DropBufc(c, "dev")
  PROVE  AnswerState'
<1>0. PICK q, r, w, v : /\ q = bufs[<<c, "dev">>] /\ r = in_reading[<<c, "dev">>]
                        /\ w = in_writing[<<c, "sock">>] /\ v = devq
  OBVIOUS
<1>1. PICK t : t = Tail(q)
  OBVIOUS
<1>2. /\ <<c, "dev">> \in Conn \X Side /\ q \in Seq(Buffer) /\ q # <<>> /\ Shaped(q, r) /\ r \in Nat
      /\ bufs \in [Conn \X Side -> Seq(Buffer) \ {<<>>}]
  BY <1>0, DevTypes, AnswerTypes
<1>3. UNCHANGED <<in_reading, in_writing, devq, todo, answered>>
  BY DEF DropBufc, stub, history
<1>4. bufs' = [bufs EXCEPT ![<<c, "dev">>] = t]
  BY <1>0, <1>1 DEF DropBufc
<1>5. /\ bufs'[<<c, "dev">>] = t
      /\ \A d \in Conn : d # c => bufs'[<<d, "dev">>] = bufs[<<d, "dev">>]
  BY <1>2, <1>4, Keys
<1>6. Len(q) > 1 /\ Head(q).off = Len(Head(q).data)
  BY <1>0 DEF DropBufc, CanDrop, bufc
<1>7. /\ Len(t) = Len(q) - 1 /\ Len(q) \in Nat \ {0} /\ Last(t) = Last(q)
      /\ \A i \in 1 .. Len(t) : t[i] = q[i + 1]
  <2>1. Len(t) = Len(q) - 1 /\ Len(q) \in Nat \ {0} /\ Last(t) = Last(q)
    BY <1>1, <1>2, <1>6, Shorter
  <2>2. \A i \in 1 .. Len(t) : t[i] = q[i + 1]
    BY <1>1, <1>2, <1>6, Shorter
  <2> QED  BY <2>1, <2>2
<1>8. ASSUME NEW d \in Conn PROVE DevInv(d)'
  <2>1. CASE d = c
    <3>1. PICK k, m : k = scenario.kinds /\ m = sent
      OBVIOUS
    <3>2. Dev(k, m, q, r, w, v)
      BY <1>0, <3>1 DEF AnswerState, DevInv
    <3>3. Dev(k, m, t, r, w, v)
      BY <1>1, <1>2, <1>6, <3>2, DevDrop
    <3>4. /\ bufs'[<<d, "dev">>] = t /\ in_reading'[<<d, "dev">>] = r
          /\ in_writing'[<<d, "sock">>] = w /\ devq' = v
      BY <1>0, <1>3, <1>5, <2>1
    <3> QED  BY <3>1, <3>3, <3>4, DevLater
  <2>2. CASE d # c
    BY <1>3, <1>5, <2>2, DevKept
  <2> QED  BY <2>1, <2>2
<1>9. Queued'
  <2>1. \A d \in Conn : bufp(d, "dev")' = bufp(d, "dev")
    BY <1>0, <1>5, <1>7 DEF bufp
  <2> QED  BY <1>3, <2>1, QueueKept DEF AnswerState
<1>10. OutWhole' /\ TodoSent'
  BY <1>3, OutKept, TodoKept DEF AnswerState
<1>11. OnePlace' /\ NotBefore'
  <2>1. PICK g : g = [p \in Place |-> IF p[1] = "buffer" /\ p[2] = c
                                      THEN <<"buffer", c, p[3] + 1>> ELSE p]
    OBVIOUS
  <2>2. ASSUME NEW p \in Place, ~(p[1] = "buffer" /\ p[2] = c)
        PROVE  g[p] = p /\ \A x \in Conn \X Numbers : Holds(p, x)' => Holds(p, x)
    <3>1. g[p] = p
      BY <2>1, <2>2
    <3>2. ASSUME NEW x \in Conn \X Numbers, Holds(p, x)' PROVE Holds(p, x)
      BY <1>3, <1>5, <2>2, <3>2 DEF Holds, AtWork, InQueue, InBuffer, InSocket
    <3> QED  BY <3>1, <3>2
  <2>3. ASSUME NEW p \in Place, p[1] = "buffer" /\ p[2] = c
        PROVE  /\ g[p] = <<"buffer", c, p[3] + 1>> /\ g[p] \in Place /\ p[3] \in Nat
               /\ p = <<"buffer", c, p[3]>>
               /\ \A x \in Conn \X Numbers : Holds(p, x)' => Holds(g[p], x)
    <3>1. g[p] = <<"buffer", c, p[3] + 1>>
      BY <2>1, <2>3
    <3>2. p[3] \in Nat /\ p = <<"buffer", c, p[3]>>
      BY <2>3, PlaceIs
    <3>3. g[p] \in Place
      <4>1. PICK j : j = p[3] + 1
        OBVIOUS
      <4>2. j \in Nat
        BY <3>2, <4>1
      <4>3. <<"buffer", c, j>> \in Place
        BY <4>2, Places
      <4> QED  BY <3>1, <4>1, <4>3
    <3>4. ASSUME NEW x \in Conn \X Numbers, Holds(p, x)' PROVE Holds(g[p], x)
      <4>1. InBuffer(p, x)'
        BY <2>3, <3>4 DEF Holds, AtWork, InQueue, InSocket
      <4>2. PICK i : i = p[3]
        OBVIOUS
      <4>3. i \in 1 .. Len(t) /\ t[i].data # <<>> /\ t[i].off = 0 /\ t[i].data[1] = <<x[1], x[2], 1>>
        BY <1>5, <2>3, <4>1, <4>2 DEF InBuffer
      <4>4. PICK j : j = i + 1
        OBVIOUS
      <4>5. j \in 1 .. Len(q) /\ q[j] = t[i]
        BY <1>7, <4>3, <4>4
      <4>6. g[p] = <<"buffer", c, j>>
        BY <3>1, <4>2, <4>4
      <4>7. InBuffer(<<"buffer", c, j>>, x)
        BY <1>0, <4>3, <4>5 DEF InBuffer
      <4> QED  BY <4>6, <4>7 DEF Holds
    <3> QED  BY <3>1, <3>2, <3>3, <3>4
  <2>4. \A p \in Place : \A x \in Conn \X Numbers :
          Holds(p, x)' => g[p] \in Place /\ Holds(g[p], x)
    BY <2>2, <2>3
  <2>5. ASSUME NEW p \in Place, NEW s \in Place, NEW x \in Conn \X Numbers,
               Holds(p, x)', Holds(s, x)', g[p] = g[s]
        PROVE  p = s
    <3>1. CASE (p[1] = "buffer" /\ p[2] = c) <=> (s[1] = "buffer" /\ s[2] = c)
      <4>1. CASE p[1] = "buffer" /\ p[2] = c
        <5>1. p[3] + 1 = s[3] + 1 /\ p[3] \in Nat /\ s[3] \in Nat
          BY <2>3, <2>5, <3>1, <4>1
        <5>2. p[3] = s[3]
          BY <5>1
        <5> QED  BY <2>3, <3>1, <4>1, <5>2
      <4>2. CASE ~(p[1] = "buffer" /\ p[2] = c)
        BY <2>2, <2>5, <3>1, <4>2
      <4> QED  BY <4>1, <4>2
    <3>2. CASE ~((p[1] = "buffer" /\ p[2] = c) <=> (s[1] = "buffer" /\ s[2] = c))
      <4>1. ASSUME NEW a \in Place, a[1] = "buffer" /\ a[2] = c PROVE g[a][1] = "buffer" /\ g[a][2] = c
        BY <2>3, <4>1
      <4>2. ASSUME NEW a \in Place, ~(a[1] = "buffer" /\ a[2] = c)
            PROVE  ~(g[a][1] = "buffer" /\ g[a][2] = c)
        BY <2>2, <4>2
      <4> QED  BY <2>5, <3>2, <4>1, <4>2
    <3> QED  BY <3>1, <3>2
  <2> QED  BY <2>4, <2>5, PlacesMoved DEF AnswerState
<1> QED  BY <1>8, <1>9, <1>10, <1>11 DEF AnswerState

\* bufp of a stub gets a successor.
LEMMA NewAnswers ==
  ASSUME TypeInv, [Next]_vars, AnswerState, NEW c \in Conn, NewBufp(c, "dev"),
         ~UNCHANGED bufs
  PROVE  AnswerState'
<1>0. PICK q, r, w, v : /\ q = bufs[<<c, "dev">>] /\ r = in_reading[<<c, "dev">>]
                        /\ w = in_writing[<<c, "sock">>] /\ v = devq
  OBVIOUS
<1>1. PICK t : t = Append(q, NewBuffer)
  OBVIOUS
<1>2. /\ <<c, "dev">> \in Conn \X Side /\ q \in Seq(Buffer) /\ q # <<>> /\ Shaped(q, r) /\ r \in Nat
      /\ bufs \in [Conn \X Side -> Seq(Buffer) \ {<<>>}]
  BY <1>0, DevTypes, AnswerTypes
<1>3. UNCHANGED <<in_reading, in_writing, devq, todo, answered>>
  BY DEF NewBufp, stub, history
<1>4. bufs' = [bufs EXCEPT ![<<c, "dev">>] = t]
  BY <1>0, <1>1 DEF NewBufp
<1>5. /\ bufs'[<<c, "dev">>] = t
      /\ \A d \in Conn : d # c => bufs'[<<d, "dev">>] = bufs[<<d, "dev">>]
  BY <1>2, <1>4, Keys
<1>6. Last(q).step = 3
  BY <1>0 DEF NewBufp, bufp
<1>7. /\ Len(t) = Len(q) + 1 /\ Len(q) \in Nat \ {0}
      /\ \A i \in 1 .. Len(t) : t[i] = IF i = Len(t) THEN NewBuffer ELSE q[i]
  <2>1. Len(t) = Len(q) + 1 /\ Len(q) \in Nat \ {0}
    BY <1>1, <1>2, NewIsSound, Longer
  <2>2. \A i \in 1 .. Len(t) : t[i] = IF i = Len(t) THEN NewBuffer ELSE q[i]
    BY <1>1, <1>2, NewIsSound, Longer
  <2> QED  BY <2>1, <2>2
<1>8. ASSUME NEW d \in Conn PROVE DevInv(d)'
  <2>1. CASE d = c
    <3>1. PICK k, m : k = scenario.kinds /\ m = sent
      OBVIOUS
    <3>2. Dev(k, m, q, r, w, v)
      BY <1>0, <3>1 DEF AnswerState, DevInv
    <3>3. Dev(k, m, t, r, w, v)
      BY <1>1, <1>2, <1>6, <3>2, DevNew
    <3>4. /\ bufs'[<<d, "dev">>] = t /\ in_reading'[<<d, "dev">>] = r
          /\ in_writing'[<<d, "sock">>] = w /\ devq' = v
      BY <1>0, <1>3, <1>5, <2>1
    <3> QED  BY <3>1, <3>3, <3>4, DevLater
  <2>2. CASE d # c
    BY <1>3, <1>5, <2>2, DevKept
  <2> QED  BY <2>1, <2>2
<1>9. Queued'
  <2>1. ~Half(scenario.kinds, sent, bufp(c, "dev"), devq)
    BY <1>0, <1>6 DEF Half, bufp
  <2>2. \A d \in Conn : d # c => bufp(d, "dev")' = bufp(d, "dev")
    BY <1>5 DEF bufp
  <2> QED  BY <1>3, <2>1, <2>2, QueueKept DEF AnswerState
<1>10. OutWhole' /\ TodoSent'
  BY <1>3, OutKept, TodoKept DEF AnswerState
<1>11. ASSUME NEW p \in Place, NEW x \in Conn \X Numbers, Holds(p, x)' PROVE Holds(p, x)
  <2>1. CASE p[1] = "buffer" /\ p[2] = c
    <3>1. InBuffer(p, x)'
      BY <1>11, <2>1 DEF Holds, AtWork, InQueue, InSocket
    <3>2. PICK i : i = p[3]
      OBVIOUS
    <3>3. i \in 1 .. Len(t) /\ t[i].data # <<>> /\ t[i].off = 0 /\ t[i].data[1] = <<x[1], x[2], 1>>
      BY <1>5, <2>1, <3>1, <3>2 DEF InBuffer
    <3>4. i # Len(t)
      BY <1>7, <3>3 DEF NewBuffer
    <3>5. i \in 1 .. Len(q) /\ q[i] = t[i]
      BY <1>7, <3>3, <3>4
    <3>6. InBuffer(p, x)
      BY SMTT(30), <1>0, <2>1, <3>2, <3>3, <3>5 DEF InBuffer
    <3> QED  BY <3>6 DEF Holds
  <2>2. CASE ~(p[1] = "buffer" /\ p[2] = c)
    BY <1>3, <1>5, <1>11, <2>2 DEF Holds, AtWork, InQueue, InBuffer, InSocket
  <2> QED  BY <2>1, <2>2
<1>12. OnePlace' /\ NotBefore'
  BY <1>11, PlacesKept DEF AnswerState
<1> QED  BY <1>8, <1>9, <1>10, <1>12 DEF AnswerState

LEMMA RefresherAnswers ==
  ASSUME TypeInv, [Next]_vars, AnswerState, NEW c \in Conn, RefresherThread(c)
  PROVE  AnswerState'
<1>0. /\ UNCHANGED <<in_reading, in_writing, devq, todo, answered>>
      /\ bufs \in [Conn \X Side -> Seq(Buffer) \ {<<>>}]
  <2>1. UNCHANGED <<in_reading, in_writing, devq, todo, answered>>
    BY DEF RefresherThread, DropBufc, NewBufp, RefresherEnds, threads, devbuf, stub, history
  <2> QED  BY <2>1, AnswerTypes
<1>1. ASSUME \A d \in Conn : bufs'[<<d, "dev">>] = bufs[<<d, "dev">>] PROVE AnswerState'
  BY <1>0, <1>1, Quiet
<1>2. CASE DropBufc(c, "sock") \/ NewBufp(c, "sock") \/ UNCHANGED bufs
  <2>1. UNCHANGED bufs \/ \E x : bufs' = [bufs EXCEPT ![<<c, "sock">>] = x]
    BY <1>2 DEF DropBufc, NewBufp
  <2>2. \A d \in Conn : bufs'[<<d, "dev">>] = bufs[<<d, "dev">>]
    BY <1>0, <2>1, Keys
  <2> QED  BY <1>1, <2>2
<1>3. CASE DropBufc(c, "dev")
  BY <1>3, DropAnswers
<1>4. CASE NewBufp(c, "dev") /\ ~UNCHANGED bufs
  BY <1>4, NewAnswers
<1>5. CASE RefresherEnds(c)
  BY <1>2, <1>5 DEF RefresherEnds, devbuf
<1> QED  BY <1>2, <1>3, <1>4, <1>5 DEF RefresherThread, Side

\* The producer has written bufc to the socket.
LEMMA WrittenAnswers ==
  ASSUME TypeInv, [Next]_vars, AnswerState, NEW c \in Conn, ProducerApc(c),
         ~UNCHANGED answered
  PROVE  AnswerState'
<1>0. PICK q, r, v : q = bufs[<<c, "dev">>] /\ r = in_reading[<<c, "dev">>] /\ v = devq
  OBVIOUS
<1>1. PICK t : t = [q EXCEPT ![1].off = Len(q[1].data)]
  OBVIOUS
<1>2. /\ <<c, "dev">> \in Conn \X Side /\ <<c, "sock">> \in Conn \X Side
      /\ q \in Seq(Buffer) /\ q # <<>> /\ Shaped(q, r) /\ r \in Nat
      /\ Head(q) = q[1] /\ Head(q) \in Buffer /\ Last(q) = q[Len(q)] /\ Len(q) \in Nat \ {0}
      /\ bufs \in [Conn \X Side -> Seq(Buffer) \ {<<>>}]
      /\ in_writing \in [Conn \X Side -> BOOLEAN]
      /\ answered \in [Conn -> Seq(Seq(Unit))]
  BY <1>0, DevTypes, AnswerTypes
<1>3. PICK b : b = q[1]
  OBVIOUS
<1>4. /\ UNCHANGED <<in_reading, devq, todo>>
      /\ in_writing[<<c, "sock">>]
      /\ in_writing' = [in_writing EXCEPT ![<<c, "sock">>] = FALSE]
  BY DEF ProducerApc, stub
<1>5. bufs' = Written(c, "dev") /\ answered' = [answered EXCEPT ![c] = Append(@, b.data)]
  <2>1. bufc(c, "dev") = b
    BY <1>0, <1>2, <1>3 DEF bufc
  <2> QED  BY <2>1 DEF ProducerApc
<1>6. bufs' = [bufs EXCEPT ![<<c, "dev">>] = t]
  BY <1>0, <1>1, <1>5 DEF Written
<1>7. /\ bufs'[<<c, "dev">>] = t
      /\ \A d \in Conn : d # c => bufs'[<<d, "dev">>] = bufs[<<d, "dev">>]
  BY <1>2, <1>6, Keys
<1>8. /\ in_writing'[<<c, "sock">>] = FALSE /\ in_writing[<<c, "sock">>] = TRUE
      /\ \A d \in Conn : d # c => in_writing'[<<d, "sock">>] = in_writing[<<d, "sock">>]
  BY <1>2, <1>4, Keys
<1>9. PICK k, m : k = scenario.kinds /\ m = sent
  OBVIOUS
<1>10. Dev(k, m, q, r, TRUE, v)
  BY <1>0, <1>8, <1>9 DEF AnswerState, DevInv
<1>11. b.step = 3 /\ Whole(k, m, b.data) /\ b \in Buffer /\ b.off = 0
  <2>1. AnswerEach(k, m, q) /\ Unwritten(b)
    BY <1>2, <1>3, <1>10 DEF Dev
  <2>2. 1 \in 1 .. Len(q)
    BY <1>2
  <2>3. b.step = 3 /\ Len(b.data) > b.off /\ b \in Buffer
    BY <1>2, <1>3, <2>1 DEF Unwritten
  <2>4. /\ q[1].step = 3 => Whole(k, m, q[1].data)
        /\ q[1].off # 0 => q[1].off = Len(q[1].data)
    BY <2>1, <2>2 DEF AnswerEach
  <2>5. b.off = 0
    <3>1. Len(b.data) \in Nat
      BY <2>3 DEF Buffer
    <3> QED  BY <1>3, <2>3, <2>4, <3>1
  <2> QED  BY <1>3, <2>3, <2>4, <2>5
<1>12. /\ b.data \in Seq(Unit) /\ b.data # <<>> /\ Len(b.data) \in Nat /\ 0 < Len(b.data)
       /\ m \in [Conn -> Numbers \cup {0}]
  <2>1. m \in [Conn -> Numbers \cup {0}]
    BY <1>9, SentTypes
  <2>2. PICK y : y = b.data
    OBVIOUS
  <2>3. y \in Seq(Unit) /\ y # <<>> /\ Len(y) \in Nat /\ 0 < Len(y)
    BY <1>11, <2>1, <2>2, WholeAnswer
  <2> QED  BY <2>1, <2>2, <2>3
<1>13. PICK h : h = [b EXCEPT !.off = Len(b.data)]
  OBVIOUS
<1>14. h \in Buffer /\ h.step = b.step /\ h.data = b.data /\ h.off # 0
  <2>1. Sound(b)
    BY <1>2, <1>3, Ends
  <2>2. Len(b.data) \in 0 .. HdrLen + 2
    BY <1>12, <2>1, ConstantsAssumption DEF Sound
  <2> QED  BY <1>11, <1>12, <1>13, <2>2 DEF Buffer
<1>15. /\ Len(t) = Len(q) /\ Len(q) \in Nat \ {0}
       /\ \A i \in 1 .. Len(q) : t[i] = IF i = 1 THEN h ELSE q[i]
       /\ Last(t) = IF Len(q) = 1 THEN h ELSE Last(q)
  <2>1. t = [q EXCEPT ![1] = h]
    BY <1>1, <1>3, <1>13
  <2>2. Len(t) = Len(q) /\ Len(q) \in Nat \ {0}
    BY <1>2, <1>14, <2>1, FirstReplaced
  <2>3. \A i \in 1 .. Len(q) : t[i] = IF i = 1 THEN h ELSE q[i]
    BY <1>2, <1>14, <2>1, FirstReplaced
  <2>4. Last(t) = t[Len(q)] /\ Len(q) \in 1 .. Len(q)
    BY <1>2, <2>2 DEF Last
  <2> QED  BY <1>2, <2>2, <2>3, <2>4
<1>16. ASSUME NEW d \in Conn PROVE DevInv(d)'
  <2>1. CASE d = c
    <3>1. Dev(k, m, t, r, FALSE, v)
      BY <1>1, <1>2, <1>10, DevWritten
    <3>2. /\ bufs'[<<d, "dev">>] = t /\ in_reading'[<<d, "dev">>] = r
          /\ in_writing'[<<d, "sock">>] = FALSE /\ devq' = v
      BY <1>0, <1>4, <1>7, <1>8, <2>1
    <3>3. Dev(scenario.kinds, sent, t, r, FALSE, v)
      BY <1>9, <3>1
    <3> QED  BY <3>2, <3>3, DevLater
  <2>2. CASE d # c
    BY <1>4, <1>7, <1>8, <2>2, DevKept
  <2> QED  BY <2>1, <2>2
<1>17. Queued'
  <2>1. ASSUME NEW d \in Conn, Half(scenario.kinds, sent, bufp(d, "dev"), devq)
        PROVE  Half(scenario.kinds, sent, bufp(d, "dev")', devq)
    <3>1. CASE d # c
      BY <1>7, <2>1, <3>1 DEF bufp
    <3>2. CASE d = c
      <4>1. Half(k, m, Last(q), v)
        BY <1>0, <1>9, <2>1, <3>2 DEF bufp
      <4>2. Last(t).step = Last(q).step /\ Last(t).data = Last(q).data
        BY <1>2, <1>3, <1>14, <1>15
      <4>3. Half(k, m, Last(t), v)
        BY <4>1, <4>2 DEF Half
      <4> QED  BY <1>0, <1>7, <1>9, <3>2, <4>3 DEF bufp
    <3> QED  BY <3>1, <3>2
  <2> QED  BY <1>4, <2>1, QueueKept DEF AnswerState
<1>18. PICK a, z : a = answered[c] /\ z = Append(a, b.data)
  OBVIOUS
<1>19. /\ Len(z) = Len(a) + 1 /\ Len(a) \in Nat
       /\ \A i \in 1 .. Len(z) : z[i] = IF i = Len(z) THEN b.data ELSE a[i]
       /\ answered'[c] = z
       /\ \A d \in Conn : d # c => answered'[d] = answered[d]
  <2>1. a \in Seq(Seq(Unit))
    BY <1>2, <1>18
  <2>2. Len(z) = Len(a) + 1 /\ Len(a) \in Nat
    BY <1>12, <1>18, <2>1, AppendProperties
  <2>3. (\A i \in 1 .. Len(a) : z[i] = a[i]) /\ z[Len(a) + 1] = b.data
    BY <1>12, <1>18, <2>1, AppendProperties
  <2>4. \A i \in 1 .. Len(z) : z[i] = IF i = Len(z) THEN b.data ELSE a[i]
    BY <2>2, <2>3
  <2>5. answered'[c] = z /\ \A d \in Conn : d # c => answered'[d] = answered[d]
    BY <1>2, <1>5, <1>18
  <2> QED  BY <2>2, <2>4, <2>5
<1>20. OutWhole'
  <2> SUFFICES ASSUME NEW d \in Conn, NEW i \in 1 .. Len(answered'[d])
               PROVE  Whole(scenario.kinds, sent', answered'[d][i])
    BY SentTypes DEF OutWhole
  <2>1. Whole(scenario.kinds, sent, answered'[d][i])
    <3>1. CASE d # c
      BY <1>19, <3>1 DEF AnswerState, OutWhole
    <3>2. CASE d = c /\ i = Len(z)
      BY <1>9, <1>11, <1>19, <3>2
    <3>3. CASE d = c /\ i # Len(z)
      <4>1. i \in 1 .. Len(a) /\ answered'[d][i] = a[i]
        BY <1>19, <3>3
      <4> QED  BY <1>18, <3>3, <4>1 DEF AnswerState, OutWhole
    <3> QED  BY <3>1, <3>2, <3>3
  <2> QED  BY <2>1, SentTypes
<1>21. TodoSent'
  BY <1>4, TodoKept DEF AnswerState
<1>22. PICK new, old : new = <<"out", c, Len(z)>> /\ old = <<"buffer", c, 1>>
  OBVIOUS
<1>23. /\ old \in Place /\ new[1] = "out" /\ new[2] = c /\ new[3] = Len(z)
       /\ old[1] = "buffer" /\ old[2] = c /\ old[3] = 1
  BY <1>22, Places
<1>24. ASSUME NEW p \in Place, p # new, NEW x \in Conn \X Numbers, Holds(p, x)'
       PROVE  Holds(p, x) /\ p # old
  <2>1. CASE p[1] = "buffer" /\ p[2] = c
    <3>1. InBuffer(p, x)'
      BY <1>24, <2>1 DEF Holds, AtWork, InQueue, InSocket
    <3>2. PICK i : i = p[3]
      OBVIOUS
    <3>3. i \in 1 .. Len(t) /\ t[i].data # <<>> /\ t[i].off = 0 /\ t[i].data[1] = <<x[1], x[2], 1>>
      BY <1>7, <2>1, <3>1, <3>2 DEF InBuffer
    <3>4. i # 1
      BY <1>14, <1>15, <3>3
    <3>5. i \in 1 .. Len(q) /\ q[i] = t[i]
      BY <1>15, <3>3, <3>4
    <3>6. InBuffer(p, x)
      BY <1>0, <2>1, <3>2, <3>3, <3>5 DEF InBuffer
    <3> QED  BY <1>23, <3>2, <3>4, <3>6 DEF Holds
  <2>2. CASE p[1] = "out" /\ p[2] = c
    <3>1. InSocket(p, x)'
      BY <1>24, <2>2 DEF Holds, AtWork, InQueue, InBuffer
    <3>2. PICK i : i = p[3]
      OBVIOUS
    <3>3. i \in 1 .. Len(z) /\ z[i][1] = <<x[1], x[2], 1>>
      BY <1>19, <2>2, <3>1, <3>2 DEF InSocket
    <3>4. i # Len(z)
      <4>1. p = <<"out", c, i>>
        BY <2>2, <3>2, PlaceIs
      <4> QED  BY <1>22, <1>24, <4>1
    <3>5. i \in 1 .. Len(a) /\ z[i] = a[i]
      BY <1>19, <3>3, <3>4
    <3>6. InSocket(p, x)
      BY <1>18, <2>2, <3>2, <3>3, <3>5 DEF InSocket
    <3> QED  BY <1>23, <2>2, <3>6 DEF Holds
  <2>3. CASE ~(p[1] \in {"buffer", "out"} /\ p[2] = c)
    <3>1. Holds(p, x)
      BY <1>4, <1>7, <1>19, <1>24, <2>3 DEF Holds, AtWork, InQueue, InBuffer, InSocket
    <3> QED  BY SMTT(30), <1>23, <2>3, <3>1
  <2> QED  BY <2>1, <2>2, <2>3
<1>25. ASSUME NEW x \in Conn \X Numbers, Holds(new, x)' PROVE Holds(old, x)
  <2>1. InSocket(new, x)'
    BY <1>23, <1>25 DEF Holds, AtWork, InQueue, InBuffer
  <2>2. z[Len(z)][1] = <<x[1], x[2], 1>>
    BY <1>19, <1>23, <2>1 DEF InSocket
  <2>3. b.data[1] = <<x[1], x[2], 1>>
    <3>1. Len(z) \in 1 .. Len(z)
      BY <1>19
    <3> QED  BY <1>19, <2>2, <3>1
  <2>4. 1 \in 1 .. Len(q)
    BY <1>15
  <2>5. InBuffer(old, x)
    BY <1>0, <1>3, <1>11, <1>12, <1>23, <2>3, <2>4 DEF InBuffer
  <2> QED  BY <2>5 DEF Holds
<1>26. OnePlace' /\ NotBefore'
  <2>1. PICK g : g = [p \in Place |-> IF p = new THEN old ELSE p]
    OBVIOUS
  <2>2. \A p \in Place : g[p] = IF p = new THEN old ELSE p
    BY <2>1
  <2>3. \A p \in Place : \A x \in Conn \X Numbers :
          Holds(p, x)' => g[p] \in Place /\ Holds(g[p], x)
    BY <1>23, <1>24, <1>25, <2>2
  <2>4. \A p, s \in Place : \A x \in Conn \X Numbers :
          Holds(p, x)' /\ Holds(s, x)' /\ g[p] = g[s] => p = s
    BY <1>24, <2>2
  <2> QED  BY <2>3, <2>4, PlacesMoved DEF AnswerState
<1> QED  BY <1>16, <1>17, <1>20, <1>21, <1>26 DEF AnswerState

LEMMA ProducerAnswers ==
  ASSUME TypeInv, [Next]_vars, AnswerState, NEW c \in Conn, ProducerThread(c)
  PROVE  AnswerState'
<1>0. UNCHANGED <<in_reading, devq, todo>> /\ in_writing \in [Conn \X Side -> BOOLEAN]
  <2>1. UNCHANGED <<in_reading, devq, todo>>
    BY DEF ProducerThread, ProducerTurn, ProducerWake, ProducerApc, devbuf, stub
  <2> QED  BY <2>1, AnswerTypes
<1>1. CASE ProducerTurn(c) \/ ProducerWake(c)
  <2>1. /\ UNCHANGED <<bufs, answered>>
        /\ \/ UNCHANGED in_writing
           \/ \E z : /\ in_writing' = [in_writing EXCEPT ![<<c, "sock">>] = z]
                     /\ z => in_writing[<<c, "sock">>] \/ CanWrite(c, "sock")
    <3> HIDE DEF CanWrite
    <3> QED  BY <1>1 DEF ProducerTurn, ProducerWake, devbuf, history
  <2>2. ASSUME NEW d \in Conn
        PROVE  in_writing'[<<d, "sock">>] => in_writing[<<d, "sock">>] \/ Unwritten(bufc(d, "dev"))
    <3>1. CanWrite(c, "sock") => Unwritten(bufc(c, "dev"))
      BY Keys DEF CanWrite
    <3>2. <<c, "sock">> \in Conn \X Side /\ <<d, "sock">> \in Conn \X Side
      BY Keys
    <3>3. CASE UNCHANGED in_writing
      BY <3>3
    <3>4. CASE \E z : /\ in_writing' = [in_writing EXCEPT ![<<c, "sock">>] = z]
                      /\ z => in_writing[<<c, "sock">>] \/ CanWrite(c, "sock")
      <4>1. PICK z : /\ in_writing' = [in_writing EXCEPT ![<<c, "sock">>] = z]
                     /\ z => in_writing[<<c, "sock">>] \/ CanWrite(c, "sock")
        BY <3>4
      <4>2. CASE d = c
        <5>1. in_writing'[<<d, "sock">>] = z
          BY <1>0, <3>2, <4>1, <4>2
        <5> QED  BY <3>1, <4>1, <4>2, <5>1
      <4>3. CASE d # c
        BY <1>0, <3>2, <4>1, <4>3
      <4> QED  BY <4>2, <4>3
    <3> QED  BY <2>1, <3>3, <3>4
  <2> QED  BY <1>0, <2>1, <2>2, Quiet
<1>2. CASE ProducerApc(c) /\ UNCHANGED answered
  <2>1. in_writing' = [in_writing EXCEPT ![<<c, "sock">>] = FALSE]
    BY <1>2 DEF ProducerApc
  <2>2. \A d \in Conn : in_writing'[<<d, "sock">>] => in_writing[<<d, "sock">>]
    BY <1>0, <2>1, Keys
  <2>3. UNCHANGED bufs
    <3> SUFFICES ASSUME answered' = [answered EXCEPT ![c] = Append(@, bufc(c, "dev").data)]
                 PROVE  FALSE
      BY <1>2 DEF ProducerApc
    <3>1. PICK a, y : a = answered[c] /\ y = bufc(c, "dev").data
      OBVIOUS
    <3>2. a \in Seq(Seq(Unit)) /\ y \in Seq(Unit)
      <4>1. answered \in [Conn -> Seq(Seq(Unit))] /\ "dev" \in Side
        BY AnswerTypes, Keys
      <4>2. bufc(c, "dev").data \in Seq(Unit)
        BY <4>1, Bufs
      <4> QED  BY <3>1, <4>1, <4>2
    <3>3. Append(a, y) = a
      BY <1>2, <3>1, AnswerTypes
    <3>4. Len(Append(a, y)) = Len(a) + 1 /\ Len(a) \in Nat
      BY <3>2, AppendProperties
    <3> QED  BY <3>3, <3>4
  <2> QED  BY <1>0, <1>2, <2>2, <2>3, Quiet
<1>3. CASE ProducerApc(c) /\ ~UNCHANGED answered
  BY <1>3, WrittenAnswers
<1> QED  BY <1>1, <1>2, <1>3 DEF ProducerThread
-----------------------------------------------------------------------------
(* The stub.                                                                *)

LEMMA MessageIs ==
  ASSUME NEW d, NEW n
  PROVE  Message(d, n, FALSE) = Answer(d, scenario.kinds[d], n)
BY Zenon DEF Message, Answer, AnsLen, KindOf

LEMMA StubAnswers ==
  ASSUME TypeInv, [Next]_vars, AnswerState, StubAnswer
  PROVE  AnswerState'
<1>1. PICK x \in todo : /\ ~gone /\ todo' = todo \ {x}
                        /\ devq' = Append(devq, Message(x[1], x[2], FALSE))
                        /\ UNCHANGED <<devbuf, gone, history>>
  BY DEF StubAnswer
<1>2. PICK d, n, y, k, m : /\ d = x[1] /\ n = x[2] /\ y = Answer(d, k[d], n)
                           /\ k = scenario.kinds /\ m = sent
  OBVIOUS
<1>3. /\ x = <<d, n>> /\ x \in Conn \X Numbers /\ d \in Conn /\ n \in Numbers /\ n \in 1 .. m[d]
      /\ m \in [Conn -> Numbers \cup {0}] /\ devq \in Seq(Seq(Unit))
  <2>1. todo \subseteq Conn \X Numbers /\ m \in [Conn -> Numbers \cup {0}] /\ devq \in Seq(Seq(Unit))
    BY <1>2, AnswerTypes
  <2>2. x \in Conn \X Numbers /\ n \in 1 .. m[d]
    BY <1>2, <2>1 DEF AnswerState, TodoSent
  <2>3. x = <<d, n>> /\ d \in Conn /\ n \in Numbers
    BY <1>2, <2>2
  <2> QED  BY <2>1, <2>2, <2>3
<1>4. Whole(k, m, y)
  BY <1>2, <1>3 DEF Whole
<1>5. y \in Seq(Unit) /\ y[1] = <<d, n, 1>>
  <2>1. PICK s : s = k[d]
    OBVIOUS
  <2>2. /\ y \in Seq(Unit) /\ AnsLen(s, n) \in HdrLen .. HdrLen + 2
        /\ \A i \in 1 .. AnsLen(s, n) : y[i] = <<d, n, i>>
    BY <1>2, <1>3, <2>1, Answers
  <2>3. 1 \in 1 .. AnsLen(s, n)
    BY <2>2, ConstantsAssumption
  <2> QED  BY <2>2, <2>3
<1>6. PICK v, u : v = devq /\ u = Append(v, y)
  OBVIOUS
<1>7. devq' = u /\ v \in Seq(Seq(Unit))
  <2>1. Message(x[1], x[2], FALSE) = y
    BY <1>2, MessageIs
  <2> QED  BY <1>1, <1>3, <1>6, <2>1
<1>8. /\ Len(u) = Len(v) + 1 /\ Len(v) \in Nat
      /\ \A i \in 1 .. Len(u) : u[i] = IF i = Len(u) THEN y ELSE v[i]
  <2>1. Len(u) = Len(v) + 1 /\ Len(v) \in Nat
    BY <1>5, <1>6, <1>7, AppendProperties
  <2>2. (\A i \in 1 .. Len(v) : u[i] = v[i]) /\ u[Len(v) + 1] = y
    BY <1>5, <1>6, <1>7, AppendProperties
  <2> QED  BY <2>1, <2>2
<1>9. /\ \A b : Half(k, m, b, v) => Half(k, m, b, u)
      /\ \A q, r, w : Dev(k, m, q, r, w, v) => Dev(k, m, q, r, w, u)
  BY <1>5, <1>6, <1>7, DevQueue
<1>10. UNCHANGED <<bufs, in_reading, in_writing, answered>>
  BY <1>1 DEF devbuf, history
<1>11. ASSUME NEW c \in Conn PROVE DevInv(c)'
  <2>1. PICK q, r, w : /\ q = bufs[<<c, "dev">>] /\ r = in_reading[<<c, "dev">>]
                       /\ w = in_writing[<<c, "sock">>]
    OBVIOUS
  <2>2. Dev(k, m, q, r, w, v)
    BY <1>2, <1>6, <2>1 DEF AnswerState, DevInv
  <2>3. Dev(scenario.kinds, sent, q, r, w, u)
    BY <1>2, <1>9, <2>2
  <2>4. /\ bufs'[<<c, "dev">>] = q /\ in_reading'[<<c, "dev">>] = r
        /\ in_writing'[<<c, "sock">>] = w /\ devq' = u
    BY <1>7, <1>10, <2>1
  <2> QED  BY <2>3, <2>4, DevLater
<1>12. Queued'
  <2> SUFFICES ASSUME NEW i \in 1 .. Len(u)
               PROVE  \/ Whole(k, sent', u[i])
                      \/ i = 1 /\ \E c \in Conn : Half(k, sent', bufp(c, "dev")', u)
    BY <1>2, <1>7, SentTypes DEF Queued
  <2>0. \A a : Whole(k, m, a) => Whole(k, sent', a)
    BY <1>2, SentTypes
  <2>1. CASE i = Len(u)
    BY <1>4, <1>8, <2>0, <2>1
  <2>2. CASE i # Len(u)
    <3>1. i \in 1 .. Len(v) /\ u[i] = v[i]
      BY <1>8, <2>2
    <3>2. CASE Whole(k, m, v[i])
      BY <2>0, <3>1, <3>2
    <3>3. CASE i = 1 /\ \E c \in Conn : Half(k, m, bufp(c, "dev"), v)
      <4>1. PICK c \in Conn : Half(k, m, bufp(c, "dev"), v)
        BY <3>3
      <4>2. PICK b : b = bufp(c, "dev")
        OBVIOUS
      <4>3. Half(k, m, b, u)
        BY <1>9, <4>1, <4>2
      <4>4. Half(k, sent', b, u)
        BY <2>0, <4>3 DEF Half
      <4>5. bufp(c, "dev")' = b
        BY <1>10, <4>2 DEF bufp
      <4> QED  BY <3>3, <4>4, <4>5
    <3> QED  BY <1>2, <1>6, <3>1, <3>2, <3>3 DEF AnswerState, Queued
  <2> QED  BY <2>1, <2>2
<1>13. OutWhole' /\ TodoSent'
  BY <1>1, <1>10, OutKept, TodoKept DEF AnswerState
<1>14. PICK new, old : new = <<"queue", NoConn, Len(u)>> /\ old = <<"todo", NoConn, 0>>
  OBVIOUS
<1>15. /\ new[1] = "queue" /\ new[2] = NoConn /\ new[3] = Len(u)
       /\ old \in Place /\ old[1] = "todo" /\ Holds(old, x)
  BY <1>14, Places DEF Holds, AtWork
<1>16. ASSUME NEW p \in Place, NEW z \in Conn \X Numbers, Holds(p, z)'
       PROVE  Holds(p, z) \/ (p = new /\ z = x)
  <2>1. CASE p[1] = "queue"
    <3>1. InQueue(p, z)'
      BY <1>16, <2>1 DEF Holds, AtWork, InBuffer, InSocket
    <3>2. PICK i : i = p[3]
      OBVIOUS
    <3>3. p[2] = NoConn /\ i \in 1 .. Len(u) /\ u[i][1] = <<z[1], z[2], 1>>
      BY <1>7, <3>1, <3>2 DEF InQueue
    <3>4. CASE i = Len(u)
      <4>1. p = new
        BY <1>14, <2>1, <3>2, <3>3, <3>4, PlaceIs
      <4>2. <<z[1], z[2], 1>> = <<d, n, 1>>
        BY <1>5, <1>8, <3>3, <3>4
      <4>3. z = <<z[1], z[2]>>
        OBVIOUS
      <4>4. z = x
        BY <1>3, <4>2, <4>3
      <4> QED  BY <4>1, <4>4
    <3>5. CASE i # Len(u)
      <4>1. i \in 1 .. Len(v) /\ u[i] = v[i]
        BY <1>8, <3>3, <3>5
      <4>2. InQueue(p, z)
        BY SMTT(30), <1>6, <2>1, <3>2, <3>3, <4>1 DEF InQueue
      <4> QED  BY <4>2 DEF Holds
    <3> QED  BY <3>4, <3>5
  <2>2. CASE p[1] # "queue"
    BY <1>1, <1>10, <1>16, <2>2 DEF Holds, AtWork, InQueue, InBuffer, InSocket
  <2> QED  BY <2>1, <2>2
<1>17. ASSUME NEW p \in Place, Holds(p, x)' PROVE p = new
  <2>1. CASE Holds(p, x)
    <3>1. p = old
      BY <1>3, <1>15, <2>1 DEF AnswerState, OnePlace
    <3>2. AtWork(p, x)'
      BY <1>15, <1>17, <3>1 DEF Holds, InQueue, InBuffer, InSocket
    <3> QED  BY <1>1, <3>2 DEF AtWork
  <2>2. CASE ~Holds(p, x)
    BY <1>3, <1>16, <1>17, <2>2
  <2> QED  BY <2>1, <2>2
<1>18. x \in kept' /\ x[2] <= Begun(x[1])'
  <2>1. x \in kept /\ n <= Begun(d)
    BY <1>1, <1>2, <1>3, <1>15 DEF AnswerState, NotBefore
  <2>2. Begun(d) \in Nat /\ Begun(d)' \in Nat /\ (~gone' => Begun(d) <= Begun(d)')
    BY <1>3, BegunGrows
  <2>3. ~gone' /\ n \in Nat
    BY <1>1, <1>3 DEF Numbers
  <2>4. kept \subseteq kept'
    BY KeptGrows
  <2> QED  BY <1>2, <2>1, <2>2, <2>3, <2>4
<1>19. OnePlace' /\ NotBefore'
  BY <1>3, <1>16, <1>17, <1>18, PlacesAdded DEF AnswerState
<1> QED  BY <1>11, <1>12, <1>13, <1>19 DEF AnswerState
-----------------------------------------------------------------------------
(* The consumer.                                                            *)

\* The command that a consumer begins to write to the stub is the next one.
LEMMA WritesNext ==
  ASSUME TypeInv, NEW c \in Conn, SockInv(c), CanWrite(c, "dev")
  PROVE  \E n \in Numbers : /\ n = Len(forwarded[c]) + 1 /\ n <= sent[c]
                            /\ bufc(c, "sock").data[1] = <<c, n, 1>>
<1>1. PICK q, r, w, v, m, f, ks :
        /\ q = bufs[<<c, "sock">>] /\ r = in_reading[<<c, "sock">>]
        /\ w = in_writing[<<c, "dev">>] /\ v = wire[c] /\ m = sent[c] /\ f = forwarded[c]
        /\ ks = scenario.kinds[c]
  OBVIOUS
<1>2. Typed(q, r, v, m, f) /\ Sock(c, ks, q, r, w, v, m, f)
  BY <1>1, SockTyped DEF SockInv
<1>3. PICK b : b = q[1]
  OBVIOUS
<1>4. /\ Len(q) \in Nat \ {0} /\ Head(q) = b /\ b \in Buffer
      /\ Len(f) \in Nat /\ Base(q, f) \in Nat
  <2>1. Len(q) \in Nat \ {0} /\ Head(q) = q[1] /\ Head(q) \in Buffer
    BY <1>2, BufpOfCommand
  <2>2. Len(f) \in Nat /\ Base(q, f) \in Nat
    BY <1>2, BufpOfCommand
  <2> QED  BY <1>3, <2>1, <2>2
<1>5. bufc(c, "sock") = b /\ b.step = 3 /\ Len(b.data) > b.off
  <2>1. bufc(c, "sock") = b
    BY <1>1, <1>4 DEF bufc
  <2> QED  BY <2>1, Keys DEF CanWrite, Unwritten
<1>6. PICK n : n = Base(q, f) + 1
  OBVIOUS
<1>7. n <= m /\ b.data = Command(c, ks, n) /\ (b.off # 0 => b.off = Len(b.data))
  <2>1. 1 \in 1 .. Len(q)
    BY <1>4
  <2> QED  BY <1>2, <1>3, <1>5, <1>6, <2>1 DEF Sock, OneEach
<1>8. n = Len(f) + 1
  <2>1. Len(b.data) \in Nat
    BY <1>4 DEF Buffer
  <2>2. b.off = 0
    BY <1>5, <1>7, <2>1
  <2> QED  BY <1>4, <1>6, <2>2 DEF Base
<1>9. b.data[1] = <<c, n, 1>>
  <2>1. 1 \in 1 .. CmdLen(ks, n)
    <3>1. CmdLen(ks, n) \in Nat /\ CmdLen(ks, n) > 0
      BY Lengths
    <3> QED  BY <3>1
  <2>2. Command(c, ks, n)[1] = <<c, n, 1>>
    BY <2>1 DEF Command
  <2> QED  BY <1>7, <2>2
<1>10. n \in Numbers
  <2>1. m \in Numbers \cup {0} /\ MaxNumber \in Nat
    BY <1>1, AnswerTypes, ConstantsAssumption
  <2> QED  BY <1>4, <1>7, <1>8, <2>1 DEF Numbers
<1> QED  BY <1>1, <1>5, <1>7, <1>8, <1>9, <1>10

\* What a turn does to the devbuf of the stub.
TurnOf(c, read, l, b, t) ==
  /\ c \in Conn /\ l = bufp(c, "dev") /\ b = read_dev("dev", l)
  /\ bufs' = IF read THEN WithBufp(c, "dev", b) ELSE bufs
  /\ in_reading' = [in_reading EXCEPT ![<<c, "dev">>] = t]
  /\ \/ t = in_reading[<<c, "dev">>]
     \/ read /\ Asks("dev", l) > 0 /\ t = Asks("dev", l)
  /\ UNCHANGED <<devq, answered, forwarded, gone>>

LEMMA TurnIs ==
  ASSUME TypeInv, NEW k \in Conn, ConsumerTurn(k)
  PROVE  \E read, l, b, t : /\ TurnOf(at[k], read, l, b, t)
                            /\ CanWrite(at[k], "dev") => ~gone
                            /\ todo' = IF CanWrite(at[k], "dev")
                                       THEN todo \cup {<<at[k], bufc(at[k], "sock").data[1][2]>>}
                                       ELSE todo
                            /\ in_writing' = [in_writing EXCEPT ![<<at[k], "dev">>] =
                                                CanWrite(at[k], "dev") \/ @]
<1> DEFINE c == at[k]
           b == bufp(c, "dev")
           write == CanWrite(c, "dev")
           writing == write \/ in_writing[<<c, "dev">>]
           read == writing \/ b.step \in {1, 2}
           old == in_reading[<<c, "dev">>]
           starts == read /\ old = 0 /\ Asks("dev", b) > 0
           asked == IF starts THEN Asks("dev", b) ELSE old
           new == read_dev("dev", b)
<1>1. c \in Conn
  BY DEF ConsumerTurn, TypeInv, TypeOK
<1>2. /\ bufs' = IF read THEN WithBufp(c, "dev", new) ELSE bufs
      /\ in_reading' = [in_reading EXCEPT ![<<c, "dev">>] = asked]
      /\ UNCHANGED <<devq, answered, forwarded, gone>>
      /\ write => ~gone
      /\ todo' = IF write THEN todo \cup {<<c, bufc(c, "sock").data[1][2]>>} ELSE todo
  <2> HIDE DEF CanWrite
  <2> QED  BY DEF ConsumerTurn, history
<1>3. in_writing' = [in_writing EXCEPT ![<<c, "dev">>] = writing]
  <2> HIDE DEF CanWrite
  <2> QED  BY DEF ConsumerTurn
<1>4. asked = old \/ (read /\ Asks("dev", b) > 0 /\ asked = Asks("dev", b))
  OBVIOUS
<1> HIDE DEF b, write, read, asked, new
<1>5. TurnOf(c, read, b, new, asked)
  BY <1>1, <1>2, <1>4 DEF TurnOf, new, b
<1>6. in_writing' = [in_writing EXCEPT ![<<c, "dev">>] = write \/ @]
  BY <1>3
<1> QED  BY <1>2, <1>5, <1>6 DEF write

LEMMA TurnDev ==
  ASSUME TypeInv, [Next]_vars, Right, AnswerState,
         NEW c, NEW read, NEW l, NEW b, NEW t, TurnOf(c, read, l, b, t),
         \A d \in Conn : in_writing'[<<d, "sock">>] = in_writing[<<d, "sock">>]
  PROVE  /\ \A d \in Conn : DevInv(d)'
         /\ Queued'
         /\ \A d \in Conn : /\ Len(bufs'[<<d, "dev">>]) = Len(bufs[<<d, "dev">>])
                            /\ \A i \in 1 .. Len(bufs[<<d, "dev">>]) :
                                 /\ bufs'[<<d, "dev">>][i].data = bufs[<<d, "dev">>][i].data
                                 /\ bufs'[<<d, "dev">>][i].off = bufs[<<d, "dev">>][i].off
<1>1. PICK q, r, w, v, k, m :
        /\ q = bufs[<<c, "dev">>] /\ r = in_reading[<<c, "dev">>]
        /\ w = in_writing[<<c, "sock">>] /\ v = devq /\ k = scenario.kinds /\ m = sent
  OBVIOUS
<1>2. /\ c \in Conn /\ "dev" \in Side /\ <<c, "dev">> \in Conn \X Side
      /\ q \in Seq(Buffer) /\ q # <<>> /\ Shaped(q, r) /\ r \in Nat
      /\ Len(q) \in Nat \ {0} /\ Last(q) = q[Len(q)]
      /\ l = Last(q) /\ l \in Buffer /\ Sound(l)
      /\ m \in [Conn -> Numbers \cup {0}] /\ v \in Seq(Seq(Unit))
      /\ in_reading \in [Conn \X Side -> 0 .. HdrLen + 2]
  <2>1. c \in Conn /\ l = Last(q)
    BY <1>1 DEF TurnOf, bufp
  <2>2. /\ q \in Seq(Buffer) /\ q # <<>> /\ Shaped(q, r) /\ r \in Nat
        /\ Len(q) \in Nat \ {0} /\ Last(q) = q[Len(q)]
        /\ Last(q) \in Buffer /\ Sound(Last(q))
    BY <1>1, <2>1, DevTypes
  <2>3. /\ m \in [Conn -> Numbers \cup {0}] /\ v \in Seq(Seq(Unit))
        /\ in_reading \in [Conn \X Side -> 0 .. HdrLen + 2]
    BY <1>1, AnswerTypes
  <2> QED  BY <2>1, <2>2, <2>3, Keys
<1>3. /\ \A d \in Conn : d # c => in_reading'[<<d, "dev">>] = in_reading[<<d, "dev">>]
      /\ in_reading'[<<c, "dev">>] = t
  BY <1>2, Keys DEF TurnOf
<1>4. \A d \in Conn : d # c => bufs'[<<d, "dev">>] = bufs[<<d, "dev">>]
  <2>1. UNCHANGED bufs \/ \E x : bufs' = WithBufp(c, "dev", x)
    BY DEF TurnOf
  <2> QED  BY <1>2, <2>1, Keys, OthersKept
<1>5. UNCHANGED devq
  BY DEF TurnOf
<1>6. ASSUME NEW d \in Conn, d # c PROVE DevInv(d)'
  BY <1>3, <1>4, <1>5, <1>6, DevKept
<1>7. CASE ~read
  <2>1. UNCHANGED bufs /\ t = r
    BY <1>1, <1>7 DEF TurnOf
  <2>2. DevInv(c)'
    BY <1>1, <1>2, <1>3, <1>5, <2>1, DevKept
  <2>3. Queued'
    BY <1>5, <2>1, QueueKept DEF AnswerState, bufp
  <2> QED  BY <1>6, <2>1, <2>2, <2>3
<1>8. CASE read
  <2>1. PICK p, e : p = [q EXCEPT ![Len(q)] = b] /\ e = Expected("dev", l)
    OBVIOUS
  <2>2. bufs'[<<c, "dev">>] = p
    <3>1. bufs' = WithBufp(c, "dev", b)
      BY <1>8 DEF TurnOf
    <3> QED  BY <1>1, <1>2, <2>1, <3>1, BufpIs
  <2>3. Dev(k, m, q, r, w, v)
    BY <1>1, <1>2 DEF AnswerState, DevInv
  <2>4. AtBufp(k, m, l, r, v)
    BY <1>2, <2>3, DevParts
  <2>5. /\ b \in Buffer /\ Marked(l, b, e, r, t)
    <3>1. b = read_dev("dev", l) /\ (t = r \/ (Asks("dev", l) > 0 /\ t = Asks("dev", l)))
      BY <1>1 DEF TurnOf
    <3>2. Marked(l, read_dev("dev", l), Expected("dev", l), r, t)
      BY <1>2, <3>1, DevMarked
    <3>3. read_dev("dev", l) \in Buffer
      BY <1>2, ReadDev
    <3> QED  BY <2>1, <3>1, <3>2, <3>3
  <2>6. /\ l.data = <<>> => e = HdrLen
        /\ l.step # 3 /\ Whole(k, m, l.data) => e = Len(l.data)
        /\ Half(k, m, l, v) => e = HdrLen + Len(Head(v))
    <3>1. l = bufp(c, "dev")
      BY DEF TurnOf
    <3> QED  BY <1>1, <1>2, <2>1, <3>1, DevExpected
  <2>7. /\ AtBufp(k, m, b, t, v)
        /\ l.step = 3 => b.step = 3
        /\ Half(k, m, l, v) => Half(k, m, b, v)
    <3>1. /\ l \in Buffer /\ Sound(l) /\ r \in Nat /\ v \in Seq(Seq(Unit))
          /\ m \in [Conn -> Numbers \cup {0}] /\ b \in Buffer /\ Marked(l, b, e, r, t)
      BY <1>2, <2>5
    <3>2. AtBufp(k, m, b, t, v)
      BY <2>4, <2>6, <3>1, BufpTurn
    <3>3. l.step = 3 => b.step = 3
      BY ZenonT(60), <2>4, <2>6, <3>1, BufpTurn
    <3>4. Half(k, m, l, v) => Half(k, m, b, v)
      BY <2>4, <2>6, <3>1, BufpTurn
    <3> QED  BY <3>2, <3>3, <3>4
  <2>8. b.data = l.data /\ b.off = l.off
    BY <2>5 DEF Marked
  <2>9. Dev(k, m, p, t, w, v)
    BY <1>2, <2>1, <2>3, <2>5, <2>7, <2>8, DevReplaced
  <2>10. DevInv(c)'
    <3>1. Dev(scenario.kinds, sent, p, t, w, v)
      BY <1>1, <2>9
    <3>2. in_writing'[<<c, "sock">>] = w /\ devq' = v
      BY <1>1, <1>2, <1>5
    <3> QED  BY <1>2, <1>3, <2>2, <3>1, <3>2, DevLater
  <2>11. HasBufp(p, q, b)
    BY <1>2, <2>1, <2>5, BufpReplaced
  <2>12. Queued'
    <3>1. ASSUME NEW d \in Conn, Half(scenario.kinds, sent, bufp(d, "dev"), devq)
          PROVE  Half(scenario.kinds, sent, bufp(d, "dev")', devq)
      <4>1. CASE d # c
        BY <1>4, <3>1, <4>1 DEF bufp
      <4>2. CASE d = c
        <5>1. Half(k, m, l, v)
          BY <1>1, <1>2, <3>1, <4>2 DEF bufp
        <5>2. Half(k, m, b, v)
          BY <2>7, <5>1
        <5>3. bufp(c, "dev")' = b
          BY <2>2, <2>11 DEF bufp, HasBufp
        <5> QED  BY <1>1, <4>2, <5>2, <5>3
      <4> QED  BY <4>1, <4>2
    <3> QED  BY <1>5, <3>1, QueueKept DEF AnswerState
  <2>13. /\ Len(p) = Len(q)
         /\ \A i \in 1 .. Len(q) : p[i].data = q[i].data /\ p[i].off = q[i].off
    BY <1>2, <2>8, <2>11 DEF HasBufp
  <2> QED  BY <1>1, <1>4, <1>6, <2>2, <2>10, <2>12, <2>13
<1> QED  BY <1>7, <1>8

LEMMA TurnAnswers ==
  ASSUME TypeInv, \A c \in Conn : SockInv(c), [Next]_vars, HeadersKept, Right, AnswerState,
         NEW k \in Conn, ConsumerTurn(k)
  PROVE  AnswerState'
<1>1. PICK c, write : c = at[k] /\ write = CanWrite(c, "dev")
  OBVIOUS
<1>2. PICK read, l, b, t : TurnOf(c, read, l, b, t)
  BY <1>1, TurnIs
<1>3. /\ write => ~gone
      /\ todo' = IF write THEN todo \cup {<<c, bufc(c, "sock").data[1][2]>>} ELSE todo
      /\ in_writing' = [in_writing EXCEPT ![<<c, "dev">>] = write \/ @]
  BY <1>1, TurnIs
<1>4. /\ c \in Conn /\ UNCHANGED <<devq, answered, forwarded, gone>>
      /\ in_writing \in [Conn \X Side -> BOOLEAN]
      /\ <<c, "dev">> \in Conn \X Side
  BY <1>2, AnswerTypes, Keys DEF TurnOf
<1>5. \A d \in Conn : in_writing'[<<d, "sock">>] = in_writing[<<d, "sock">>]
  BY <1>3, <1>4, Keys
<1>6. /\ \A d \in Conn : DevInv(d)'
      /\ Queued'
  BY <1>2, <1>5, TurnDev
<1>7. \A d \in Conn : /\ Len(bufs'[<<d, "dev">>]) = Len(bufs[<<d, "dev">>])
                      /\ \A i \in 1 .. Len(bufs[<<d, "dev">>]) :
                           /\ bufs'[<<d, "dev">>][i].data = bufs[<<d, "dev">>][i].data
                           /\ bufs'[<<d, "dev">>][i].off = bufs[<<d, "dev">>][i].off
  BY <1>2, <1>5, TurnDev
<1>8. OutWhole'
  BY <1>4, OutKept DEF AnswerState
<1>9. ASSUME NEW p \in Place, NEW x \in Conn \X Numbers, Holds(p, x)'
      PROVE  Holds(p, x) \/ (p = <<"todo", NoConn, 0>> /\ x \in todo')
  <2>1. CASE InBuffer(p, x)'
    <3>1. PICK d, i : d = p[2] /\ i = p[3]
      OBVIOUS
    <3>2. /\ p[1] = "buffer" /\ d \in Conn /\ i \in 1 .. Len(bufs'[<<d, "dev">>])
          /\ bufs'[<<d, "dev">>][i].data # <<>> /\ bufs'[<<d, "dev">>][i].off = 0
          /\ bufs'[<<d, "dev">>][i].data[1] = <<x[1], x[2], 1>>
      BY <2>1, <3>1 DEF InBuffer
    <3>3. /\ i \in 1 .. Len(bufs[<<d, "dev">>])
          /\ bufs'[<<d, "dev">>][i].data = bufs[<<d, "dev">>][i].data
          /\ bufs'[<<d, "dev">>][i].off = bufs[<<d, "dev">>][i].off
      BY <1>7, <3>2
    <3>4. InBuffer(p, x)
      BY <3>1, <3>2, <3>3 DEF InBuffer
    <3> QED  BY <3>4 DEF Holds
  <2>2. CASE InQueue(p, x)' \/ InSocket(p, x)'
    BY <1>4, <2>2 DEF Holds, InQueue, InSocket
  <2>3. CASE AtWork(p, x)'
    BY <2>3 DEF AtWork
  <2> QED  BY <1>9, <2>1, <2>2, <2>3 DEF Holds
<1>10. CASE ~write
  <2>1. todo' = todo
    BY <1>3, <1>10
  <2>2. TodoSent'
    BY <2>1, TodoKept DEF AnswerState
  <2>3. \A p \in Place : \A x \in Conn \X Numbers : Holds(p, x)' => Holds(p, x)
    BY <1>9, <2>1 DEF Holds, AtWork
  <2>4. OnePlace' /\ NotBefore'
    BY <2>3, PlacesKept DEF AnswerState
  <2> QED  BY <1>6, <1>8, <2>2, <2>4 DEF AnswerState
<1>11. CASE write
  <2>1. PICK n \in Numbers : /\ n = Len(forwarded[c]) + 1 /\ n <= sent[c]
                             /\ bufc(c, "sock").data[1] = <<c, n, 1>>
    BY <1>1, <1>4, <1>11, WritesNext
  <2>2. PICK z : z = <<c, n>>
    OBVIOUS
  <2>3. z \in Conn \X Numbers /\ z[1] = c /\ z[2] = n /\ n \in Nat /\ 1 <= n
    BY <1>4, <2>2 DEF Numbers
  <2>4. todo' = todo \cup {z}
    <3>1. PICK h : h = bufc(c, "sock").data[1] /\ h[2] = n
      BY <2>1
    <3> QED  BY <1>3, <1>11, <2>2, <3>1
  <2>5. ~in_writing[<<c, "dev">>] /\ in_writing'[<<c, "dev">>]
    <3>1. ~in_writing[<<c, "dev">>]
      BY <1>1, <1>11 DEF CanWrite
    <3> QED  BY <1>3, <1>4, <1>11, <3>1
  <2>6. /\ Begun(c) = Len(forwarded[c]) + 0 /\ Begun(c)' = Len(forwarded[c]) + 1
        /\ Len(forwarded[c]) \in Nat
    <3>1. Begun(c) = Len(forwarded[c]) + 0 /\ Begun(c)' = Len(forwarded[c]) + 1
      BY <1>4, <2>5 DEF Begun
    <3>2. forwarded[c] \in Seq(Seq(Unit))
      BY <1>4, AnswerTypes
    <3> QED  BY <3>1, <3>2
  <2>7. TodoSent'
    <3> SUFFICES ASSUME NEW x \in todo' PROVE x[2] \in 1 .. sent'[x[1]]
      BY DEF TodoSent
    <3>1. \A d \in Conn : sent[d] <= sent'[d] /\ sent[d] \in Nat /\ sent'[d] \in Nat
      BY SentTypes DEF Numbers
    <3>2. CASE x \in todo
      <4>1. x[1] \in Conn /\ x[2] \in 1 .. sent[x[1]]
        BY <3>2, AnswerTypes DEF AnswerState, TodoSent
      <4> QED  BY <3>1, <4>1
    <3>3. CASE x = z
      <4>1. n <= sent'[c]
        BY <1>4, <2>1, <2>3, <3>1
      <4> QED  BY <1>4, <2>3, <3>1, <3>3, <4>1
    <3> QED  BY <2>4, <3>2, <3>3
  <2>8. PICK new : new = <<"todo", NoConn, 0>>
    OBVIOUS
  <2>9. ASSUME NEW p \in Place, NEW x \in Conn \X Numbers, Holds(p, x)'
        PROVE  Holds(p, x) \/ (p = new /\ x = z)
    BY <1>9, <2>4, <2>8, <2>9 DEF Holds, AtWork
  <2>10. ASSUME NEW p \in Place, Holds(p, z)' PROVE p = new
    <3> SUFFICES ASSUME Holds(p, z) PROVE FALSE
      BY <2>3, <2>9, <2>10
    <3>1. n <= Begun(c)
      BY <1>3, <1>11, <2>3 DEF AnswerState, NotBefore
    <3> QED  BY <2>1, <2>3, <2>6, <3>1
  <2>11. z \in kept' /\ z[2] <= Begun(z[1])'
    <3>1. z \in kept
      BY <1>1, <1>4, <1>11, <2>1, <2>2, WritesKept
    <3>2. kept \subseteq kept'
      BY KeptGrows
    <3> QED  BY <2>1, <2>3, <2>6, <3>1, <3>2
  <2>12. OnePlace' /\ NotBefore'
    BY <2>3, <2>9, <2>10, <2>11, PlacesAdded DEF AnswerState
  <2> QED  BY <1>6, <1>8, <2>7, <2>12 DEF AnswerState
<1> QED  BY <1>10, <1>11

\* A read of r units from the queue v, the whole of its first answer if all, has
\* made the bufp b of l and left the queue u.
Took(l, r, v, b, u, all) ==
  IF all
  THEN /\ Len(Head(v)) <= r /\ u = Tail(v)
       /\ b = [l EXCEPT !.data = @ \o Head(v)]
  ELSE /\ Len(Head(v)) > r /\ u = [v EXCEPT ![1] = SubSeq(@, r + 1, Len(@))]
       /\ b = [l EXCEPT !.data = @ \o SubSeq(Head(v), 1, r)]

\* What the read has brought: the first answer with all its units has moved from
\* the queue to bufp, or its header has.
Brought(k, m, l, v, b, u, all) ==
  /\ b \in Buffer /\ b.off = l.off /\ b.step = l.step /\ l.step # 3
  /\ b.data # <<>> /\ b.data[1] = (IF l.data = <<>> THEN v[1][1] ELSE l.data[1])
  /\ AtBufp(k, m, b, 0, u)
  /\ IF all
     THEN Len(u) = Len(v) - 1 /\ \A i \in 1 .. Len(u) : u[i] = v[i + 1]
     ELSE /\ Half(k, m, b, u) /\ Len(u) = Len(v)
          /\ \A i \in 1 .. Len(v) : i # 1 => u[i] = v[i]
          /\ \A d, n : u[1][1] # <<d, n, 1>>

LEMMA Nothing ==
  ASSUME NEW s \in Seq(Unit)
  PROVE  <<>> \o s = s
BY ConcatEmptySeq

\* What has come into bufp is an answer with all its units.
LEMMA AllBrought ==
  ASSUME NEW k, NEW m \in [Conn -> Numbers \cup {0}], NEW l \in Buffer, NEW b \in Buffer,
         NEW v \in Seq(Seq(Unit)), v # <<>>, NEW u, u = Tail(v),
         b.off = l.off, b.step = l.step, l.step \in {1, 2}, Whole(k, m, b.data),
         b.data[1] = (IF l.data = <<>> THEN v[1][1] ELSE l.data[1])
  PROVE  Brought(k, m, l, v, b, u, TRUE)
<1>1. b.data # <<>>
  <2>1. PICK x : x = b.data
    OBVIOUS
  <2>2. x # <<>>
    BY <2>1, WholeAnswer
  <2> QED  BY <2>1, <2>2
<1>2. AtBufp(k, m, b, 0, u)
  BY DEF AtBufp, Begins, AsksOne
<1>3. Len(u) = Len(v) - 1 /\ \A i \in 1 .. Len(u) : u[i] = v[i + 1]
  BY HeadTailProperties
<1> QED  BY <1>1, <1>2, <1>3 DEF Brought

LEMMA AnswerTaken ==
  ASSUME NEW k, NEW m \in [Conn -> Numbers \cup {0}], NEW l \in Buffer, Sound(l),
         NEW r \in Nat, r > 0, Len(l.data) + r <= HdrLen + 2,
         NEW v \in Seq(Seq(Unit)), v # <<>>, AtBufp(k, m, l, r, v),
         Whole(k, m, Head(v)) \/ Half(k, m, l, v),
         NEW b, NEW u, NEW all \in BOOLEAN, Took(l, r, v, b, u, all)
  PROVE  Brought(k, m, l, v, b, u, all)
<1>1. PICK h : h = Head(v)
  OBVIOUS
<1>2. /\ h \in Seq(Unit) /\ h = v[1] /\ Len(h) \in Nat /\ HdrLen \in Nat \ {0}
      /\ l.data \in Seq(Unit) /\ Len(l.data) \in Nat
  <2>1. h \in Seq(Unit) /\ h = v[1]
    BY <1>1
  <2> QED  BY <2>1, ConstantsAssumption DEF Buffer
<1>3. \/ l.step \in {1, 2} /\ l.data = <<>> /\ r = HdrLen
      \/ Half(k, m, l, v) /\ r = Len(h)
  BY <1>1 DEF AtBufp, AsksOne
\* The header comes.
<1>4. CASE l.step \in {1, 2} /\ l.data = <<>> /\ r = HdrLen
  <2>1. Whole(k, m, h)
    <3>1. ~Half(k, m, l, v)
      BY <1>2, <1>4 DEF Half
    <3> QED  BY <1>1, <3>1
  <2>2. h # <<>> /\ HdrLen <= Len(h)
    BY <2>1, WholeAnswer
  <2>3. ASSUME all PROVE Brought(k, m, l, v, b, u, all)
    <3>1. b = [l EXCEPT !.data = @ \o h] /\ u = Tail(v) /\ Len(h) <= r
      BY <1>1, <2>3 DEF Took
    <3>2. Len(l.data) + Len(h) <= HdrLen + 2
      <4>1. PICK x, y : x = Len(l.data) /\ y = Len(h)
        OBVIOUS
      <4>2. x \in Nat /\ y \in Nat /\ y <= r /\ x + r <= HdrLen + 2
        BY <1>2, <3>1, <4>1
      <4>3. x + y <= HdrLen + 2
        BY <1>2, <4>2
      <4> QED  BY <4>1, <4>3
    <3>3. b \in Buffer /\ b.data = l.data \o h /\ b.step = l.step /\ b.off = l.off
      BY <1>2, <3>1, <3>2, DataAdded
    <3>4. b.data = h
      BY <1>2, <1>4, <3>3, Nothing
    <3>5. b.data[1] = (IF l.data = <<>> THEN v[1][1] ELSE l.data[1])
      BY <1>2, <1>4, <3>4
    <3>6. Whole(k, m, b.data) /\ b.step \in {1, 2}
      BY <1>4, <2>1, <3>3, <3>4
    <3>7. Brought(k, m, l, v, b, u, TRUE)
      BY <1>4, <3>1, <3>3, <3>5, <3>6, AllBrought
    <3> QED  BY <2>3, <3>7 DEF Brought
  <2>4. ASSUME ~all PROVE Brought(k, m, l, v, b, u, all)
    <3>1. PICK f, e : f = SubSeq(h, 1, r) /\ e = SubSeq(h, r + 1, Len(h))
      OBVIOUS
    <3>2. /\ b = [l EXCEPT !.data = @ \o f] /\ u = [v EXCEPT ![1] = e] /\ Len(h) > r
      BY <1>1, <1>2, <2>4, <3>1 DEF Took
    <3>3. f \in Seq(Unit) /\ Len(f) = r /\ e \in Seq(Unit) /\ Len(e) = Len(h) - r /\ f \o e = h
      <4>1. r <= Len(h)
        BY <1>2, <3>2
      <4>2. f \in Seq(Unit) /\ Len(f) = r /\ f \o e = h
        BY <1>2, <3>1, <4>1, Cut
      <4>3. e \in Seq(Unit) /\ Len(e) = Len(h) - r
        BY <1>2, <3>1, <4>1, Cut
      <4> QED  BY <4>2, <4>3
    <3>4. b \in Buffer /\ b.data = l.data \o f /\ b.step = l.step /\ b.off = l.off
      BY <1>2, <3>2, <3>3, DataAdded
    <3>5. b.data = f
      BY <1>4, <3>3, <3>4, Nothing
    <3>6. /\ u \in Seq(Seq(Unit)) /\ u # <<>> /\ Len(u) = Len(v) /\ Head(u) = e /\ u[1] = e
          /\ \A i \in 1 .. Len(v) : i # 1 => u[i] = v[i]
      <4>1. /\ u \in Seq(Seq(Unit)) /\ u # <<>> /\ Len(u) = Len(v) /\ Head(u) = e
            /\ Len(v) \in Nat \ {0}
        BY <3>2, <3>3, FirstReplaced
      <4>2. \A i \in 1 .. Len(v) : u[i] = IF i = 1 THEN e ELSE v[i]
        BY <3>2, <3>3, FirstReplaced
      <4> QED  BY <4>1, <4>2
    <3>7. Half(k, m, b, u)
      <4>1. Len(e) > 0 /\ Len(f) = HdrLen
        BY <1>2, <1>4, <3>2, <3>3
      <4> QED  BY <1>4, <2>1, <3>3, <3>4, <3>5, <3>6, <4>1 DEF Half
    <3>8. AtBufp(k, m, b, 0, u)
      BY <1>4, <3>4, <3>7 DEF AtBufp, Begins, AsksOne
    <3>9. b.data # <<>> /\ b.data[1] = v[1][1]
      <4>1. f[1] = h[1]
        BY <1>2, <3>1, <3>2
      <4>2. f # <<>>
        BY <3>3
      <4> QED  BY <1>2, <3>5, <4>1, <4>2
    <3>10. ASSUME NEW d, NEW n PROVE u[1][1] # <<d, n, 1>>
      <4>1. PICK y \in Conn, z \in Numbers : RestOf(k, m, b, Head(u), y, z)
        BY <3>4, <3>6, <3>7, HalfAnswer
      <4>2. u[1][1] = <<y, z, HdrLen + 1>>
        BY <3>6, <4>1 DEF RestOf
      <4>3. HdrLen + 1 # 1
        BY <1>2
      <4> QED  BY <4>2, <4>3
    <3> QED  BY <1>4, <2>4, <3>4, <3>6, <3>7, <3>8, <3>9, <3>10 DEF Brought
  <2> QED  BY <2>3, <2>4
\* The rest comes.
<1>5. CASE Half(k, m, l, v) /\ r = Len(h)
  <2>1. /\ l.step \in {1, 2} /\ Len(l.data) = HdrLen /\ Whole(k, m, l.data \o h)
        /\ (l.data \o h)[1] = l.data[1]
    <3>1. l.step \in {1, 2} /\ Len(l.data) = HdrLen
      BY <1>5 DEF Half
    <3>2. Whole(k, m, l.data \o Head(v)) /\ (l.data \o Head(v))[1] = l.data[1]
      <4>1. Half(k, m, l, v)
        BY <1>5
      <4>2. Whole(k, m, l.data \o Head(v))
        BY <4>1 DEF Half
      <4>3. (l.data \o Head(v))[1] = l.data[1]
        <5>1. /\ 1 \in 1 .. Len(l.data) + Len(h) /\ 1 <= Len(l.data)
          BY <1>2, <3>1
        <5>2. (l.data \o h)[1] = IF 1 <= Len(l.data) THEN l.data[1] ELSE h[1 - Len(l.data)]
          BY <1>2, <5>1, Joined
        <5> QED  BY <1>1, <5>1, <5>2
      <4> QED  BY <4>2, <4>3
    <3> QED  BY <1>1, <3>1, <3>2
  <2>2. all /\ b = [l EXCEPT !.data = @ \o h] /\ u = Tail(v)
    <3>1. ~(Len(h) > r)
      BY <1>2, <1>5
    <3>2. all
      BY <1>1, <3>1 DEF Took
    <3> QED  BY <1>1, <3>2 DEF Took
  <2>3. b \in Buffer /\ b.data = l.data \o h /\ b.step = l.step /\ b.off = l.off
    BY <1>2, <1>5, <2>2, DataAdded
  <2>4. l.data # <<>>
    BY <1>2, <2>1
  <2>5. b.data[1] = (IF l.data = <<>> THEN v[1][1] ELSE l.data[1])
    BY <2>1, <2>3, <2>4
  <2>6. Brought(k, m, l, v, b, u, TRUE)
    BY <2>1, <2>2, <2>3, <2>5, AllBrought
  <2> QED  BY <2>2, <2>6 DEF Brought
<1> QED  BY <1>3, <1>4, <1>5

\* One connection at a time reads from the stub.
LEMMA OneInAnswer ==
  ASSUME ConsumerInv, NEW c \in Conn, InAnswer(c), NEW d \in Conn, InAnswer(d)
  PROVE  c = d
<1>1. PICK k \in Conn : consumer[k] \in {"run", "wait"} /\ at[k] = c
  BY DEF ConsumerInv, Served
<1>2. PICK l \in Conn : consumer[l] \in {"run", "wait"} /\ at[l] = d
  BY DEF ConsumerInv, Served
<1>3. k = l
  BY <1>1, <1>2 DEF ConsumerInv, OneConsumer, Consuming
<1> QED  BY <1>1, <1>2, <1>3

\* What read_completion does to the devbuf of the stub.
ReadOf(c, l, r, b, u, all) ==
  /\ c \in Conn /\ l = bufp(c, "dev") /\ r = in_reading[<<c, "dev">>] /\ r > 0
  /\ in_reading' = [in_reading EXCEPT ![<<c, "dev">>] = 0]
  /\ UNCHANGED <<in_writing, todo, answered>>
  /\ devq # <<>> /\ Took(l, r, devq, b, u, all)
  /\ bufs' = WithBufp(c, "dev", b) /\ devq' = u

LEMMA ReadIs ==
  ASSUME TypeInv, NEW k \in Conn, ConsumerReadApc(k)
  PROVE  \/ /\ UNCHANGED <<bufs, devq, in_writing, todo, answered>>
            /\ in_reading' = [in_reading EXCEPT ![<<at[k], "dev">>] = 0]
            /\ at[k] \in Conn
         \/ \E l, r, b, u : \E all \in BOOLEAN : ReadOf(at[k], l, r, b, u, all)
<1> DEFINE c == at[k]
           l == bufp(c, "dev")
           r == in_reading[<<c, "dev">>]
<1>1. /\ c \in Conn /\ r > 0
      /\ in_reading' = [in_reading EXCEPT ![<<c, "dev">>] = 0]
      /\ UNCHANGED <<in_writing, todo, answered>>
  BY GoesOn DEF ConsumerReadApc, history
<1>2. \/ UNCHANGED <<bufs, devq>>
      \/ /\ devq # <<>> /\ Len(Head(devq)) <= r
         /\ bufs' = WithBufp(c, "dev", [l EXCEPT !.data = @ \o Head(devq)])
         /\ devq' = Tail(devq)
      \/ /\ devq # <<>> /\ Len(Head(devq)) > r
         /\ bufs' = WithBufp(c, "dev", [l EXCEPT !.data = @ \o SubSeq(Head(devq), 1, r)])
         /\ devq' = [devq EXCEPT ![1] = SubSeq(@, r + 1, Len(@))]
  BY DEF ConsumerReadApc
<1> HIDE DEF l, r, c
<1>3. CASE UNCHANGED <<bufs, devq>>
  BY <1>1, <1>3 DEF c
<1>4. CASE /\ devq # <<>> /\ Len(Head(devq)) <= r
           /\ bufs' = WithBufp(c, "dev", [l EXCEPT !.data = @ \o Head(devq)])
           /\ devq' = Tail(devq)
  <2>1. PICK b, u : b = [l EXCEPT !.data = @ \o Head(devq)] /\ u = devq'
    OBVIOUS
  <2>2. ReadOf(c, l, r, b, u, TRUE)
    BY <1>1, <1>4, <2>1 DEF ReadOf, Took, l, r
  <2> QED  BY <2>2 DEF c
<1>5. CASE /\ devq # <<>> /\ Len(Head(devq)) > r
           /\ bufs' = WithBufp(c, "dev", [l EXCEPT !.data = @ \o SubSeq(Head(devq), 1, r)])
           /\ devq' = [devq EXCEPT ![1] = SubSeq(@, r + 1, Len(@))]
  <2>1. PICK b, u : b = [l EXCEPT !.data = @ \o SubSeq(Head(devq), 1, r)] /\ u = devq'
    OBVIOUS
  <2>2. ReadOf(c, l, r, b, u, FALSE)
    BY <1>1, <1>5, <2>1 DEF ReadOf, Took, l, r
  <2> QED  BY <2>2 DEF c
<1> QED  BY <1>2, <1>3, <1>4, <1>5

LEMMA ReadTaken ==
  ASSUME TypeInv, ConsumerInv, AnswerState,
         NEW c, NEW l, NEW r, NEW b, NEW u, NEW all \in BOOLEAN, ReadOf(c, l, r, b, u, all)
  PROVE  /\ Brought(scenario.kinds, sent, l, devq, b, u, all)
         /\ \A d \in Conn : d # c => ~InAnswer(d)
<1>1. PICK q, w, v, k, m :
        /\ q = bufs[<<c, "dev">>] /\ w = in_writing[<<c, "sock">>] /\ v = devq
        /\ k = scenario.kinds /\ m = sent
  OBVIOUS
<1>2. /\ c \in Conn /\ "dev" \in Side /\ l = Last(q) /\ r = in_reading[<<c, "dev">>] /\ r > 0
      /\ v # <<>> /\ Took(l, r, v, b, u, all)
  BY <1>1, Keys DEF ReadOf, bufp
<1>3. /\ Shaped(q, r) /\ r \in Nat /\ l \in Buffer /\ Sound(l)
      /\ m \in [Conn -> Numbers \cup {0}] /\ v \in Seq(Seq(Unit))
  <2>1. Shaped(q, r) /\ r \in Nat /\ Last(q) \in Buffer /\ Sound(Last(q))
    BY <1>1, <1>2, DevTypes
  <2>2. m \in [Conn -> Numbers \cup {0}] /\ v \in Seq(Seq(Unit))
    BY <1>1, AnswerTypes
  <2> QED  BY <1>2, <2>1, <2>2
<1>4. Len(l.data) + r <= HdrLen + 2
  BY <1>2, <1>3 DEF Shaped
<1>5. AtBufp(k, m, l, r, v)
  <2>1. Dev(k, m, q, r, w, v)
    BY <1>1, <1>2 DEF AnswerState, DevInv
  <2> QED  BY <1>2, <1>3, <2>1, DevParts
<1>6. InAnswer(c)
  BY <1>2 DEF InAnswer
<1>7. ASSUME NEW d \in Conn, d # c PROVE ~InAnswer(d)
  BY <1>2, <1>6, <1>7, OneInAnswer
<1>8. Whole(k, m, Head(v)) \/ Half(k, m, l, v)
  <2>1. 1 \in 1 .. Len(v) /\ Head(v) = v[1]
    BY <1>2, <1>3, EmptySeq
  <2>2. \/ Whole(k, m, v[1])
        \/ \E d \in Conn : Half(k, m, bufp(d, "dev"), v)
    BY <1>1, <2>1 DEF AnswerState, Queued
  <2>3. ASSUME NEW d \in Conn, Half(k, m, bufp(d, "dev"), v) PROVE d = c
    <3>1. InAnswer(d)
      BY <2>3 DEF InAnswer, Half
    <3> QED  BY <1>7, <3>1
  <2>4. bufp(c, "dev") = l
    BY DEF ReadOf
  <2> QED  BY <2>1, <2>2, <2>3, <2>4
<1>9. Brought(k, m, l, v, b, u, all)
  BY <1>2, <1>3, <1>4, <1>5, <1>8, AnswerTaken
<1> QED  BY <1>1, <1>7, <1>9

\* The devbufs and the queue after the read.
LEMMA ReadDevs ==
  ASSUME TypeInv, ConsumerInv, [Next]_vars, AnswerState,
         NEW c, NEW l, NEW r, NEW b, NEW u, NEW all \in BOOLEAN, ReadOf(c, l, r, b, u, all)
  PROVE  /\ \A d \in Conn : DevInv(d)'
         /\ Queued'
         /\ \A d \in Conn : d # c => bufs'[<<d, "dev">>] = bufs[<<d, "dev">>]
         /\ HasBufp(bufs'[<<c, "dev">>], bufs[<<c, "dev">>], b)
         /\ l = bufs[<<c, "dev">>][Len(bufs[<<c, "dev">>])]
<1>1. PICK q, w, v, k, m :
        /\ q = bufs[<<c, "dev">>] /\ w = in_writing[<<c, "sock">>] /\ v = devq
        /\ k = scenario.kinds /\ m = sent
  OBVIOUS
<1>2. /\ c \in Conn /\ "dev" \in Side /\ <<c, "dev">> \in Conn \X Side
      /\ l = Last(q) /\ r = in_reading[<<c, "dev">>] /\ r > 0
      /\ devq' = u /\ bufs' = WithBufp(c, "dev", b) /\ UNCHANGED in_writing
      /\ in_reading' = [in_reading EXCEPT ![<<c, "dev">>] = 0]
  BY <1>1, Keys DEF ReadOf, bufp
<1>3. /\ q \in Seq(Buffer) /\ q # <<>> /\ Shaped(q, r) /\ r \in Nat /\ l = q[Len(q)]
      /\ in_reading \in [Conn \X Side -> 0 .. HdrLen + 2] /\ v \in Seq(Seq(Unit))
  <2>1. q \in Seq(Buffer) /\ q # <<>> /\ Shaped(q, r) /\ r \in Nat /\ Last(q) = q[Len(q)]
    BY <1>1, <1>2, DevTypes
  <2>2. in_reading \in [Conn \X Side -> 0 .. HdrLen + 2] /\ v \in Seq(Seq(Unit))
    BY <1>1, AnswerTypes
  <2> QED  BY <1>2, <2>1, <2>2
<1>4. Brought(k, m, l, v, b, u, all) /\ \A d \in Conn : d # c => ~InAnswer(d)
  BY <1>1, ReadTaken
<1>5. PICK p : p = [q EXCEPT ![Len(q)] = b]
  OBVIOUS
<1>6. bufs'[<<c, "dev">>] = p /\ HasBufp(p, q, b)
  <2>1. bufs'[<<c, "dev">>] = p
    BY <1>1, <1>2, <1>5, BufpIs
  <2>2. b \in Buffer
    BY <1>4 DEF Brought
  <2> QED  BY <1>3, <1>5, <2>1, <2>2, BufpReplaced
<1>7. \A d \in Conn : d # c => bufs'[<<d, "dev">>] = bufs[<<d, "dev">>]
  BY <1>2, Keys, OthersKept
<1>8. /\ in_reading'[<<c, "dev">>] = 0
      /\ \A d \in Conn : d # c => in_reading'[<<d, "dev">>] = in_reading[<<d, "dev">>]
  BY <1>2, <1>3, Keys
<1>9. ASSUME NEW d \in Conn PROVE DevInv(d)'
  <2>1. CASE d = c
    <3>1. Dev(k, m, q, r, w, v)
      BY <1>1, <1>2 DEF AnswerState, DevInv
    <3>2. b \in Buffer /\ b.off = l.off /\ l.step # 3 /\ AtBufp(k, m, b, 0, u)
      BY <1>4 DEF Brought
    <3>3. Dev(k, m, p, 0, w, u)
      BY <1>2, <1>3, <1>5, <3>1, <3>2, DevReplaced
    <3>4. Dev(scenario.kinds, sent, p, 0, w, u)
      BY <1>1, <3>3
    <3>5. in_writing'[<<c, "sock">>] = w
      BY <1>1, <1>2
    <3> QED  BY <1>2, <1>6, <1>8, <2>1, <3>4, <3>5, DevLater
  <2>2. CASE d # c
    <3>1. PICK s, t, o : /\ s = bufs[<<d, "dev">>] /\ t = in_reading[<<d, "dev">>]
                         /\ o = in_writing[<<d, "sock">>]
      OBVIOUS
    <3>2. Dev(k, m, s, t, o, v)
      BY <1>1, <3>1 DEF AnswerState, DevInv
    <3>3. ~(t > 0) /\ Last(s).step \notin {1, 2}
      BY <1>4, <2>2, <3>1 DEF InAnswer, bufp
    <3>4. Dev(k, m, s, t, o, u)
      BY <3>2, <3>3, DevApart
    <3>5. Dev(scenario.kinds, sent, s, t, o, u)
      BY <1>1, <3>4
    <3>6. /\ bufs'[<<d, "dev">>] = s /\ in_reading'[<<d, "dev">>] = t
          /\ in_writing'[<<d, "sock">>] = o /\ devq' = u
      BY <1>2, <1>7, <1>8, <2>2, <3>1
    <3> QED  BY <3>5, <3>6, DevLater
  <2> QED  BY <2>1, <2>2
<1>10. Queued'
  <2> SUFFICES ASSUME NEW i \in 1 .. Len(u)
               PROVE  \/ Whole(k, sent', u[i])
                      \/ i = 1 /\ \E d \in Conn : Half(k, sent', bufp(d, "dev")', u)
    BY <1>1, <1>2, SentTypes DEF Queued
  <2>0. \A a : Whole(k, m, a) => Whole(k, sent', a)
    BY <1>1, SentTypes
  <2>1. ASSUME NEW j \in 1 .. Len(v), j # 1 PROVE Whole(k, sent', v[j])
    <3>1. Whole(k, m, v[j])
      BY <1>1, <2>1 DEF AnswerState, Queued
    <3> QED  BY <2>0, <3>1
  <2>2. Len(v) \in Nat
    BY <1>3
  <2>3. CASE all
    <3>1. Len(u) = Len(v) - 1 /\ u[i] = v[i + 1]
      BY <1>4, <2>3 DEF Brought
    <3>2. PICK j : j = i + 1
      OBVIOUS
    <3>3. j \in 1 .. Len(v) /\ j # 1
      BY <2>2, <3>1, <3>2
    <3> QED  BY <2>1, <3>1, <3>2, <3>3
  <2>4. CASE ~all
    <3>1. /\ Half(k, m, b, u) /\ Len(u) = Len(v)
          /\ \A j \in 1 .. Len(v) : j # 1 => u[j] = v[j]
      BY <1>4, <2>4 DEF Brought
    <3>2. CASE i # 1
      BY <2>1, <3>1, <3>2
    <3>3. CASE i = 1
      <4>1. Half(k, sent', b, u)
        BY <2>0, <3>1 DEF Half
      <4>2. bufp(c, "dev")' = b
        BY <1>6 DEF bufp, HasBufp
      <4> QED  BY <1>2, <3>3, <4>1, <4>2
    <3> QED  BY <3>2, <3>3
  <2> QED  BY <2>3, <2>4
<1> QED  BY <1>1, <1>3, <1>6, <1>7, <1>9, <1>10

\* The answers after the read.
LEMMA ReadPlaces ==
  ASSUME TypeInv, ConsumerInv, [Next]_vars, AnswerState,
         NEW c, NEW l, NEW r, NEW b, NEW u, NEW all \in BOOLEAN, ReadOf(c, l, r, b, u, all)
  PROVE  OnePlace' /\ NotBefore'
<1>1. PICK q, v, new : /\ q = bufs[<<c, "dev">>] /\ v = devq
                       /\ new = (l.data = <<>>) /\ new \in BOOLEAN
  OBVIOUS
<1>2. /\ c \in Conn /\ devq' = u /\ UNCHANGED <<todo, answered>>
      /\ q \in Seq(Buffer) /\ Len(q) \in Nat \ {0}
      /\ v \in Seq(Seq(Unit)) /\ v # <<>> /\ Len(v) \in Nat \ {0}
  <2>1. c \in Conn /\ devq' = u /\ UNCHANGED <<todo, answered>> /\ v # <<>>
    BY <1>1 DEF ReadOf
  <2>2. q \in Seq(Buffer) /\ Len(q) \in Nat \ {0} /\ v \in Seq(Seq(Unit))
    BY <1>1, <2>1, DevTypes, AnswerTypes
  <2> QED  BY <2>1, <2>2, EmptySeq
<1>3. /\ \A d \in Conn : d # c => bufs'[<<d, "dev">>] = bufs[<<d, "dev">>]
      /\ HasBufp(bufs'[<<c, "dev">>], q, b)
      /\ l = q[Len(q)]
  <2>1. \A d \in Conn : d # c => bufs'[<<d, "dev">>] = bufs[<<d, "dev">>]
    BY ReadDevs
  <2>2. HasBufp(bufs'[<<c, "dev">>], bufs[<<c, "dev">>], b)
    BY ReadDevs
  <2>3. l = bufs[<<c, "dev">>][Len(bufs[<<c, "dev">>])]
    BY ReadDevs
  <2> QED  BY <1>1, <2>1, <2>2, <2>3
<1>4. /\ b.off = l.off /\ b.data[1] = IF new THEN v[1][1] ELSE l.data[1]
      /\ all => Len(u) = Len(v) - 1 /\ \A i \in 1 .. Len(u) : u[i] = v[i + 1]
      /\ ~all => /\ Len(u) = Len(v) /\ \A i \in 1 .. Len(v) : i # 1 => u[i] = v[i]
                 /\ \A d, n : u[1][1] # <<d, n, 1>>
  <2>1. Brought(scenario.kinds, sent, l, v, b, u, all)
    BY <1>1, ReadTaken
  <2> QED  BY <1>1, <2>1 DEF Brought
<1>5. PICK last, first : last = <<"buffer", c, Len(q)>> /\ first = <<"queue", NoConn, 1>>
  OBVIOUS
<1>6. /\ last[1] = "buffer" /\ last[2] = c /\ last[3] = Len(q)
      /\ first \in Place /\ first[1] = "queue" /\ first[2] = NoConn /\ first[3] = 1
  BY <1>5, Places
<1>7. PICK g : g = [p \in Place |-> IF p = last /\ new THEN first
                                    ELSE IF p[1] = "queue" /\ all THEN <<"queue", NoConn, p[3] + 1>>
                                    ELSE p]
  OBVIOUS
<1>8. /\ \A p \in Place : p = last /\ new => g[p] = first
      /\ \A p \in Place : ~(p = last /\ new) /\ p[1] = "queue" /\ all
                            => g[p] = <<"queue", NoConn, p[3] + 1>>
      /\ \A p \in Place : ~(p = last /\ new) /\ ~(p[1] = "queue" /\ all) => g[p] = p
  BY <1>7
\* The answer whose header has come was the first of the queue.
<1>9. ASSUME NEW p \in Place, p = last, new, NEW x \in Conn \X Numbers, Holds(p, x)'
      PROVE  Holds(first, x)
  <2>1. InBuffer(p, x)'
    BY <1>6, <1>9 DEF Holds, AtWork, InQueue, InSocket
  <2>2. bufs'[<<c, "dev">>][Len(q)].data[1] = <<x[1], x[2], 1>>
    BY <1>6, <1>9, <2>1 DEF InBuffer
  <2>3. bufs'[<<c, "dev">>][Len(q)] = b
    <3>1. Len(q) \in 1 .. Len(q)
      BY <1>2
    <3> QED  BY <1>3, <3>1 DEF HasBufp
  <2>4. v[1][1] = <<x[1], x[2], 1>> /\ 1 \in 1 .. Len(v)
    BY <1>2, <1>4, <1>9, <2>2, <2>3
  <2>5. InQueue(first, x)
    BY <1>1, <1>6, <2>4 DEF InQueue
  <2> QED  BY <2>5 DEF Holds
\* The others move up.
<1>10. ASSUME NEW p \in Place, p[1] = "queue", all, NEW x \in Conn \X Numbers, Holds(p, x)'
       PROVE  /\ <<"queue", NoConn, p[3] + 1>> \in Place /\ Holds(<<"queue", NoConn, p[3] + 1>>, x)
              /\ p = <<"queue", NoConn, p[3]>> /\ p[3] \in Nat \ {0}
  <2>1. InQueue(p, x)'
    BY <1>10 DEF Holds, AtWork, InBuffer, InSocket
  <2>2. PICK i, j : i = p[3] /\ j = i + 1
    OBVIOUS
  <2>3. p[2] = NoConn /\ i \in 1 .. Len(u) /\ u[i][1] = <<x[1], x[2], 1>>
    BY <1>2, <2>1, <2>2 DEF InQueue
  <2>4. i \in Nat \ {0} /\ j \in Nat /\ j \in 1 .. Len(v) /\ u[i] = v[j]
    <3>1. Len(u) = Len(v) - 1 /\ u[i] = v[i + 1]
      BY <1>4, <1>10, <2>3
    <3>2. PICK y, z : y = Len(u) /\ z = Len(v)
      OBVIOUS
    <3>3. z \in Nat \ {0} /\ y = z - 1 /\ i \in 1 .. y
      BY <1>2, <2>3, <3>1, <3>2
    <3>4. i \in Nat \ {0} /\ j \in Nat /\ j \in 1 .. z
      BY <2>2, <3>3
    <3>5. u[i] = v[j]
      BY <2>2, <3>1
    <3> QED  BY <3>2, <3>4, <3>5
  <2>5. PICK h : h = <<"queue", NoConn, j>>
    OBVIOUS
  <2>6. h \in Place /\ h[1] = "queue" /\ h[2] = NoConn /\ h[3] = j
    BY <2>4, <2>5, Places
  <2>7. InQueue(h, x)
    BY <1>1, <2>3, <2>4, <2>6 DEF InQueue
  <2>8. p = <<"queue", NoConn, i>>
    BY <1>10, <2>2, <2>3, PlaceIs
  <2> QED  BY <2>2, <2>4, <2>5, <2>6, <2>7, <2>8 DEF Holds
\* The rest stay.
<1>11. ASSUME NEW p \in Place, ~(p = last /\ new), ~(p[1] = "queue" /\ all),
              NEW x \in Conn \X Numbers, Holds(p, x)'
       PROVE  Holds(p, x) /\ p # first
  <2>1. CASE p[1] = "queue"
    <3>1. InQueue(p, x)'
      BY <1>11, <2>1 DEF Holds, AtWork, InBuffer, InSocket
    <3>2. PICK i : i = p[3]
      OBVIOUS
    <3>3. p[2] = NoConn /\ i \in 1 .. Len(u) /\ u[i][1] = <<x[1], x[2], 1>>
      BY <1>2, <3>1, <3>2 DEF InQueue
    <3>4. i # 1 /\ Len(u) = Len(v)
      BY <1>4, <1>11, <2>1, <3>3
    <3>5. i \in 1 .. Len(v) /\ u[i] = v[i]
      BY <1>4, <1>11, <2>1, <3>3, <3>4
    <3>6. InQueue(p, x)
      BY <1>1, <2>1, <3>2, <3>3, <3>5 DEF InQueue
    <3> QED  BY <1>6, <3>2, <3>4, <3>6 DEF Holds
  <2>2. CASE p[1] = "buffer" /\ p[2] = c
    <3>1. InBuffer(p, x)'
      BY <1>11, <2>2 DEF Holds, AtWork, InQueue, InSocket
    <3>2. PICK i, s : i = p[3] /\ s = bufs'[<<c, "dev">>]
      OBVIOUS
    <3>3. i \in 1 .. Len(s) /\ s[i].data # <<>> /\ s[i].off = 0 /\ s[i].data[1] = <<x[1], x[2], 1>>
      BY <2>2, <3>1, <3>2 DEF InBuffer
    <3>4. i \in 1 .. Len(q) /\ (i # Len(q) => s[i] = q[i]) /\ (i = Len(q) => s[i] = b)
      BY <1>3, <3>2, <3>3 DEF HasBufp
    <3>5. q[i].data # <<>> /\ q[i].off = 0 /\ q[i].data[1] = <<x[1], x[2], 1>>
      <4>1. CASE i # Len(q)
        BY <3>3, <3>4, <4>1
      <4>2. CASE i = Len(q)
        <5>1. p = last
          BY <1>5, <2>2, <3>2, <4>2, PlaceIs
        <5>2. ~new
          BY <1>11, <5>1
        <5>3. l.data # <<>> /\ b.data[1] = l.data[1]
          BY <1>1, <1>4, <5>2
        <5> QED  BY <1>3, <1>4, <3>3, <3>4, <4>2, <5>3
      <4> QED  BY <4>1, <4>2
    <3>6. InBuffer(p, x)
      BY <1>1, <1>2, <2>2, <3>2, <3>4, <3>5 DEF InBuffer
    <3> QED  BY <1>6, <2>2, <3>6 DEF Holds
  <2>3. CASE ~(p[1] = "queue") /\ ~(p[1] = "buffer" /\ p[2] = c)
    <3>1. Holds(p, x)
      BY <1>2, <1>3, <1>11, <2>3 DEF Holds, AtWork, InQueue, InBuffer, InSocket
    <3> QED  BY SMTT(30), <1>6, <2>3, <3>1
  <2> QED  BY <2>1, <2>2, <2>3
<1>12. \A p \in Place : \A x \in Conn \X Numbers :
         Holds(p, x)' => g[p] \in Place /\ Holds(g[p], x)
  <2> SUFFICES ASSUME NEW p \in Place, NEW x \in Conn \X Numbers, Holds(p, x)'
               PROVE  g[p] \in Place /\ Holds(g[p], x)
    OBVIOUS
  <2>1. CASE p = last /\ new
    BY <1>6, <1>8, <1>9, <2>1
  <2>2. CASE ~(p = last /\ new) /\ p[1] = "queue" /\ all
    <3>1. g[p] = <<"queue", NoConn, p[3] + 1>>
      BY <1>8, <2>2
    <3> QED  BY <1>10, <2>2, <3>1
  <2>3. CASE ~(p = last /\ new) /\ ~(p[1] = "queue" /\ all)
    BY <1>8, <1>11, <2>3
  <2> QED  BY <2>1, <2>2, <2>3
\* No two come from the same place.
<1>13. ASSUME NEW p \in Place, NEW s \in Place, NEW x \in Conn \X Numbers,
              Holds(p, x)', Holds(s, x)', g[p] = g[s], p = last /\ new
       PROVE  p = s
  <2>1. g[s] = first
    BY <1>8, <1>13
  <2>2. CASE s = last /\ new
    BY <1>13, <2>2
  <2>3. CASE ~(s = last /\ new) /\ s[1] = "queue" /\ all
    <3>1. g[s] = <<"queue", NoConn, s[3] + 1>> /\ s[3] \in Nat \ {0}
      BY <1>8, <1>10, <1>13, <2>3
    <3>2. s[3] + 1 = 1
      BY <1>6, <2>1, <3>1
    <3> QED  BY <3>1, <3>2
  <2>4. CASE ~(s = last /\ new) /\ ~(s[1] = "queue" /\ all)
    BY <1>8, <1>11, <1>13, <2>1, <2>4
  <2> QED  BY <2>2, <2>3, <2>4
<1>14. ASSUME NEW p \in Place, NEW s \in Place, NEW x \in Conn \X Numbers,
              Holds(p, x)', Holds(s, x)', g[p] = g[s], ~(p = last /\ new), ~(s = last /\ new)
       PROVE  p = s
  <2>1. ASSUME NEW a \in Place, Holds(a, x)', ~(a = last /\ new), a[1] = "queue" /\ all
        PROVE  g[a] = <<"queue", NoConn, a[3] + 1>> /\ a = <<"queue", NoConn, a[3]>> /\ a[3] \in Nat
    BY <1>8, <1>10, <2>1
  <2>2. ASSUME NEW a \in Place, ~(a = last /\ new), ~(a[1] = "queue" /\ all)
        PROVE  g[a] = a
    BY <1>8, <2>2
  <2>3. CASE (p[1] = "queue" /\ all) /\ (s[1] = "queue" /\ all)
    <3>1. PICK i, j : i = p[3] /\ j = s[3]
      OBVIOUS
    <3>2. /\ i \in Nat /\ j \in Nat /\ p = <<"queue", NoConn, i>> /\ s = <<"queue", NoConn, j>>
          /\ g[p] = <<"queue", NoConn, i + 1>> /\ g[s] = <<"queue", NoConn, j + 1>>
      BY <1>14, <2>1, <2>3, <3>1
    <3>3. i + 1 = j + 1
      BY <1>14, <3>2
    <3> QED  BY <3>2, <3>3
  <2>4. CASE ~(p[1] = "queue" /\ all) /\ ~(s[1] = "queue" /\ all)
    BY <1>14, <2>2, <2>4
  <2>5. CASE (p[1] = "queue" /\ all) /\ ~(s[1] = "queue" /\ all)
    <3>1. g[p][1] = "queue" /\ g[s] = s
      BY <1>14, <2>1, <2>2, <2>5
    <3> QED  BY <1>14, <2>5, <3>1
  <2>6. CASE ~(p[1] = "queue" /\ all) /\ (s[1] = "queue" /\ all)
    <3>1. g[s][1] = "queue" /\ g[p] = p
      BY <1>14, <2>1, <2>2, <2>6
    <3> QED  BY <1>14, <2>6, <3>1
  <2> QED  BY <2>3, <2>4, <2>5, <2>6
<1>15. \A p, s \in Place : \A x \in Conn \X Numbers :
         Holds(p, x)' /\ Holds(s, x)' /\ g[p] = g[s] => p = s
  <2> SUFFICES ASSUME NEW p \in Place, NEW s \in Place, NEW x \in Conn \X Numbers,
                      Holds(p, x)', Holds(s, x)', g[p] = g[s]
               PROVE  p = s
    OBVIOUS
  <2>1. CASE p = last /\ new
    BY <1>13, <2>1
  <2>2. CASE s = last /\ new
    BY <1>13, <2>2
  <2>3. CASE ~(p = last /\ new) /\ ~(s = last /\ new)
    BY <1>14, <2>3
  <2> QED  BY <2>1, <2>2, <2>3
<1> QED  BY <1>12, <1>15, PlacesMoved DEF AnswerState

LEMMA ReadAnswers ==
  ASSUME TypeInv, ConsumerInv, [Next]_vars, AnswerState, NEW k \in Conn, ConsumerReadApc(k)
  PROVE  AnswerState'
<1>1. CASE /\ UNCHANGED <<bufs, devq, in_writing, todo, answered>>
           /\ in_reading' = [in_reading EXCEPT ![<<at[k], "dev">>] = 0]
           /\ at[k] \in Conn
  <2>1. \A d \in Conn : in_reading'[<<d, "dev">>] \in {in_reading[<<d, "dev">>], 0}
    BY <1>1, AnswerTypes, Keys
  <2> QED  BY <1>1, <2>1, Quiet
<1>2. ASSUME NEW l, NEW r, NEW b, NEW u, NEW all \in BOOLEAN, ReadOf(at[k], l, r, b, u, all)
      PROVE  AnswerState'
  <2>0. PICK c : c = at[k]
    OBVIOUS
  <2>1. ReadOf(c, l, r, b, u, all)
    BY <1>2, <2>0
  <2>2. (\A d \in Conn : DevInv(d)') /\ Queued'
    BY <2>1, ReadDevs
  <2>3. OnePlace' /\ NotBefore'
    BY <2>1, ReadPlaces
  <2>4. UNCHANGED <<todo, answered>>
    BY <2>1 DEF ReadOf
  <2>5. OutWhole' /\ TodoSent'
    BY <2>4, OutKept, TodoKept DEF AnswerState
  <2> QED  BY <2>2, <2>3, <2>5 DEF AnswerState
<1> QED  BY <1>1, <1>2, ReadIs
-----------------------------------------------------------------------------
(* The theorem.                                                             *)

\* Steps that leave the devbufs of the stub alone.
LEMMA OthersQuiet ==
  ASSUME TypeInv, [Next]_vars, AnswerState, UNCHANGED <<devq, todo, answered>>,
         \A d \in Conn : /\ bufs'[<<d, "dev">>] = bufs[<<d, "dev">>]
                         /\ in_reading'[<<d, "dev">>] = in_reading[<<d, "dev">>]
                         /\ in_writing'[<<d, "sock">>] = in_writing[<<d, "sock">>]
  PROVE  AnswerState'
BY Quiet

\* The reader has the devbuf of the socket.
LEMMA ReaderQuiet ==
  ASSUME TypeInv, [Next]_vars, AnswerState, NEW c \in Conn, ReaderThread(c)
  PROVE  AnswerState'
<1>1. UNCHANGED <<in_writing, devq, todo, answered>>
  BY DEF ReaderThread, ReaderTurn, ReaderWake, ReaderApc, devbuf, stub, history
<1>2. UNCHANGED bufs \/ \E b : bufs' = WithBufp(c, "sock", b)
  BY DEF ReaderThread, ReaderTurn, ReaderWake, ReaderApc, devbuf
<1>3. UNCHANGED in_reading \/ \E x : in_reading' = [in_reading EXCEPT ![<<c, "sock">>] = x]
  BY DEF ReaderThread, ReaderTurn, ReaderWake, ReaderApc, devbuf
<1>4. "sock" \in Side /\ in_reading \in [Conn \X Side -> 0 .. HdrLen + 2]
  BY AnswerTypes, Keys
<1>5. ASSUME NEW d \in Conn
      PROVE  /\ bufs'[<<d, "dev">>] = bufs[<<d, "dev">>]
             /\ in_reading'[<<d, "dev">>] = in_reading[<<d, "dev">>]
  <2>1. <<d, "dev">> \in Conn \X Side /\ <<d, "dev">> # <<c, "sock">>
    BY Keys
  <2>2. bufs'[<<d, "dev">>] = bufs[<<d, "dev">>]
    BY <1>2, <1>4, <2>1, OthersKept
  <2>3. in_reading'[<<d, "dev">>] = in_reading[<<d, "dev">>]
    BY <1>3, <1>4, <2>1
  <2> QED  BY <2>2, <2>3
<1> QED  BY <1>1, <1>5, OthersQuiet

\* A command has been written to the stub.
LEMMA WriteQuiet ==
  ASSUME TypeInv, [Next]_vars, AnswerState, NEW k \in Conn, ConsumerWriteApc(k)
  PROVE  AnswerState'
<1>1. PICK c : c = at[k]
  OBVIOUS
<1>2. /\ UNCHANGED <<in_reading, devq, todo, answered>>
      /\ in_writing' = [in_writing EXCEPT ![<<c, "dev">>] = FALSE]
      /\ UNCHANGED bufs \/ bufs' = Written(c, "sock")
  BY <1>1 DEF ConsumerWriteApc, stub
<1>3. c \in Conn
  BY <1>1, GoesOn DEF ConsumerWriteApc
<1>4. /\ in_writing \in [Conn \X Side -> BOOLEAN]
      /\ bufs \in [Conn \X Side -> Seq(Buffer) \ {<<>>}]
  BY AnswerTypes
<1>5. UNCHANGED bufs \/ \E q : bufs' = [bufs EXCEPT ![<<c, "sock">>] = q]
  BY <1>2 DEF Written
<1>6. ASSUME NEW d \in Conn
      PROVE  /\ bufs'[<<d, "dev">>] = bufs[<<d, "dev">>]
             /\ in_writing'[<<d, "sock">>] = in_writing[<<d, "sock">>]
  <2>1. /\ <<d, "dev">> \in Conn \X Side /\ <<d, "dev">> # <<c, "sock">>
        /\ <<d, "sock">> \in Conn \X Side /\ <<d, "sock">> # <<c, "dev">>
    BY Keys
  <2> QED  BY <1>2, <1>4, <1>5, <2>1
<1> QED  BY <1>2, <1>6, OthersQuiet

LEMMA AnswerStep ==
  ASSUME TypeInv, \A c \in Conn : SockInv(c), ConsumerInv, AnswerInv, [Next]_vars
  PROVE  AnswerInv'
<1>1. HeadersKept /\ HeadersKept'
  BY HeadersStep DEF AnswerInv
<1>2. SUFFICES ASSUME ~clash' PROVE Right' /\ AnswerState'
  BY <1>1 DEF AnswerInv
<1>0. Right /\ AnswerState
  BY <1>2, KeptGrows DEF AnswerInv
<1>3. ASSUME UNCHANGED <<devbuf, devq, todo, answered>> PROVE AnswerState'
  <2>1. UNCHANGED <<bufs, in_reading, in_writing>>
    BY <1>3 DEF devbuf
  <2> QED  BY <1>0, <1>3, <2>1, OthersQuiet
<1>4. ASSUME NEW c \in Conn, Join(c) PROVE AnswerState'
  BY <1>3, <1>4 DEF Join, Export, Lookup, AddToArray, Link, stub, history
<1>5. ASSUME NEW c \in Conn, ReaderThread(c) \/ ProducerThread(c) \/ RefresherThread(c)
      PROVE  AnswerState'
  BY <1>0, <1>5, ReaderQuiet, ProducerAnswers, RefresherAnswers
<1>6. ASSUME NEW k \in Conn, ConsumerThread(k) PROVE AnswerState'
  <2>1. CASE ConsumerLook(k) \/ ConsumerAdd(k) \/ ConsumerFirst(k) \/ ConsumerWake(k)
    BY <1>3, <2>1 DEF ConsumerLook, ConsumerAdd, ConsumerFirst, ConsumerWake, stub, history
  <2>2. CASE ConsumerTurn(k)
    BY <1>0, <1>1, <2>2, TurnAnswers
  <2>3. CASE ConsumerReadApc(k)
    BY <1>0, <2>3, ReadAnswers
  <2>4. CASE ConsumerWriteApc(k)
    BY <1>0, <2>4, WriteQuiet
  <2> QED  BY <1>6, <2>1, <2>2, <2>3, <2>4 DEF ConsumerThread
<1>7. ASSUME Environment \/ UNCHANGED vars PROVE AnswerState'
  <2>1. CASE StubAnswer
    BY <1>0, <2>1, StubAnswers
  <2>2. CASE ~StubAnswer
    BY <1>3, <1>7, <2>2
    DEF Environment, ClientSend, ClientClose, DeviceGone, signalhandlerPool, vars, stub, history
  <2> QED  BY <2>1, <2>2
<1>8. AnswerState'
  BY <1>4, <1>5, <1>6, <1>7 DEF Next
<1> QED  BY <1>0, <1>2, <1>8, RightStep

LEMMA AnswerInit == Init => AnswerInv
<1> SUFFICES ASSUME Init PROVE AnswerInv
  OBVIOUS
<1>1. Right /\ HeadersKept
  <2>1. Right
    BY DEF Right, Init
  <2>2. ASSUME NEW c \in Conn, NEW i \in 1 .. Len(bufs[<<c, "sock">>])
        PROVE  HeaderKept(bufs[<<c, "sock">>][i], kept)
    <3>1. bufs[<<c, "sock">>] = <<NewBuffer>>
      BY Keys DEF Init
    <3>2. bufs[<<c, "sock">>][i] = NewBuffer
      BY <3>1
    <3> QED  BY <3>2 DEF HeaderKept, NewBuffer
  <2> QED  BY <2>1, <2>2 DEF HeadersKept
<1>2. /\ devq = <<>> /\ todo = {}
      /\ \A c \in Conn : answered[c] = <<>>
      /\ \A c \in Conn : /\ bufs[<<c, "dev">>] = <<NewBuffer>> /\ in_reading[<<c, "dev">>] = 0
                         /\ in_writing[<<c, "sock">>] = FALSE
  BY Keys DEF Init
<1>3. /\ Len(<<NewBuffer>>) = 1 /\ <<NewBuffer>>[1] = NewBuffer
      /\ Last(<<NewBuffer>>) = NewBuffer /\ Len(<<>>) = 0
  BY DEF Last
<1>4. NewBuffer.step = 0 /\ NewBuffer.data = <<>> /\ NewBuffer.off = 0
  BY DEF NewBuffer
<1>5. ASSUME NEW k, NEW m, NEW v PROVE Dev(k, m, <<NewBuffer>>, 0, FALSE, v)
  <2>1. AnswerEach(k, m, <<NewBuffer>>)
    BY <1>3, <1>4 DEF AnswerEach
  <2>2. Begins(k, m, Last(<<NewBuffer>>), v) /\ AsksOne(k, m, Last(<<NewBuffer>>), 0, v)
    BY <1>3, <1>4 DEF Begins, AsksOne
  <2> QED  BY <2>1, <2>2 DEF Dev
<1>6. \A c \in Conn : DevInv(c)
  BY <1>2, <1>5 DEF DevInv
<1>7. Queued /\ OutWhole /\ TodoSent
  BY <1>2, <1>3 DEF Queued, OutWhole, TodoSent
<1>8. ASSUME NEW p \in Place, NEW x \in Conn \X Numbers, Holds(p, x) PROVE FALSE
  <2>1. ~AtWork(p, x) /\ ~InQueue(p, x)
    BY <1>2, <1>3 DEF AtWork, InQueue
  <2>2. ASSUME InBuffer(p, x) PROVE FALSE
    <3>1. p[2] \in Conn /\ p[3] \in 1 .. 1 /\ <<NewBuffer>>[p[3]].data # <<>>
      BY <1>2, <1>3, <2>2 DEF InBuffer
    <3>2. p[3] = 1
      BY <3>1
    <3> QED  BY <1>3, <1>4, <3>1, <3>2
  <2>3. ~InSocket(p, x)
    BY <1>2, <1>3 DEF InSocket
  <2> QED  BY <1>8, <2>1, <2>2, <2>3 DEF Holds
<1>9. OnePlace /\ NotBefore
  BY <1>8 DEF OnePlace, NotBefore
<1> QED  BY <1>1, <1>6, <1>7, <1>9 DEF AnswerInv, AnswerState

\* What is known of the server while connections come one after the other.
PoolInv == TypeInv /\ (\A c \in Conn : SockInv(c)) /\ ConsumerInv /\ AnswerInv

LEMMA PoolInvHolds == NotTogether /\ Spec => []PoolInv
<1>1. NotTogether /\ Init => PoolInv
  BY TypeInvInit, SockInit, ConsumerInit, AnswerInit DEF PoolInv
<1>2. PoolInv /\ [Next]_vars => PoolInv'
  BY TypeInvStep, SockStep, OneStep, ServedStep, AnswerStep DEF PoolInv, ConsumerInv
<1> QED  BY <1>1, <1>2, PTL DEF Spec

\* For any number of clients, whatever they send and whatever fails, and any size of
\* hdrs_cache, if connections come one after the other: until two commands whose
\* answers are still to be sent need one entry of hdrs_cache for two numbers or two
\* directions, every answer that is written to a socket is one whole answer of the
\* stub, and none is written twice.
THEOREM AnswersStayWhole == NotTogether /\ Spec => []AnswersWhole
<1>1. PoolInv => AnswersWhole
  <2> SUFFICES ASSUME PoolInv, ~clash PROVE AnswersWhole
    BY DEF AnswersWhole
  <2>0. TypeInv /\ OutWhole /\ OnePlace
    BY DEF PoolInv, AnswerInv, AnswerState
  <2>1. ASSUME NEW c \in Conn, NEW i \in 1 .. Len(answered[c])
        PROVE  \E d \in Conn : \E n \in 1 .. sent[d] : answered[c][i] = Message(d, n, FALSE)
    <3>1. Whole(scenario.kinds, sent, answered[c][i])
      BY <2>0 DEF OutWhole
    <3>2. PICK d \in Conn : \E n \in 1 .. sent[d] :
                               answered[c][i] = Answer(d, scenario.kinds[d], n)
      BY <3>1 DEF Whole
    <3> QED  BY <3>2, MessageIs
  <2>2. ASSUME NEW c \in Conn, NEW d \in Conn, NEW i \in 1 .. Len(answered[c]),
               NEW j \in 1 .. Len(answered[d]), answered[c][i] = answered[d][j]
        PROVE  c = d /\ i = j
    <3>1. PICK k, m, y : k = scenario.kinds /\ m = sent /\ y = answered[c][i]
      OBVIOUS
    <3>2. m \in [Conn -> Numbers \cup {0}] /\ Whole(k, m, y)
      BY <2>0, <3>1, AnswerTypes DEF OutWhole
    <3>3. PICK e \in Conn, n \in Numbers : AnswerTo(k, m, y, e, n)
      BY <3>2, WholeNames
    <3>4. y[1] = <<e, n, 1>>
      <4>1. Len(y) \in Nat /\ 0 < Len(y)
        BY <3>2, WholeAnswer
      <4>2. 1 \in 1 .. Len(y)
        BY <4>1
      <4> QED  BY <3>3, <4>2 DEF AnswerTo
    <3>5. PICK x : x = <<e, n>>
      OBVIOUS
    <3>6. x \in Conn \X Numbers /\ x[1] = e /\ x[2] = n
      BY <3>5
    <3>7. PICK p, r : p = <<"out", c, i>> /\ r = <<"out", d, j>>
      OBVIOUS
    <3>8. i \in Nat /\ j \in Nat
      OBVIOUS
    <3>9. /\ p \in Place /\ p[1] = "out" /\ p[2] = c /\ p[3] = i
          /\ r \in Place /\ r[1] = "out" /\ r[2] = d /\ r[3] = j
      BY <3>7, <3>8, Places
    <3>10. InSocket(p, x) /\ InSocket(r, x)
      BY <2>2, <3>1, <3>4, <3>6, <3>9 DEF InSocket
    <3>11. p = r
      BY <2>0, <3>6, <3>9, <3>10 DEF OnePlace, Holds
    <3> QED  BY <3>9, <3>11
  <2> QED  BY <2>1, <2>2 DEF AnswersWhole
<1> QED  BY <1>1, PoolInvHolds, PTL

\* Under the same condition, and as long, hdrs_cache gives every answer its direction:
\* it takes a clash of unanswered commands, of two clients or of one that has more than
\* CacheSize of them, to make it mistaken.
THEOREM DirectionsRestored == NotTogether /\ Spec => [](clash \/ DirectionRestored)
<1>1. PoolInv => clash \/ DirectionRestored
  <2> SUFFICES ASSUME PoolInv, ~clash, NEW c \in Conn, NEW i \in 1 .. Len(bufs[<<c, "dev">>]),
                      bufs[<<c, "dev">>][i].step = 3
               PROVE  LET b == bufs[<<c, "dev">>][i]
                      IN b.data = Message(b.data[1][1], b.data[1][2], FALSE)
    BY DEF DirectionRestored
  <2>1. PICK k, m, q, y : /\ k = scenario.kinds /\ m = sent /\ q = bufs[<<c, "dev">>]
                          /\ y = q[i].data
    OBVIOUS
  <2>2. TypeInv /\ DevInv(c)
    BY DEF PoolInv, AnswerInv, AnswerState
  <2>3. m \in [Conn -> Numbers \cup {0}]
    BY <2>1, <2>2, AnswerTypes
  <2>4. Whole(k, m, y)
    <3>1. AnswerEach(k, m, q)
      BY <2>1, <2>2 DEF DevInv, Dev
    <3> QED  BY <2>1, <3>1 DEF AnswerEach
  <2>5. PICK d \in Conn, n \in Numbers : AnswerTo(k, m, y, d, n)
    BY <2>3, <2>4, WholeNames
  <2>6. y[1] = <<d, n, 1>>
    <3>1. Len(y) \in Nat /\ 0 < Len(y)
      BY <2>3, <2>4, WholeAnswer
    <3>2. 1 \in 1 .. Len(y)
      BY <3>1
    <3> QED  BY <2>5, <3>2 DEF AnswerTo
  <2>7. y = Message(y[1][1], y[1][2], FALSE)
    <3>1. y[1][1] = d /\ y[1][2] = n /\ y = Answer(d, k[d], n)
      BY <2>5, <2>6 DEF AnswerTo
    <3> QED  BY ZenonT(60), <2>1, <3>1, MessageIs
  <2> QED  BY <2>1, <2>7
<1> QED  BY <1>1, PoolInvHolds, PTL
=============================================================================
