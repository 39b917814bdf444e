--------------------------- MODULE StubResProofs ---------------------------
(***************************************************************************)
(* Proofs about the queue of results of StubRes, for any set of commands,  *)
(* any lengths of payloads and reads, and any number of threads.           *)
(***************************************************************************)
EXTENDS StubRes, SequenceTheorems, TLAPS

\* The result that is being sent, or that has been sent in part.
Current(r) == sres_ongoing = r \/ \E t \in Thread : snd[t][2] = r

Listed(r) == \E i \in 1 .. Len(sres_head_done) : sres_head_done[i] = r

\* A result that reply_stub_req has been given.
Queued(r) == Listed(r) \/ Current(r) \/ Sent(r)

\* The result r has been sent in part.
InPart(r) == 0 < len_sent_partial /\ len_sent_partial < HDR + pay[r]

\* One thread sends at a time, and none while a read waits.
OneSender ==
  /\ \A t, u \in Thread : snd[t] # Idle /\ snd[u] # Idle => t = u
  /\ irp_stub_read => \A t \in Thread : snd[t] = Idle

\* sres_ongoing and len_sent_partial at each step of send_stub_res, and outside.
Progress ==
  /\ \A t \in Thread :
       LET r == snd[t][2] IN
       /\ snd[t][1] = "store" => \/ sres_ongoing = NoRes /\ len_sent_partial = 0
                                 \/ sres_ongoing = r /\ InPart(r)
       /\ snd[t][1] = "more" => sres_ongoing \in {NoRes, r} /\ InPart(r)
       /\ snd[t][1] = "last" => /\ sres_ongoing \in {NoRes, r}
                                /\ len_sent_partial = HDR + pay[r]
       /\ snd[t][1] = "saved" => sres_ongoing = r /\ InPart(r)
       /\ snd[t][1] = "freed" => /\ sres_ongoing = NoRes
                                 /\ len_sent_partial = HDR + pay[r]
  /\ (\A t \in Thread : snd[t] = Idle) =>
       \/ sres_ongoing = NoRes /\ len_sent_partial = 0
       \/ sres_ongoing # NoRes /\ InPart(sres_ongoing)

\* The last unit received: the end of a result, or where the current one stopped.
Tip ==
  /\ len_sent_partial = 0 =>
       out = <<>> \/ out[Len(out)][2] = HDR + pay[out[Len(out)][1]]
  /\ \A r \in Res : Current(r) /\ len_sent_partial > 0 =>
       out # <<>> /\ out[Len(out)] = <<r, len_sent_partial>>

\* Units are counted from one, those of the current result up to len_sent_partial.
Units ==
  \A k \in 1 .. Len(out) :
    /\ out[k][2] > 0
    /\ Current(out[k][1]) => out[k][2] <= len_sent_partial

\* What is listed has not been sent, and is listed once.
Fresh ==
  /\ \A i \in 1 .. Len(sres_head_done) :
       ~Current(sres_head_done[i]) /\ ~Sent(sres_head_done[i])
  /\ \A i, j \in 1 .. Len(sres_head_done) :
       sres_head_done[i] = sres_head_done[j] => i = j

\* A result is queued by the write or by the completion of its transfer, once.
Pending ==
  /\ \A r \in Res : Queued(r) => r \in written
  /\ wr[1] # "idle" => wr[2] \in written /\ ~Queued(wr[2])
  /\ wr[1] = "cancel" => wr[2][2] = "unlink"
  /\ \A s \in Submits :
       usb[s] \in {"inflight", "marked", "cancelled", "reply", "dropped"} =>
         /\ RetSubmit(s) \in written /\ ~Queued(RetSubmit(s))
         /\ wr[2] # RetSubmit(s)

\* The transfer that IoCancelIrp has cancelled is dropped.
Silent ==
  \A s \in Submits :
    wr_ok[s] => /\ usb[s] \in {"cancelled", "dropped", "freed"}
                /\ RetSubmit(s) \in written /\ ~Queued(RetSubmit(s))
                /\ wr[2] # RetSubmit(s)

\* The forwarder reads at least one unit.
ReadsSome == read_len > 0

SendInv == OneSender /\ WaitsForNothing /\ Progress /\ Fresh
StreamInv == Tip /\ Units /\ Framed /\ SentOnce
ResInv == TypeOK /\ ReadsSome /\ SendInv /\ StreamInv /\ Pending /\ Silent
-----------------------------------------------------------------------------
(* What the lemmas below need of the types.                                 *)

Steps == {"store", "more", "last", "saved", "freed"}

\* A thread is idle or is sending a result.
LEMMA Senders ==
  ASSUME TypeOK
  PROVE  \A t \in Thread :
           \/ snd[t] = Idle /\ snd[t][1] = "idle" /\ snd[t][2] = NoRes
           \/ /\ snd[t] # Idle /\ snd[t] = <<snd[t][1], snd[t][2]>>
              /\ snd[t][1] \in Steps /\ snd[t][2] \in Res
  BY ConstantsAssumption DEF TypeOK, Idle, Steps

\* A unit is a result and a number.
LEMMA OutUnits ==
  ASSUME TypeOK
  PROVE  /\ Len(out) \in Nat
         /\ out # <<>> => Len(out) \in 1 .. Len(out)
         /\ \A k \in 1 .. Len(out) :
              /\ out[k] = <<out[k][1], out[k][2]>>
              /\ out[k][1] \in Res /\ out[k][2] \in Nat
  BY DEF TypeOK

\* RET_SUBMIT and RET_UNLINK are different results, one each for each command.
LEMMA Results ==
  /\ NoRes \notin Res
  /\ \A s \in Submits : RetSubmit(s) \in Res /\ RetUnlink(s) \in Res
  /\ \A s, u \in Submits : RetSubmit(s) # RetUnlink(u)
  /\ \A s, u \in Submits : RetSubmit(s) = RetSubmit(u) => s = u
  /\ \A s \in Submits : RetSubmit(s)[2] = "submit" /\ RetUnlink(s)[2] = "unlink"
  BY ConstantsAssumption DEF Res, RetSubmit, RetUnlink

\* The variables of the queue and of the stream it is sent into.
stream == <<sres_head_done, sres_ongoing, len_sent_partial, irp_stub_read, snd, out>>

\* A payload length may change until its result is queued.
LEMMA StreamKept ==
  ASSUME TypeOK, SendInv, StreamInv, UNCHANGED stream,
         \A r \in Res : Queued(r) => pay'[r] = pay[r]
  PROVE  SendInv' /\ StreamInv' /\ \A r \in Res : Queued(r)' <=> Queued(r)
<1>1. \A r \in Res : /\ Queued(r)' <=> Queued(r)
                     /\ Current(r)' <=> Current(r)
                     /\ Sent(r)' <=> Sent(r)
  BY DEF stream, Queued, Current, Sent, Listed
<1>2. \A r \in Res : Current(r) \/ Sent(r) => pay'[r] = pay[r]
  BY DEF Queued
<1>3. \A k \in 1 .. Len(out) : pay'[out[k][1]] = pay[out[k][1]]
  BY <1>2, OutUnits DEF Sent
<1>4. OneSender' /\ WaitsForNothing' /\ SentOnce'
  BY DEF stream, OneSender, WaitsForNothing, SentOnce, SendInv, StreamInv
<1>5. Progress'
  <2>1. \A t \in Thread : snd[t][1] \in Steps => pay'[snd[t][2]] = pay[snd[t][2]]
    BY <1>2, Senders DEF Current, Steps
  <2>2. sres_ongoing # NoRes => pay'[sres_ongoing] = pay[sres_ongoing]
    BY <1>2 DEF Current, TypeOK
  <2> QED  BY <2>1, <2>2 DEF Progress, SendInv, InPart, stream, Steps
<1>6. Fresh'
  <2>1. \A i \in 1 .. Len(sres_head_done) : sres_head_done[i] \in Res
    BY DEF TypeOK
  <2> QED  BY <1>1, <2>1 DEF Fresh, SendInv, stream
<1>7. Tip'
  BY <1>1, <1>3, OutUnits DEF Tip, StreamInv, stream
<1>8. Units'
  BY <1>1, OutUnits DEF Units, StreamInv, stream
<1>9. Framed'
  <2>1. \A k \in 1 .. Len(out) : k # 1 => k - 1 \in 1 .. Len(out)
    BY OutUnits
  <2> QED  BY <1>3, <2>1 DEF Framed, StreamInv, stream
<1> QED  BY <1>1, <1>4, <1>5, <1>6, <1>7, <1>8, <1>9 DEF SendInv, StreamInv

\* A list of results to send: each once, and none that is current or was sent.
Sendable(q) ==
  /\ q \in Seq(Res)
  /\ \A i \in 1 .. Len(q) : ~Current(q[i]) /\ ~Sent(q[i])
  /\ \A i, j \in 1 .. Len(q) : q[i] = q[j] => i = j

\* Appending a result that is not queued.
LEMMA AppendSendable ==
  ASSUME TypeOK, Fresh, NEW r \in Res, ~Queued(r)
  PROVE  /\ Sendable(Append(sres_head_done, r))
         /\ Append(sres_head_done, r) # <<>>
         /\ \A x \in Res : (\E i \in 1 .. Len(Append(sres_head_done, r)) :
                              Append(sres_head_done, r)[i] = x)
                           <=> Listed(x) \/ x = r
<1> DEFINE q == Append(sres_head_done, r)
<1>1. /\ q \in Seq(Res) /\ Len(q) = Len(sres_head_done) + 1
      /\ Len(sres_head_done) \in Nat
      /\ q[Len(q)] = r
      /\ \A i \in 1 .. Len(sres_head_done) : q[i] = sres_head_done[i]
  BY DEF TypeOK
<1>2. \A i \in 1 .. Len(q) : i = Len(q) \/ i \in 1 .. Len(sres_head_done)
  BY <1>1
<1>3. Sendable(q)
  BY <1>1, <1>2 DEF Sendable, Fresh, Queued, Listed
<1>4. \A x \in Res : (\E i \in 1 .. Len(q) : q[i] = x) <=> Listed(x) \/ x = r
  BY <1>1, <1>2 DEF Listed
<1> QED  BY <1>1, <1>3, <1>4

\* send_irp_sres takes the ongoing result, or the first of the list.
LEMMA SendStarts ==
  ASSUME TypeOK, SendInv, StreamInv, NEW t \in Thread, NEW q, Sendable(q),
         sres_ongoing = NoRes => q # <<>>,
         \A u \in Thread : snd[u] = Idle,
         SendIrpSres(t, q), UNCHANGED <<sres_ongoing, len_sent_partial, pay, out>>
  PROVE  /\ SendInv' /\ StreamInv'
         /\ sres_head_done' \in Seq(Res)
         /\ snd' \in [Thread -> ({"idle"} \X {NoRes}) \cup (Steps \X Res)]
         /\ irp_stub_read' = FALSE
         /\ \A r \in Res : Queued(r)' <=>
              (\E i \in 1 .. Len(q) : q[i] = r) \/ Current(r) \/ Sent(r)
<1> DEFINE IsIn(r, z) == \E i \in 1 .. Len(z) : z[i] = r
<1>1. PICK x \in Res :
        /\ snd' = [snd EXCEPT ![t] = <<"store", x>>]
        /\ \/ sres_ongoing # NoRes /\ x = sres_ongoing /\ sres_head_done' = q
           \/ /\ sres_ongoing = NoRes /\ q # <<>> /\ x = Head(q)
              /\ sres_head_done' = Tail(q)
  BY DEF SendIrpSres, TypeOK, Sendable
<1>2. /\ snd'[t] = <<"store", x>> /\ snd'[t][1] = "store" /\ snd'[t][2] = x
      /\ snd'[t] # Idle /\ \A u \in Thread \ {t} : snd'[u] = Idle
  BY <1>1, Results DEF TypeOK, Idle
<1>3. \A u \in Thread \ {t} : snd'[u][1] = "idle" /\ snd'[u][2] = NoRes
  BY <1>2 DEF Idle
<1>4. \A r \in Res : Current(r) <=> sres_ongoing = r
  BY Results DEF Current, Idle
<1>5. \A r \in Res : Current(r)' <=> r = x
  BY <1>1, <1>2, <1>3, Results DEF Current
<1>6. \A r \in Res : Sent(r)' <=> Sent(r)
  BY DEF Sent
<1>9. /\ snd' \in [Thread -> ({"idle"} \X {NoRes}) \cup (Steps \X Res)]
      /\ irp_stub_read' = FALSE
  BY <1>1 DEF TypeOK, Steps, SendIrpSres
<1>7. CASE sres_ongoing # NoRes
  <2>1. x = sres_ongoing /\ sres_head_done' = q
    BY <1>1, <1>7
  <2>2. \A r \in Res : Current(r)' <=> Current(r)
    BY <1>4, <1>5, <2>1
  <2>3. \A i \in 1 .. Len(q) : q[i] \in Res
    BY DEF Sendable
  <2>4. Fresh'
    BY <1>6, <2>1, <2>2, <2>3 DEF Sendable, Fresh
  <2>5. OneSender' /\ WaitsForNothing'
    BY <1>2 DEF OneSender, WaitsForNothing, SendIrpSres
  <2>6. Progress'
    <3>1. InPart(x)
      BY <1>7, <2>1 DEF SendInv, Progress
    <3>2. InPart(x)'
      BY <3>1 DEF InPart
    <3> QED  BY <1>2, <1>3, <2>1, <3>2 DEF Progress
  <2>7. Tip' /\ Units' /\ Framed' /\ SentOnce'
    BY <2>2, OutUnits DEF Tip, Units, Framed, SentOnce, StreamInv
  <2>8. \A r \in Res : Queued(r)' <=> IsIn(r, q) \/ Current(r) \/ Sent(r)
    BY <1>6, <2>1, <2>2 DEF Queued, Listed
  <2> QED  BY <1>9, <2>1, <2>4, <2>5, <2>6, <2>7, <2>8 DEF SendInv, StreamInv, Sendable
<1>8. CASE sres_ongoing = NoRes
  <2>1. x = Head(q) /\ sres_head_done' = Tail(q) /\ q # <<>>
    BY <1>1, <1>8
  <2>2. /\ Tail(q) \in Seq(Res) /\ Len(q) \in Nat \ {0}
        /\ q[1] = x /\ Len(Tail(q)) = Len(q) - 1
        /\ \A i \in 1 .. Len(Tail(q)) : /\ Tail(q)[i] = q[i + 1]
                                        /\ i + 1 \in 1 .. Len(q)
                                        /\ q[i + 1] \in Res
    BY <2>1 DEF Sendable
  <2>3. \A i \in 1 .. Len(q) : i = 1 \/ (i - 1 \in 1 .. Len(Tail(q)) /\ q[i] = Tail(q)[i - 1])
    BY <2>2
  <2>4. len_sent_partial = 0
    BY <1>8 DEF SendInv, Progress
  <2>5. ~Sent(x)
    BY <2>2 DEF Sendable
  <2>6. Fresh'
    <3>1. \A i \in 1 .. Len(Tail(q)) : Tail(q)[i] # x /\ Tail(q)[i] \in Res
      BY <2>2 DEF Sendable
    <3>2. \A i \in 1 .. Len(Tail(q)) : ~Current(Tail(q)[i])' /\ ~Sent(Tail(q)[i])'
      BY <1>5, <1>6, <2>2, <3>1 DEF Sendable
    <3>3. \A i, j \in 1 .. Len(Tail(q)) : Tail(q)[i] = Tail(q)[j] => i = j
      BY <2>2 DEF Sendable
    <3> QED  BY <2>1, <3>2, <3>3 DEF Fresh
  <2>7. OneSender' /\ WaitsForNothing'
    BY <1>2 DEF OneSender, WaitsForNothing, SendIrpSres
  <2>8. Progress'
    BY <1>2, <1>3, <1>8, <2>4 DEF Progress
  <2>9. Tip'
    BY <2>4 DEF Tip, StreamInv
  <2>10. Units'
    BY <1>5, <2>5, OutUnits DEF Units, StreamInv, Sent
  <2>11. Framed' /\ SentOnce'
    BY DEF Framed, SentOnce, StreamInv
  <2>12. \A r \in Res : Queued(r)' <=> IsIn(r, q) \/ Current(r) \/ Sent(r)
    <3>1. \A r \in Res : IsIn(r, q) <=> IsIn(r, Tail(q)) \/ r = x
      <4> TAKE r \in Res
      <4>1. IsIn(r, q) => IsIn(r, Tail(q)) \/ r = x
        BY <2>2, <2>3
      <4>2. IsIn(r, Tail(q)) => IsIn(r, q)
        BY <2>2
      <4>3. 1 \in 1 .. Len(q)
        BY <2>2
      <4>4. r = x => IsIn(r, q)
        BY <2>2, <4>3
      <4> QED  BY <4>1, <4>2, <4>4
    <3>2. \A r \in Res : Listed(r)' <=> IsIn(r, Tail(q))
      BY <2>1 DEF Listed
    <3>3. \A r \in Res : ~Current(r)
      BY <1>4, <1>8, Results
    <3> QED  BY <1>5, <1>6, <3>1, <3>2, <3>3 DEF Queued
  <2> QED  BY <1>9, <2>1, <2>2, <2>6, <2>7, <2>8, <2>9, <2>10, <2>11, <2>12
           DEF SendInv, StreamInv
<1> QED  BY <1>7, <1>8

\* While a thread sends, its result is the only current one.
LEMMA SenderIsCurrent ==
  ASSUME TypeOK, SendInv, NEW t \in Thread, snd[t] # Idle
  PROVE  /\ snd[t][1] \in Steps /\ snd[t][2] \in Res
         /\ \A u \in Thread \ {t} : snd[u] = Idle
         /\ ~irp_stub_read
         /\ sres_ongoing \in {NoRes, snd[t][2]}
         /\ \A x \in Res : Current(x) <=> x = snd[t][2]
<1>1. \A u \in Thread \ {t} : snd[u] = Idle /\ snd[u][2] = NoRes
  BY Senders DEF SendInv, OneSender
<1>2. snd[t][1] \in Steps /\ snd[t][2] \in Res /\ ~irp_stub_read
  BY Senders DEF SendInv, OneSender
<1>3. sres_ongoing \in {NoRes, snd[t][2]}
  BY <1>2 DEF SendInv, Progress, Steps
<1>4. \A x \in Res : Current(x) <=> x = snd[t][2]
  BY <1>1, <1>2, <1>3, Results DEF Current
<1> QED  BY <1>1, <1>2, <1>3, <1>4

\* A sequence and the one behind it, whose elements are numbered from m + 1.
LEMMA Concatenated ==
  ASSUME NEW S, NEW r, NEW m \in Nat, NEW n \in Nat \ {0},
         NEW o \in Seq(S), NEW d \in Seq(S), Len(d) = n,
         \A k \in 1 .. n : d[k] = <<r, m + k>>,
         NEW p, p = o \o d
  PROVE  /\ p \in Seq(S) /\ Len(o) \in Nat /\ Len(p) = Len(o) + n
         /\ \A k \in 1 .. Len(o) : p[k] = o[k]
         /\ \A k \in 1 .. Len(p) : k > Len(o) =>
              /\ p[k] = <<r, m + (k - Len(o))>>
              /\ p[k][1] = r /\ p[k][2] = m + (k - Len(o))
<1>1. /\ p \in Seq(S) /\ Len(o) \in Nat /\ Len(p) = Len(o) + n
      /\ \A k \in 1 .. Len(o) : p[k] = o[k]
      /\ \A k \in 1 .. n : p[Len(o) + k] = d[k]
  OBVIOUS
<1>2. ASSUME NEW k \in 1 .. Len(p), k > Len(o)
      PROVE  /\ p[k] = <<r, m + (k - Len(o))>>
             /\ p[k][1] = r /\ p[k][2] = m + (k - Len(o))
  <2>1. k - Len(o) \in 1 .. n /\ k = Len(o) + (k - Len(o))
    BY <1>1, <1>2
  <2>2. p[k] = d[k - Len(o)]
    BY <1>1, <2>1
  <2> QED  BY <2>1, <2>2
<1> QED  BY <1>1, <1>2

\* The stream after n more units of result r, of which m had been sent.
LEMMA Extended ==
  ASSUME NEW R, NEW r \in R, NEW m \in Nat, NEW n \in Nat \ {0},
         NEW o \in Seq(R \X Nat), NEW p,
         p = o \o [k \in 1 .. n |-> <<r, m + k>>]
  PROVE  /\ p \in Seq(R \X Nat) /\ Len(o) \in Nat /\ Len(p) = Len(o) + n
         /\ \A k \in 1 .. Len(o) : p[k] = o[k]
         /\ \A k \in 1 .. Len(p) : k > Len(o) =>
              /\ p[k] = <<r, m + (k - Len(o))>>
              /\ p[k][1] = r /\ p[k][2] = m + (k - Len(o))
<1>1. PICK d : d = [k \in 1 .. n |-> <<r, m + k>>]
  OBVIOUS
<1>2. d \in Seq(R \X Nat) /\ Len(d) = n /\ \A k \in 1 .. n : d[k] = <<r, m + k>>
  <2>1. \A k \in 1 .. n : <<r, m + k>> \in R \X Nat
    OBVIOUS
  <2>2. d \in [1 .. n -> R \X Nat]
    BY <1>1, <2>1
  <2> QED  BY <1>1, <2>2, SeqDef
<1>3. PICK S : S = R \X Nat
  OBVIOUS
<1>4. p = o \o d /\ o \in Seq(S) /\ d \in Seq(S)
  BY <1>1, <1>2, <1>3
<1> QED  BY SMTT(30), <1>2, <1>3, <1>4, Concatenated

\* send_stub_res appends units of the current result to the stream.
LEMMA StoreKeeps ==
  ASSUME TypeOK, ReadsSome, SendInv, StreamInv, NEW t \in Thread, SendStore(t)
  PROVE  /\ SendInv' /\ StreamInv'
         /\ len_sent_partial' \in Nat /\ out' \in Seq(Res \X Nat)
         /\ snd' \in [Thread -> ({"idle"} \X {NoRes}) \cup (Steps \X Res)]
         /\ \A x \in Res : Queued(x)' <=> Queued(x)
<1>1. PICK r \in Res :
        /\ r = snd[t][2] /\ snd[t][1] = "store"
        /\ \A u \in Thread \ {t} : snd[u] = Idle
        /\ ~irp_stub_read /\ sres_ongoing \in {NoRes, r}
        /\ \A x \in Res : Current(x) <=> x = r
  BY SenderIsCurrent, Senders DEF SendStore, Idle
<1>2. /\ len_sent_partial \in Nat /\ pay[r] \in Nat /\ HDR \in Nat \ {0}
      /\ read_len \in Nat \ {0}
  BY <1>1, ConstantsAssumption DEF TypeOK, ReadsSome
<1>3. len_sent_partial < HDR + pay[r]
  BY <1>1, <1>2 DEF SendInv, Progress, InPart
<1>4. PICK n \in Nat \ {0} :
        n = Fit(r) /\ n <= Left(r) /\ Left(r) = HDR + pay[r] - len_sent_partial
  BY <1>2, <1>3 DEF Left, Fit
<1>5. PICK step \in {"more", "last"} :
        /\ step = "more" <=> n < Left(r)
        /\ out' = out \o [k \in 1 .. n |-> <<r, len_sent_partial + k>>]
        /\ snd' = [snd EXCEPT ![t] = <<step, r>>]
  BY <1>1, <1>4 DEF SendStore
<1>6. /\ len_sent_partial' = len_sent_partial + n
      /\ UNCHANGED <<sres_head_done, sres_ongoing, irp_stub_read, pay>>
  BY <1>1, <1>4 DEF SendStore
<1>7. PICK L \in Nat :
        /\ L = Len(out) /\ Len(out') = L + n /\ out' \in Seq(Res \X Nat)
        /\ \A k \in 1 .. L : out'[k] = out[k]
        /\ \A k \in 1 .. L + n : k > L =>
             /\ out'[k] = <<r, len_sent_partial + (k - L)>>
             /\ out'[k][1] = r /\ out'[k][2] = len_sent_partial + (k - L)
  <2>1. out \in Seq(Res \X Nat)
    BY DEF TypeOK
  <2>2. /\ out' \in Seq(Res \X Nat) /\ Len(out) \in Nat /\ Len(out') = Len(out) + n
        /\ \A k \in 1 .. Len(out) : out'[k] = out[k]
        /\ \A k \in 1 .. Len(out') : k > Len(out) =>
             /\ out'[k] = <<r, len_sent_partial + (k - Len(out))>>
             /\ out'[k][1] = r /\ out'[k][2] = len_sent_partial + (k - Len(out))
    BY <1>2, <1>5, <2>1, Extended
  <2>3. PICK L \in Nat : L = Len(out)
    BY <2>2
  <2>4. Len(out') = L + n
    BY <2>2, <2>3
  <2> QED  BY <2>2, <2>3, <2>4
<1>8. /\ snd'[t] = <<step, r>> /\ snd'[t][1] = step /\ snd'[t][2] = r
      /\ \A u \in Thread : u # t => snd'[u] = snd[u]
  BY <1>5 DEF TypeOK
<1>9. snd' \in [Thread -> ({"idle"} \X {NoRes}) \cup (Steps \X Res)]
  BY <1>1, <1>5 DEF TypeOK, Steps
<1>10. \A x : Current(x)' <=> Current(x)
  BY <1>1, <1>6, <1>8 DEF Current
<1>11. \A k \in 1 .. L + n : k \in 1 .. L \/ k > L
  BY <1>7
<1>12. \A x \in Res : Sent(x)' <=> Sent(x) \/ x = r
  <2>1. L + n \in 1 .. L + n /\ L + n > L
    OBVIOUS
  <2>2. \A k \in 1 .. L : k \in 1 .. L + n
    OBVIOUS
  <2> QED  BY <1>7, <1>11, <2>1, <2>2 DEF Sent
<1>13. \A x \in Res : Queued(x)' <=> Queued(x)
  BY <1>1, <1>6, <1>10, <1>12 DEF Queued, Listed
<1>14. OneSender' /\ WaitsForNothing'
  <2>1. \A u \in Thread : u # t => snd'[u] = Idle
    BY <1>1, <1>8
  <2> QED  BY <1>1, <1>6, <2>1 DEF OneSender, WaitsForNothing
<1>15. Progress'
  <2>1. snd'[t] # Idle
    BY <1>5, <1>8 DEF Idle
  <2>2. \A u \in Thread : u # t => snd'[u][1] = "idle"
    BY <1>1, <1>8 DEF Idle
  <2>3. step = "more" => InPart(r)'
    BY SMTT(30), <1>2, <1>4, <1>5, <1>6 DEF InPart
  <2>4. step = "last" => len_sent_partial' = HDR + pay'[r]
    BY SMTT(30), <1>2, <1>4, <1>5, <1>6
  <2> QED  BY <1>1, <1>5, <1>6, <1>8, <2>1, <2>2, <2>3, <2>4 DEF Progress
<1>16. Fresh'
  <2>1. \A i \in 1 .. Len(sres_head_done) :
          /\ sres_head_done[i] \in Res /\ sres_head_done[i] # r
          /\ ~Sent(sres_head_done[i])
    BY <1>1 DEF Fresh, SendInv, TypeOK
  <2>2. \A i \in 1 .. Len(sres_head_done) :
          ~Current(sres_head_done[i])' /\ ~Sent(sres_head_done[i])'
    BY <1>1, <1>6, <1>10, <1>12, <2>1
  <2> QED  BY <1>6, <2>2 DEF Fresh, SendInv
<1>17. Tip'
  <2>1. L + n \in 1 .. L + n /\ L + n > L
    OBVIOUS
  <2>2. out'[Len(out')] = <<r, len_sent_partial'>> /\ out' # <<>>
    BY <1>2, <1>6, <1>7, <2>1
  <2>3. len_sent_partial' # 0
    BY <1>2, <1>6
  <2> QED  BY <1>1, <1>10, <2>2, <2>3 DEF Tip
<1>18. Units'
  <2>1. \A k \in 1 .. L + n : out'[k][2] > 0
    BY SMTT(30), <1>2, <1>7, <1>11 DEF Units, StreamInv
  <2>2. \A k \in 1 .. L + n : out'[k][1] = r => out'[k][2] <= len_sent_partial'
    <3>1. \A k \in 1 .. L : out[k][1] = r => out[k][2] \in Nat /\ out[k][2] <= len_sent_partial
      BY <1>1, <1>7, OutUnits DEF Units, StreamInv
    <3> SUFFICES ASSUME NEW k \in 1 .. L + n, out'[k][1] = r
                 PROVE  out'[k][2] <= len_sent_partial + n
      BY <1>6
    <3>2. CASE k \in 1 .. L
      BY SMTT(30), <1>2, <1>7, <3>1, <3>2
    <3>3. CASE k > L
      <4>1. out'[k][2] = len_sent_partial + (k - L)
        BY <1>7, <3>3
      <4> QED  BY <1>2, <4>1
    <3> QED  BY <1>11, <3>2, <3>3
  <2>3. \A k \in 1 .. L + n : out'[k][1] \in Res
    BY <1>7, <1>11, OutUnits
  <2>4. \A x \in Res : Current(x)' <=> x = r
    BY <1>1, <1>10
  <2>5. \A k \in 1 .. L + n : Current(out[k][1])' => out'[k][1] = r
    BY <2>3, <2>4 DEF Current
  <2> QED  BY <1>7, <2>1, <2>2, <2>5 DEF Units
<1>19. Framed'
  <2> SUFFICES ASSUME NEW k \in 1 .. L + n
               PROVE  IF out'[k][2] = 1
                        THEN k = 1 \/ out'[k - 1][2] = HDR + pay'[out'[k - 1][1]]
                        ELSE k > 1 /\ out'[k - 1] = <<out'[k][1], out'[k][2] - 1>>
    BY <1>7 DEF Framed
  <2>1. CASE k <= L
    <3>1. k \in 1 .. L /\ (k # 1 => k - 1 \in 1 .. L)
      BY <2>1
    <3>2. out'[k] = out[k] /\ (k # 1 => out'[k - 1] = out[k - 1])
      BY <1>7, <3>1
    <3>3. IF out[k][2] = 1
            THEN k = 1 \/ out[k - 1][2] = HDR + pay[out[k - 1][1]]
            ELSE k > 1 /\ out[k - 1] = <<out[k][1], out[k][2] - 1>>
      BY <1>7, <3>1 DEF Framed, StreamInv
    <3>4. k > 1 => out'[k - 1] = out[k - 1]
      BY <3>2
    <3>5. CASE k = 1
      BY <3>2, <3>3, <3>5
    <3>6. CASE k > 1
      <4>1. out'[k - 1] = out[k - 1] /\ pay' = pay
        BY <1>6, <3>4, <3>6
      <4> QED  BY <3>2, <3>3, <4>1
    <3> QED  BY <3>1, <3>5, <3>6
  <2>2. CASE k > L + 1
    <3>1. k - 1 \in 1 .. L + n /\ k - 1 > L /\ k > L
      BY <2>2
    <3>2. /\ out'[k][1] = r /\ out'[k][2] = len_sent_partial + (k - L)
          /\ out'[k - 1] = <<r, len_sent_partial + ((k - 1) - L)>>
      BY <1>7, <3>1
    <3>3. /\ len_sent_partial + (k - L) # 1
          /\ len_sent_partial + ((k - 1) - L) = len_sent_partial + (k - L) - 1
      BY <1>2, <2>2
    <3>4. out'[k][2] # 1
      BY <3>2, <3>3
    <3>5. out'[k - 1] = <<out'[k][1], out'[k][2] - 1>>
      <4>1. out'[k][2] - 1 = len_sent_partial + ((k - 1) - L)
        BY <1>2, <3>2
      <4> QED  BY <3>2, <4>1
    <3>6. k > 1
      BY <2>2
    <3> QED  BY <3>4, <3>5, <3>6
  <2>3. CASE k = L + 1
    <3>1. out'[k][1] = r /\ out'[k][2] = len_sent_partial + 1 /\ k - 1 = L
      <4>1. k > L /\ k - L = 1 /\ k - 1 = L
        BY <2>3
      <4>2. out'[k][1] = r /\ out'[k][2] = len_sent_partial + (k - L)
        BY <1>7, <4>1
      <4> QED  BY <4>1, <4>2
    <3>2. k # 1 => L \in 1 .. L /\ out # <<>> /\ out'[k - 1] = out[Len(out)]
      BY <1>7, <2>3, <3>1
    <3>3. CASE len_sent_partial = 0
      BY <1>6, <3>1, <3>2, <3>3 DEF Tip, StreamInv
    <3>4. CASE len_sent_partial > 0
      <4>1. out # <<>> /\ out[Len(out)] = <<r, len_sent_partial>>
        BY <1>1, <3>4 DEF Tip, StreamInv
      <4>2. k > 1
        BY <1>7, <2>3, <4>1, OutUnits
      <4>3. out'[k - 1] = <<r, len_sent_partial>>
        BY <3>2, <4>1, <4>2
      <4>4. len_sent_partial + 1 # 1 /\ (len_sent_partial + 1) - 1 = len_sent_partial
        BY <1>2, <3>4
      <4> QED  BY <3>1, <4>2, <4>3, <4>4
    <3> QED  BY <1>2, <3>3, <3>4
  <2> QED  BY <2>1, <2>2, <2>3
<1>20. SentOnce'
  <2> SUFFICES ASSUME NEW j \in 1 .. L + n, NEW k \in 1 .. L + n,
                      out'[j] = out'[k], j <= k
               PROVE  j = k
    BY <1>7 DEF SentOnce
  <2>1. CASE k <= L
    <3>1. j \in 1 .. L /\ k \in 1 .. L
      BY <2>1
    <3> QED  BY <1>7, <3>1 DEF SentOnce, StreamInv
  <2>2. CASE k > L /\ j <= L
    <3>1. j \in 1 .. L
      BY <2>2
    <3>2. out[j][1] = r /\ out[j][2] = len_sent_partial + (k - L)
      BY <1>7, <2>2, <3>1
    <3>3. out[j][2] <= len_sent_partial
      BY <1>1, <1>7, <3>1, <3>2 DEF Units, StreamInv
    <3> QED  BY <1>2, <2>2, <3>2, <3>3
  <2>3. CASE j > L
    <3>1. len_sent_partial + (j - L) = len_sent_partial + (k - L)
      BY <1>7, <2>3
    <3> QED  BY <1>2, <3>1
  <2> QED  BY <2>1, <2>2, <2>3
<1> QED  BY SMTT(30), <1>2, <1>4, <1>6, <1>7, <1>9, <1>13, <1>14, <1>15, <1>16, <1>17, <1>18, <1>19, <1>20
         DEF SendInv, StreamInv

\* save_pending_sres remembers the current result, or frees it.
LEMMA SaveKeeps ==
  ASSUME TypeOK, SendInv, StreamInv, NEW t \in Thread, SavePendingSres(t)
  PROVE  /\ SendInv' /\ StreamInv'
         /\ sres_ongoing' \in Res \cup {NoRes}
         /\ snd' \in [Thread -> ({"idle"} \X {NoRes}) \cup (Steps \X Res)]
         /\ \A x \in Res : Queued(x)' <=> Queued(x)
<1>1. PICK r \in Res :
        /\ r = snd[t][2] /\ snd[t] = <<snd[t][1], r>> /\ snd[t][1] \in {"more", "last"}
        /\ \A u \in Thread \ {t} : snd[u] = Idle
        /\ ~irp_stub_read
        /\ \A x \in Res : Current(x) <=> x = r
  BY SenderIsCurrent, Senders DEF SavePendingSres, Idle
<1>2. PICK step \in {"saved", "freed"} :
        /\ snd' = [snd EXCEPT ![t] = <<step, r>>]
        /\ step = "saved" => snd[t][1] = "more" /\ sres_ongoing' = r
        /\ step = "freed" => snd[t][1] = "last" /\ sres_ongoing' = NoRes
  <2>1. snd' = [snd EXCEPT ![t] = <<IF snd[t][1] = "more" THEN "saved" ELSE "freed", r>>]
    BY <1>1 DEF SavePendingSres, TypeOK
  <2> QED  BY <1>1, <2>1 DEF SavePendingSres, OngoingSaved
<1>3. UNCHANGED <<sres_head_done, len_sent_partial, irp_stub_read, pay, out>>
  BY DEF SavePendingSres
<1>4. /\ snd'[t][1] = step /\ snd'[t][2] = r /\ snd'[t] # Idle
      /\ \A u \in Thread : u # t => snd'[u] = Idle /\ snd'[u][1] = "idle" /\ snd'[u][2] = NoRes
  BY <1>1, <1>2 DEF TypeOK, Idle
<1>5. snd' \in [Thread -> ({"idle"} \X {NoRes}) \cup (Steps \X Res)]
  BY <1>1, <1>2 DEF TypeOK, Steps
<1>6. \A x \in Res : Current(x)' <=> Current(x)
  BY <1>1, <1>2, <1>4, Results DEF Current
<1>7. \A x \in Res : /\ Sent(x)' <=> Sent(x)
                     /\ Queued(x)' <=> Queued(x)
  BY <1>3, <1>6 DEF Sent, Queued, Listed
<1>8. OneSender' /\ WaitsForNothing'
  BY <1>1, <1>3, <1>4 DEF OneSender, WaitsForNothing
<1>9. Progress'
  <2>1. snd[t][1] = "more" => InPart(r)
    BY <1>1 DEF SendInv, Progress
  <2>2. snd[t][1] = "last" => len_sent_partial = HDR + pay[r]
    BY <1>1 DEF SendInv, Progress
  <2>3. step = "saved" => InPart(r)'
    BY <1>2, <1>3, <2>1 DEF InPart
  <2>4. step = "freed" => len_sent_partial' = HDR + pay'[r]
    BY <1>2, <1>3, <2>2
  <2> QED  BY <1>2, <1>4, <2>3, <2>4 DEF Progress
<1>10. Fresh'
  <2>1. \A i \in 1 .. Len(sres_head_done) : sres_head_done[i] \in Res
    BY DEF TypeOK
  <2> QED  BY <1>3, <1>6, <1>7, <2>1 DEF Fresh, SendInv
<1>11. Tip' /\ Units' /\ Framed' /\ SentOnce'
  BY <1>3, <1>6, OutUnits DEF Tip, Units, Framed, SentOnce, StreamInv
<1> QED  BY <1>2, <1>5, <1>7, <1>8, <1>9, <1>10, <1>11 DEF SendInv, StreamInv

\* The end of send_stub_res.
LEMMA DoneKeeps ==
  ASSUME TypeOK, SendInv, StreamInv, NEW t \in Thread, SendDone(t)
  PROVE  /\ SendInv' /\ StreamInv'
         /\ len_sent_partial' \in Nat
         /\ snd' \in [Thread -> ({"idle"} \X {NoRes}) \cup (Steps \X Res)]
         /\ \A x \in Res : Queued(x)' <=> Queued(x)
<1>1. PICK r \in Res :
        /\ r = snd[t][2] /\ snd[t][1] \in {"saved", "freed"}
        /\ \A u \in Thread \ {t} : snd[u] = Idle
        /\ ~irp_stub_read
        /\ \A x \in Res : Current(x) <=> x = r
  BY SenderIsCurrent, Senders DEF SendDone, Idle
<1>2. UNCHANGED <<sres_head_done, sres_ongoing, irp_stub_read, pay, out>>
  BY DEF SendDone
<1>3. /\ snd' \in [Thread -> ({"idle"} \X {NoRes}) \cup (Steps \X Res)]
      /\ \A u \in Thread : snd'[u] = Idle /\ snd'[u][1] = "idle" /\ snd'[u][2] = NoRes
  BY <1>1 DEF SendDone, TypeOK, Idle, Steps
<1>4. \A x \in Res : Sent(x)' <=> Sent(x)
  BY <1>2 DEF Sent
<1>5. OneSender' /\ WaitsForNothing'
  BY <1>1, <1>2, <1>3 DEF OneSender, WaitsForNothing
<1>6. /\ len_sent_partial \in Nat /\ HDR \in Nat \ {0} /\ pay[r] \in Nat
      /\ \A i \in 1 .. Len(sres_head_done) : sres_head_done[i] \in Res
  BY ConstantsAssumption DEF TypeOK
<1>7. CASE snd[t][1] = "saved"
  <2>1. len_sent_partial' = len_sent_partial /\ sres_ongoing = r /\ InPart(r)
    BY <1>1, <1>7 DEF SendDone, LenSaved, SendInv, Progress
  <2>2. \A x \in Res : Current(x)' <=> Current(x)
    BY <1>1, <1>2, <1>3, <2>1, Results DEF Current
  <2>3. \A x \in Res : Queued(x)' <=> Queued(x)
    BY <1>2, <1>4, <2>2 DEF Queued, Listed
  <2>4. Progress'
    BY <1>2, <1>3, <2>1, Results DEF Progress, InPart
  <2>5. Fresh'
    BY <1>2, <1>4, <1>6, <2>2 DEF Fresh, SendInv
  <2>6. Tip' /\ Units' /\ Framed' /\ SentOnce'
    BY <1>2, <2>1, <2>2, OutUnits DEF Tip, Units, Framed, SentOnce, StreamInv
  <2> QED  BY <1>3, <1>5, <1>6, <2>1, <2>3, <2>4, <2>5, <2>6 DEF SendInv, StreamInv
<1>8. CASE snd[t][1] = "freed"
  <2>1. /\ len_sent_partial' = 0 /\ sres_ongoing = NoRes
        /\ len_sent_partial = HDR + pay[r]
    BY <1>1, <1>8 DEF SendDone, LenSaved, SendInv, Progress
  <2>2. \A x \in Res : ~Current(x)'
    BY <1>2, <1>3, <2>1, Results DEF Current
  <2>3. out # <<>> /\ out[Len(out)] = <<r, HDR + pay[r]>>
    BY <1>1, <1>6, <2>1 DEF Tip, StreamInv
  <2>4. Sent(r)
    BY <2>3, OutUnits DEF Sent
  <2>5. \A x \in Res : Queued(x)' <=> Queued(x)
    BY <1>1, <1>2, <1>4, <2>2, <2>4 DEF Queued, Listed
  <2>6. Progress'
    BY <1>2, <1>3, <2>1 DEF Progress
  <2>7. Fresh'
    BY <1>2, <1>4, <1>6, <2>2 DEF Fresh, SendInv
  <2>8. Tip'
    BY <1>2, <2>1, <2>2, <2>3 DEF Tip
  <2>9. Units'
    BY <1>2, <2>2, OutUnits DEF Units, StreamInv
  <2>10. Framed' /\ SentOnce'
    BY <1>2 DEF Framed, SentOnce, StreamInv
  <2> QED  BY <1>3, <1>5, <2>1, <2>5, <2>6, <2>7, <2>8, <2>9, <2>10 DEF SendInv, StreamInv
<1> QED  BY <1>1, <1>7, <1>8

\* reply_stub_req queues one more result.
LEMMA ReplyKeeps ==
  ASSUME TypeOK, SendInv, StreamInv, NEW t \in Thread, NEW r \in Res, ~Queued(r),
         ReplyStubReq(t, r), UNCHANGED <<sres_ongoing, len_sent_partial, pay, out>>
  PROVE  /\ SendInv' /\ StreamInv'
         /\ sres_head_done' \in Seq(Res) /\ irp_stub_read' \in BOOLEAN
         /\ snd' \in [Thread -> ({"idle"} \X {NoRes}) \cup (Steps \X Res)]
         /\ \A x \in Res : Queued(x)' <=> Queued(x) \/ x = r
<1> DEFINE q == Append(sres_head_done, r)
<1>1. /\ Sendable(q) /\ q # <<>>
      /\ \A x \in Res : (\E i \in 1 .. Len(q) : q[i] = x) <=> Listed(x) \/ x = r
  BY AppendSendable DEF SendInv
<1>2. CASE irp_stub_read
  <2>1. SendIrpSres(t, q) /\ \A u \in Thread : snd[u] = Idle
    BY <1>2 DEF ReplyStubReq, SendInv, OneSender
  <2> HIDE DEF q
  <2>2. /\ SendInv' /\ StreamInv'
        /\ sres_head_done' \in Seq(Res) /\ irp_stub_read' = FALSE
        /\ snd' \in [Thread -> ({"idle"} \X {NoRes}) \cup (Steps \X Res)]
        /\ \A x \in Res : Queued(x)' <=>
             (\E i \in 1 .. Len(q) : q[i] = x) \/ Current(x) \/ Sent(x)
    BY <1>1, <2>1, SendStarts
  <2>3. \A x \in Res : Queued(x)' <=> Queued(x) \/ x = r
    BY <1>1, <2>2 DEF Queued
  <2> QED  BY <2>2, <2>3
<1>3. CASE ~irp_stub_read
  <2>1. sres_head_done' = q /\ UNCHANGED <<irp_stub_read, snd>>
    BY <1>3 DEF ReplyStubReq
  <2> HIDE DEF q
  <2>2. \A x : (Current(x)' <=> Current(x)) /\ (Sent(x)' <=> Sent(x))
    BY <2>1 DEF Current, Sent
  <2>3. \A x \in Res : Queued(x)' <=> Queued(x) \/ x = r
    BY <1>1, <2>1, <2>2 DEF Queued, Listed
  <2>4. OneSender' /\ WaitsForNothing' /\ Progress'
    BY <1>3, <2>1 DEF OneSender, WaitsForNothing, Progress, InPart, SendInv
  <2>5. Fresh'
    BY <1>1, <2>1, <2>2 DEF Fresh, Sendable
  <2>6. Tip' /\ Units' /\ Framed' /\ SentOnce'
    BY <2>1, <2>2, OutUnits DEF Tip, Units, Framed, SentOnce, StreamInv
  <2>7. sres_head_done' \in Seq(Res) /\ irp_stub_read' \in BOOLEAN
    BY <1>1, <2>1 DEF Sendable, TypeOK
  <2>8. snd' \in [Thread -> ({"idle"} \X {NoRes}) \cup (Steps \X Res)]
    BY <2>1 DEF TypeOK, Steps
  <2> QED  BY <2>3, <2>4, <2>5, <2>6, <2>7, <2>8 DEF SendInv, StreamInv
<1> QED  BY <1>2, <1>3

\* A step that queues nothing keeps what is known of results that wait.
LEMMA WaitingKept ==
  ASSUME TypeOK, Pending, Silent, UNCHANGED <<written, wr, wr_ok, usb>>,
         \A r \in Res : Queued(r)' <=> Queued(r)
  PROVE  Pending' /\ Silent'
<1>1. wr[1] # "idle" => wr[2] \in Res
  BY DEF TypeOK
<1>2. Pending'
  BY <1>1, Results DEF Pending
<1>3. Silent'
  BY Results DEF Silent
<1> QED  BY <1>2, <1>3

\* Every step keeps the invariant.
LEMMA ResStep == ResInv /\ [Next]_vars => ResInv'
<1> SUFFICES ASSUME ResInv, [Next]_vars
             PROVE  ResInv'
  OBVIOUS
<1> USE DEF ResInv
<1>1. CASE Read
  <2>1. SendInv' /\ StreamInv' /\ \A r \in Res : Queued(r)' <=> Queued(r)
    BY <1>1, StreamKept DEF Read, device, stream
  <2>2. TypeOK' /\ ReadsSome'
    BY <1>1, ConstantsAssumption DEF Read, device, writer, TypeOK, ReadsSome
  <2>3. Pending' /\ Silent'
    BY <1>1, <2>1, WaitingKept DEF Read, writer
  <2> QED  BY <2>1, <2>2, <2>3
<1>2. CASE CollectDoneStubRes
  <2>1. CASE NothingToSend
    <3>1. /\ irp_stub_read' = TRUE /\ \A t \in Thread : snd[t] = Idle
          /\ UNCHANGED <<sres_head_done, sres_ongoing, len_sent_partial, pay, snd, out>>
      BY <1>2, <2>1 DEF CollectDoneStubRes, Entered
    <3>2. \A x : (Current(x)' <=> Current(x)) /\ (Sent(x)' <=> Sent(x))
                 /\ (Queued(x)' <=> Queued(x))
      BY <3>1 DEF Current, Sent, Queued, Listed
    <3>3. SendInv' /\ StreamInv'
      BY <2>1, <3>1, <3>2, OutUnits
      DEF SendInv, StreamInv, OneSender, WaitsForNothing, NothingToSend, Progress,
          InPart, Fresh, Tip, Units, Framed, SentOnce
    <3>4. TypeOK' /\ ReadsSome'
      BY <1>2, <2>1, <3>1 DEF CollectDoneStubRes, writer, TypeOK, ReadsSome
    <3>5. Pending' /\ Silent'
      BY <1>2, <3>2, WaitingKept DEF CollectDoneStubRes, writer
    <3> QED  BY <3>3, <3>4, <3>5
  <2>2. CASE ~NothingToSend
    <3>1. /\ "read" \in Thread /\ SendIrpSres("read", sres_head_done)
          /\ UNCHANGED <<sres_ongoing, len_sent_partial, pay, out>>
          /\ \A t \in Thread : snd[t] = Idle
          /\ sres_ongoing = NoRes => sres_head_done # <<>>
      BY <1>2, <2>2 DEF CollectDoneStubRes, Entered, NothingToSend, Thread
    <3>2. Sendable(sres_head_done)
      BY DEF Sendable, SendInv, Fresh, TypeOK
    <3>3. /\ SendInv' /\ StreamInv'
          /\ sres_head_done' \in Seq(Res) /\ irp_stub_read' = FALSE
          /\ snd' \in [Thread -> ({"idle"} \X {NoRes}) \cup (Steps \X Res)]
          /\ \A r \in Res : Queued(r)' <=> Queued(r)
      BY <3>1, <3>2, SendStarts DEF Queued, Listed
    <3>4. TypeOK' /\ ReadsSome'
      BY <1>2, <3>3 DEF CollectDoneStubRes, writer, TypeOK, ReadsSome, Steps
    <3>5. Pending' /\ Silent'
      BY <1>2, <3>3, WaitingKept DEF CollectDoneStubRes, writer
    <3> QED  BY <3>3, <3>4, <3>5
  <2> QED  BY <2>1, <2>2
<1>3. CASE CancelRead
  <2>1. SendInv' /\ StreamInv' /\ \A r \in Res : Queued(r)' <=> Queued(r)
    BY <1>3, StreamKept DEF CancelRead, device, stream
  <2>2. TypeOK' /\ ReadsSome'
    BY <1>3 DEF CancelRead, device, writer, TypeOK, ReadsSome
  <2>3. Pending' /\ Silent'
    BY <1>3, <2>1, WaitingKept DEF CancelRead, writer
  <2> QED  BY <2>1, <2>2, <2>3
<1>4. CASE OnIrpReadCancelled
  <2>1. /\ irp_stub_read' = FALSE
        /\ UNCHANGED <<sres_head_done, sres_ongoing, len_sent_partial, pay, snd, out>>
    BY <1>4 DEF OnIrpReadCancelled
  <2>2. \A x : (Current(x)' <=> Current(x)) /\ (Sent(x)' <=> Sent(x))
               /\ (Queued(x)' <=> Queued(x))
    BY <2>1 DEF Current, Sent, Queued, Listed
  <2>3. SendInv' /\ StreamInv'
    BY <2>1, <2>2, OutUnits
    DEF SendInv, StreamInv, OneSender, WaitsForNothing, Progress, InPart, Fresh,
        Tip, Units, Framed, SentOnce
  <2>4. TypeOK' /\ ReadsSome'
    BY <1>4 DEF OnIrpReadCancelled, writer, TypeOK, ReadsSome
  <2>5. Pending' /\ Silent'
    BY <1>4, <2>2, WaitingKept DEF OnIrpReadCancelled, writer
  <2> QED  BY <2>3, <2>4, <2>5
<1>5. ASSUME NEW t \in Thread, Send(t)
      PROVE  ResInv'
  <2>1. CASE SendStore(t)
    <3>1. /\ SendInv' /\ StreamInv'
          /\ len_sent_partial' \in Nat /\ out' \in Seq(Res \X Nat)
          /\ snd' \in [Thread -> ({"idle"} \X {NoRes}) \cup (Steps \X Res)]
          /\ \A x \in Res : Queued(x)' <=> Queued(x)
      BY <2>1, StoreKeeps
    <3>2. TypeOK' /\ ReadsSome'
      BY <2>1, <3>1 DEF SendStore, writer, reader, TypeOK, ReadsSome, Steps
    <3>3. Pending' /\ Silent'
      BY <2>1, <3>1, WaitingKept DEF SendStore, writer
    <3> QED  BY <3>1, <3>2, <3>3
  <2>2. CASE SavePendingSres(t)
    <3>1. /\ SendInv' /\ StreamInv'
          /\ sres_ongoing' \in Res \cup {NoRes}
          /\ snd' \in [Thread -> ({"idle"} \X {NoRes}) \cup (Steps \X Res)]
          /\ \A x \in Res : Queued(x)' <=> Queued(x)
      BY <2>2, SaveKeeps
    <3>2. TypeOK' /\ ReadsSome'
      BY <2>2, <3>1 DEF SavePendingSres, writer, reader, TypeOK, ReadsSome, Steps
    <3>3. Pending' /\ Silent'
      BY <2>2, <3>1, WaitingKept DEF SavePendingSres, writer
    <3> QED  BY <3>1, <3>2, <3>3
  <2>3. CASE SendDone(t)
    <3>1. /\ SendInv' /\ StreamInv'
          /\ len_sent_partial' \in Nat
          /\ snd' \in [Thread -> ({"idle"} \X {NoRes}) \cup (Steps \X Res)]
          /\ \A x \in Res : Queued(x)' <=> Queued(x)
      BY <2>3, DoneKeeps
    <3>2. TypeOK' /\ ReadsSome'
      BY <2>3, <3>1 DEF SendDone, writer, TypeOK, ReadsSome, Steps
    <3>3. Pending' /\ Silent'
      BY <2>3, <3>1, WaitingKept DEF SendDone, writer
    <3> QED  BY <3>1, <3>2, <3>3
  <2> QED  BY <1>5, <2>1, <2>2, <2>3 DEF Send
<1>6. ASSUME NEW s \in Submits, WriteData(s)
      PROVE  ResInv'
  <2>1. SendInv' /\ StreamInv' /\ \A r \in Res : Queued(r)' <=> Queued(r)
    BY <1>6, StreamKept DEF WriteData, stream
  <2>2. TypeOK' /\ ReadsSome'
    <3>1. CASE wr' = wr /\ usb' = [usb EXCEPT ![s] = "inflight"]
               /\ sres_head_pending' = sres_head_pending \cup {s}
      BY <1>6, <3>1, Results DEF WriteData, writer, reader, TypeOK, ReadsSome
    <3>2. CASE wr' = <<"reply", RetSubmit(s)>> /\ UNCHANGED <<sres_head_pending, usb>>
      BY <1>6, <3>2, Results DEF WriteData, writer, reader, TypeOK, ReadsSome
    <3> QED  BY <1>6, <3>1, <3>2 DEF WriteData
  <2>3. /\ ~Queued(RetSubmit(s)) /\ RetSubmit(s) \notin written /\ wr[1] = "idle"
        /\ wr[2] = NoRes /\ RetSubmit(s) \in Res
    BY <1>6, Results DEF WriteData, CanWrite, Pending, Idle
  <2>4. Pending'
    <3>1. CASE wr' = wr /\ usb' = [usb EXCEPT ![s] = "inflight"]
      BY <1>6, <2>1, <2>3, <3>1, Results DEF WriteData, Pending, TypeOK
    <3>2. CASE wr' = <<"reply", RetSubmit(s)>> /\ usb' = usb
      BY <1>6, <2>1, <2>3, <3>2, Results DEF WriteData, Pending, TypeOK
    <3> QED  BY <1>6, <3>1, <3>2 DEF WriteData
  <2>5. Silent'
    BY <1>6, <2>1, <2>3, Results DEF WriteData, Silent, TypeOK
  <2> QED  BY <2>1, <2>2, <2>4, <2>5
<1>7. ASSUME NEW s \in Submits, WriteControl(s)
      PROVE  ResInv'
  <2>1. /\ ~Queued(RetSubmit(s)) /\ RetSubmit(s) \notin written /\ wr[1] = "idle"
        /\ wr[2] = NoRes /\ RetSubmit(s) \in Res
    BY <1>7, Results DEF WriteControl, CanWrite, Pending, Idle
  <2>2. \A r \in Res : Queued(r) => pay'[r] = pay[r]
    BY <1>7, <2>1 DEF WriteControl, TypeOK
  <2>3. SendInv' /\ StreamInv' /\ \A r \in Res : Queued(r)' <=> Queued(r)
    BY <1>7, <2>2, StreamKept DEF WriteControl, stream, device
  <2>4. TypeOK' /\ ReadsSome'
    BY <1>7, Results, ConstantsAssumption
    DEF WriteControl, device, reader, TypeOK, ReadsSome
  <2>5. Pending' /\ Silent'
    BY <1>7, <2>1, <2>3, Results DEF WriteControl, Pending, Silent
  <2> QED  BY <2>3, <2>4, <2>5
<1>8. ASSUME NEW s \in Submits, WriteReset(s)
       PROVE  ResInv'
  <2>1. /\ ~Queued(RetSubmit(s)) /\ RetSubmit(s) \notin written /\ wr[1] = "idle"
        /\ wr[2] = NoRes /\ RetSubmit(s) \in Res
    BY <1>8, Results DEF WriteReset, CanWrite, Pending, Idle
  <2>2. SendInv' /\ StreamInv' /\ \A r \in Res : Queued(r)' <=> Queued(r)
    BY <1>8, StreamKept DEF WriteReset, stream, device
  <2>3. PICK C \in SUBSET InStack :
          usb' = [x \in Submits |-> IF x \in C THEN "cancelled" ELSE usb[x]]
    BY <1>8 DEF WriteReset
  <2>4. \A x \in Submits :
          usb'[x] = usb[x] \/ (usb[x] \in {"inflight", "marked"} /\ usb'[x] = "cancelled")
    BY <2>3 DEF InStack
  <2>5. TypeOK' /\ ReadsSome'
    <3>1. usb' \in [Submits -> {"none", "inflight", "marked", "cancelled", "reply",
                               "dropped", "replied", "freed"}]
      BY <2>3 DEF TypeOK
    <3>2. wr' = <<"reply", RetSubmit(s)>> /\ written' \subseteq Res
      BY <1>8, <2>1 DEF WriteReset, TypeOK
    <3> QED  BY <1>8, <2>1, <3>1, <3>2 DEF WriteReset, device, reader, TypeOK, ReadsSome
  <2>6. Pending' /\ Silent'
    BY <1>8, <2>1, <2>2, <2>4, Results DEF WriteReset, Pending, Silent
  <2> QED  BY <2>2, <2>5, <2>6
<1>9. ASSUME NEW s \in Submits, WriteUnsupported(s)
      PROVE  ResInv'
  <2>1. SendInv' /\ StreamInv' /\ \A r \in Res : Queued(r)' <=> Queued(r)
    BY <1>9, StreamKept DEF WriteUnsupported, stream, device
  <2>2. TypeOK' /\ ReadsSome'
    BY <1>9, Results DEF WriteUnsupported, device, reader, TypeOK, ReadsSome
  <2>3. wr[1] = "idle"
    BY <1>9 DEF WriteUnsupported, CanWrite, Idle
  <2>4. Pending' /\ Silent'
    BY <1>9, <2>1, <2>3, Results DEF WriteUnsupported, Pending, Silent
  <2> QED  BY <2>1, <2>2, <2>4
<1>10. ASSUME NEW s \in Submits, WriteUnlink(s)
      PROVE  ResInv'
  <2>1. SendInv' /\ StreamInv' /\ \A r \in Res : Queued(r)' <=> Queued(r)
    BY <1>10, StreamKept DEF WriteUnlink, stream, device
  <2>2. TypeOK' /\ ReadsSome'
    BY <1>10, Results DEF WriteUnlink, device, reader, TypeOK, ReadsSome
  <2>3. ~Queued(RetUnlink(s)) /\ RetUnlink(s) \in Res
    BY <1>10, Results DEF WriteUnlink, CanWrite, Pending
  <2>4. wr'[1] \in {"cancel", "reply"} /\ wr'[2] = RetUnlink(s)
    BY <1>10 DEF WriteUnlink
  <2>5. Pending' /\ Silent'
    BY <1>10, <2>1, <2>3, <2>4, Results DEF WriteUnlink, Pending, Silent
  <2> QED  BY <2>1, <2>2, <2>5
<1>11. ASSUME NEW s \in Submits, IoCancelIrp(s)
       PROVE  ResInv'
  <2>1. SendInv' /\ StreamInv' /\ \A r \in Res : Queued(r)' <=> Queued(r)
    BY <1>11, StreamKept DEF IoCancelIrp, stream, device
  <2>2. TypeOK' /\ ReadsSome'
    BY <1>11, Results DEF IoCancelIrp, device, reader, TypeOK, ReadsSome
  <2>3. /\ wr[1] = "cancel" /\ wr[2] = RetUnlink(s)
        /\ wr'[1] = "reply" /\ wr'[2] = RetUnlink(s)
    BY <1>11 DEF IoCancelIrp
  <2>4. \A u \in Submits : u # s => usb'[u] = usb[u] /\ wr_ok'[u] = wr_ok[u]
    BY <1>11 DEF IoCancelIrp, TypeOK
  <2>5. \/ usb[s] = "inflight" /\ usb'[s] \in {"cancelled", "marked"}
        \/ usb[s] # "inflight" /\ usb'[s] = usb[s] /\ wr_ok'[s] = wr_ok[s]
    BY <1>11 DEF IoCancelIrp, TypeOK
  <2>6. wr_ok'[s] => wr_ok[s] \/ (usb[s] = "inflight" /\ usb'[s] = "cancelled")
    BY <1>11 DEF IoCancelIrp, TypeOK
  <2>7. Pending'
    BY <1>11, <2>1, <2>3, <2>4, <2>5, Results DEF IoCancelIrp, Pending
  <2>8. Silent'
    BY <1>11, <2>1, <2>3, <2>4, <2>5, <2>6, Results DEF IoCancelIrp, Silent, Pending
  <2> QED  BY <2>1, <2>2, <2>7, <2>8
<1>12. ASSUME NEW s \in Submits, DelPendingStubRes(s)
       PROVE  ResInv'
  <2>1. usb[s] \in {"inflight", "marked", "cancelled"} /\ ~Queued(RetSubmit(s))
    BY <1>12 DEF DelPendingStubRes, Pending
  <2>2. \A r \in Res : Queued(r) => pay'[r] = pay[r]
    BY <1>12, <2>1 DEF DelPendingStubRes, TypeOK
  <2>3. SendInv' /\ StreamInv' /\ \A r \in Res : Queued(r)' <=> Queued(r)
    BY <1>12, <2>2, StreamKept DEF DelPendingStubRes, stream
  <2>4. TypeOK' /\ ReadsSome'
    <3>1. pay' \in [Res -> Nat] /\ sres_head_pending' \subseteq Submits
      BY <1>12, Results, ConstantsAssumption DEF DelPendingStubRes, TypeOK
    <3>2. usb' \in [Submits -> {"none", "inflight", "marked", "cancelled", "reply",
                                "dropped", "replied", "freed"}]
      BY <1>12 DEF DelPendingStubRes, TypeOK
    <3> QED  BY <1>12, <3>1, <3>2
             DEF DelPendingStubRes, writer, reader, TypeOK, ReadsSome
  <2>5. /\ \A u \in Submits : u # s => usb'[u] = usb[u]
        /\ usb'[s] \in {"reply", "dropped"}
        /\ usb[s] = "cancelled" => usb'[s] = "dropped"
    BY <1>12 DEF DelPendingStubRes, Dropped, TypeOK
  <2>6. Pending' /\ Silent'
    BY <1>12, <2>1, <2>3, <2>5, Results
    DEF DelPendingStubRes, writer, Pending, Silent, TypeOK
  <2> QED  BY <2>3, <2>4, <2>6
<1>13. ASSUME NEW s \in Submits, DoneTransfer(s)
       PROVE  ResInv'
  <2>1. /\ usb[s] = "reply" /\ ~Queued(RetSubmit(s)) /\ RetSubmit(s) \in Res
        /\ RetSubmit(s) \in written /\ wr[2] # RetSubmit(s) /\ s \in Thread
    BY <1>13, Results DEF DoneTransfer, Pending, Thread
  <2>2. /\ SendInv' /\ StreamInv'
        /\ sres_head_done' \in Seq(Res) /\ irp_stub_read' \in BOOLEAN
        /\ snd' \in [Thread -> ({"idle"} \X {NoRes}) \cup (Steps \X Res)]
        /\ \A x \in Res : Queued(x)' <=> Queued(x) \/ x = RetSubmit(s)
    BY <1>13, <2>1, ReplyKeeps DEF DoneTransfer
  <2>3. TypeOK' /\ ReadsSome'
    BY <1>13, <2>2 DEF DoneTransfer, writer, reader, TypeOK, ReadsSome, Steps
  <2>4. usb'[s] = "replied" /\ \A u \in Submits : u # s => usb'[u] = usb[u]
    BY <1>13 DEF DoneTransfer, TypeOK
  <2>5. wr[1] # "idle" => wr[2] \in Res
    BY DEF TypeOK
  <2>6. Pending' /\ Silent'
    BY <1>13, <2>1, <2>2, <2>4, <2>5, Results DEF DoneTransfer, writer, Pending, Silent
  <2> QED  BY <2>2, <2>3, <2>6
<1>14. ASSUME NEW s \in Submits, IoFreeIrp(s)
       PROVE  ResInv'
  <2>1. SendInv' /\ StreamInv' /\ \A r \in Res : Queued(r)' <=> Queued(r)
    BY <1>14, StreamKept DEF IoFreeIrp, stream, device
  <2>2. TypeOK' /\ ReadsSome'
    BY <1>14 DEF IoFreeIrp, device, writer, reader, TypeOK, ReadsSome
  <2>3. /\ usb'[s] = "freed" /\ \A u \in Submits : u # s => usb'[u] = usb[u]
    BY <1>14 DEF IoFreeIrp, TypeOK
  <2>4. wr[1] # "idle" => wr[2] \in Res
    BY DEF TypeOK
  <2>5. Pending' /\ Silent'
    BY <1>14, <2>1, <2>3, <2>4, Results DEF IoFreeIrp, writer, Pending, Silent
  <2> QED  BY <2>1, <2>2, <2>5
<1>15. CASE WriteReply
  <2>1. /\ wr[1] = "reply" /\ wr[2] \in Res /\ wr[2] \in written /\ ~Queued(wr[2])
        /\ wr'[1] = "idle" /\ wr'[2] = NoRes /\ "write" \in Thread
        /\ UNCHANGED <<sres_ongoing, len_sent_partial, pay, out, written, wr_ok, usb>>
    BY <1>15 DEF WriteReply, Pending, TypeOK, Thread, Idle
  <2>2. CASE ReplyStubReq("write", wr[2])
    <3>1. /\ SendInv' /\ StreamInv'
          /\ sres_head_done' \in Seq(Res) /\ irp_stub_read' \in BOOLEAN
          /\ snd' \in [Thread -> ({"idle"} \X {NoRes}) \cup (Steps \X Res)]
          /\ \A x \in Res : Queued(x)' <=> Queued(x) \/ x = wr[2]
      BY <2>1, <2>2, ReplyKeeps
    <3>2. TypeOK' /\ ReadsSome'
      BY <1>15, <3>1 DEF WriteReply, reader, TypeOK, ReadsSome, Steps, Idle
    <3>3. Pending' /\ Silent'
      BY <2>1, <3>1, Results DEF Pending, Silent
    <3> QED  BY <3>1, <3>2, <3>3
  <2>3. CASE UNCHANGED <<sres_head_done, irp_stub_read, snd>>
    <3>1. SendInv' /\ StreamInv' /\ \A r \in Res : Queued(r)' <=> Queued(r)
      BY <2>1, <2>3, StreamKept DEF stream
    <3>2. TypeOK' /\ ReadsSome'
      BY <1>15, <2>3 DEF WriteReply, reader, TypeOK, ReadsSome, Idle
    <3>3. Pending' /\ Silent'
      BY <2>1, <3>1, Results DEF Pending, Silent
    <3> QED  BY <3>1, <3>2, <3>3
  <2> QED  BY <1>15, <2>2, <2>3 DEF WriteReply
<1>16. CASE UNCHANGED vars
  <2>1. SendInv' /\ StreamInv' /\ \A r \in Res : Queued(r)' <=> Queued(r)
    BY <1>16, StreamKept DEF vars, stream, device
  <2>2. TypeOK' /\ ReadsSome'
    BY <1>16 DEF vars, device, writer, reader, TypeOK, ReadsSome
  <2>3. Pending' /\ Silent'
    BY <1>16, <2>1, WaitingKept DEF vars, writer
  <2> QED  BY <2>1, <2>2, <2>3
<1> QED  BY <1>1, <1>2, <1>3, <1>4, <1>5, <1>6, <1>7, <1>8, <1>9, <1>10, <1>11, <1>12, <1>13,
            <1>14, <1>15, <1>16 DEF Next, Completion
-----------------------------------------------------------------------------
\* The invariant of the queue holds in every state of every behaviour.
LEMMA ResInvariant == Spec => []ResInv
<1>1. Init => ResInv
  <2> SUFFICES ASSUME Init
               PROVE  ResInv
    OBVIOUS
  <2>1. TypeOK /\ ReadsSome
    <3>1. kind \in [Submits -> AllKinds] /\ pay \in [Res -> Nat]
      BY ConstantsAssumption DEF Init
    <3>2. sres_head_done \in Seq(Res) /\ out \in Seq(Res \X Nat)
      BY DEF Init
    <3>3. /\ wr \in {"idle"} \X {NoRes}
          /\ snd \in [Thread -> ({"idle"} \X {NoRes}) \cup (Steps \X Res)]
      BY DEF Init, Idle
    <3>4. /\ wr_ok \in [Submits -> BOOLEAN]
          /\ usb \in [Submits -> {"none", "inflight", "marked", "cancelled", "reply",
                                  "dropped", "replied", "freed"}]
      BY DEF Init
    <3>5. irp_stub_read \in BOOLEAN /\ read_rtn \in BOOLEAN /\ read_can \in BOOLEAN
      BY DEF Init
    <3>6. /\ sres_head_pending \subseteq Submits /\ sres_ongoing \in Res \cup {NoRes}
          /\ written \subseteq Res /\ read_irp \in {"idle", "owned", "done", "twice"}
      BY DEF Init
    <3>7. len_sent_partial \in Nat /\ read_len \in Nat /\ read_len > 0
      BY DEF Init
    <3> QED  BY <3>1, <3>2, <3>3, <3>4, <3>5, <3>6, <3>7 DEF TypeOK, ReadsSome, Steps
  <2>2. /\ Len(out) = 0 /\ Len(sres_head_done) = 0
        /\ \A t \in Thread : snd[t] = Idle /\ snd[t][1] = "idle" /\ snd[t][2] = NoRes
    BY DEF Init, Idle
  <2>3. \A r \in Res : ~Queued(r)
    BY <2>2, Results DEF Init, Queued, Current, Sent, Listed
  <2>4. SendInv
    BY <2>2 DEF Init, SendInv, OneSender, WaitsForNothing, Progress, Fresh
  <2>5. StreamInv
    BY <2>2, <2>3 DEF Init, StreamInv, Tip, Units, Framed, SentOnce
  <2>6. Pending /\ Silent
    BY <2>3 DEF Init, Pending, Silent, Idle
  <2> QED  BY <2>1, <2>4, <2>5, <2>6 DEF ResInv
<1> QED  BY <1>1, ResStep, PTL DEF Spec

\* The queue is well typed: what the driver stores has its type whatever is read,
\* written, completed and cancelled.
THEOREM ResTypeCorrect == Spec => []TypeOK
  BY ResInvariant, PTL DEF ResInv

\* stub_res.c, collect_done_stub_res and reply_stub_req: a read never waits
\* while there is something to send it.
THEOREM NoResultSleeps == Spec => []WaitsForNothing
<1>1. ResInv => WaitsForNothing
  BY DEF ResInv, SendInv
<1> QED  BY <1>1, ResInvariant, PTL

\* stub_res.c, send_stub_res and save_pending_sres: whole results one after the
\* other, however reads cut the stream and however many threads send.
THEOREM StreamIsFramed == Spec => []Framed
<1>1. ResInv => Framed
  BY DEF ResInv, StreamInv
<1> QED  BY <1>1, ResInvariant, PTL

\* stub_res.c, collect_done_stub_res: a result is taken from the list for one
\* read only; no result is sent a second time.
THEOREM NothingSentTwice == Spec => []SentOnce
<1>1. ResInv => SentOnce
  BY DEF ResInv, StreamInv
<1> QED  BY <1>1, ResInvariant, PTL

\* stub_res.c, cancel_pending_stub_res, and stub_usbd.c, do_safe_completion: a
\* transfer that was reported as unlinked is never answered.
THEOREM UnlinkedNeverAnswered == Spec => []UnlinkedIsSilent
<1>1. ResInv => UnlinkedIsSilent
  BY DEF ResInv, Silent, UnlinkedIsSilent, Queued
<1> QED  BY <1>1, ResInvariant, PTL
=============================================================================
