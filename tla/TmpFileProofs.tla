--------------------------- MODULE TmpFileProofs ----------------------------
(***************************************************************************)
(* Proofs about TmpFile, for any number of handlers, packets of any length *)
(* and every way write, read and send split them.                          *)
(***************************************************************************)
EXTENDS TmpFile, SequenceTheorems, TLAPS

Byte == Writers \X Nat \X Nat

TypeInv ==
  /\ file \in Seq(Byte)
  /\ mutex \in Writers \cup {Nobody}
  /\ pc \in [Writers -> {"open", "wait", "recv", "lock", "write", "read", "send",
                         "close", "closed"}]
  /\ packet \in [Writers -> Seq(Byte)]
  /\ left \in [Writers -> Nat]
  /\ written \in [Writers -> Nat]
  /\ abort \in [Writers -> BOOLEAN]
  /\ fpos \in [Handlers -> Nat]
  /\ buffer \in [Handlers -> Seq(Byte)]
  /\ sent \in [Handlers -> Seq(Byte)]

(* The mutex is held by the thread that is in putchars.                    *)
HolderWrites == \A w \in Writers : pc[w] = "write" <=> mutex = w

(* How many bytes of its packet a writer has written.                      *)
Out(w) == Len(packet[w]) - left[w]

(* The bytes of a packet, and how many of them are left.                   *)
PacketShape ==
  \A w \in Writers :
    /\ \A i \in 1 .. Len(packet[w]) : packet[w][i] = <<w, written[w], i>>
    /\ pc[w] \in {"lock", "write"} => left[w] <= Len(packet[w])
    /\ pc[w] = "lock" => left[w] = Len(packet[w])

(* A byte of the file that need not be followed by its packet's next one.  *)
Ended(b) == b[2] < written[b[1]] \/ EndsPacket(b)

(***************************************************************************)
(* Bytes of the file are of packets that were begun.  The last one ends    *)
(* its packet or is the one the writer in putchars has just written, and   *)
(* that writer's next byte is due.                                         *)
(***************************************************************************)
FileBytes == \A i \in 1 .. Len(file) : file[i][3] >= 1 /\ file[i][2] <= written[file[i][1]]

LastByte ==
  /\ file # << >> =>
       LET b == file[Len(file)]
       IN  Ended(b) \/ (pc[b[1]] = "write" /\ b = <<b[1], written[b[1]], Out(b[1])>>)
  /\ \A w \in Writers : pc[w] = "write" /\ left[w] < Len(packet[w]) =>
       file # << >> /\ file[Len(file)] = <<w, written[w], Out(w)>>

WriteInv == TypeInv /\ HolderWrites /\ PacketShape /\ FileBytes /\ LastByte /\ PacketsUnmixed

(***************************************************************************)
(* A client has been sent the first bytes of the file: as many as its      *)
(* handler has read, but for those still in the buffer.                    *)
(***************************************************************************)
SentPrefix(h) ==
  /\ Len(sent[h]) <= Len(file)
  /\ \A i \in 1 .. Len(sent[h]) : sent[h][i] = file[i]

ReplyPosition(h) ==
  /\ pc[h] \in {"open", "recv", "lock", "write"} => sent[h] = << >>
  /\ pc[h] = "read" => fpos[h] = Len(sent[h])
  /\ pc[h] = "send" =>
       /\ left[h] <= Len(buffer[h]) /\ Len(buffer[h]) <= fpos[h] /\ fpos[h] <= Len(file)
       /\ fpos[h] = Len(sent[h]) + left[h]
       /\ \A i \in 1 .. Len(buffer[h]) : buffer[h][i] = file[fpos[h] - Len(buffer[h]) + i]

(* What putchars has written of the packet is in the file, and all of it   *)
(* is in the reply of a handler that has come to its end.                  *)
PacketArrives(h) ==
  /\ pc[h] = "write" => \A i \in 1 .. Out(h) :
       \E j \in 1 .. Len(file) : file[j] = packet[h][i]
  /\ pc[h] \in {"read", "send"} => \A i \in 1 .. Len(packet[h]) :
       \E j \in 1 .. Len(file) : file[j] = packet[h][i]
  /\ pc[h] \in {"close", "closed"} /\ ~abort[h] => \A i \in 1 .. Len(packet[h]) :
       \E j \in 1 .. Len(sent[h]) : sent[h][j] = packet[h][i]

(* The reply of one handler, and what it says of where the handler is.     *)
ReplyOf(h) == SentPrefix(h) /\ ReplyPosition(h) /\ PacketArrives(h)

-----------------------------------------------------------------------------
(* What one write or send takes of a packet.                               *)
LEMMA PieceFacts ==
  ASSUME NEW S, NEW p \in Seq(S), NEW l \in Nat, l <= Len(p), NEW n \in 1 .. l
  PROVE  /\ Piece(p, l, n) \in Seq(S)
         /\ Len(Piece(p, l, n)) = n
         /\ \A i \in 1 .. n : Piece(p, l, n)[i] = p[Len(p) - l + i]
<1> DEFINE lo == Len(p) - l + 1
           hi == Len(p) - l + n
<1>1. /\ lo \in 1 .. Len(p) + 1 /\ hi \in lo - 1 .. Len(p) /\ hi - lo + 1 = n
      /\ \A i \in 1 .. n : lo + i - 1 = Len(p) - l + i
  BY LenProperties
<1>2. Piece(p, l, n) = SubSeq(p, lo, hi)
  BY DEF Piece
<1>3. lo \in Int /\ hi \in Int /\ lo <= hi /\ \A i \in lo .. hi : p[i] \in S
  BY LenProperties
<1> HIDE DEF lo, hi
<1>4. /\ SubSeq(p, lo, hi) \in Seq(S)
      /\ Len(SubSeq(p, lo, hi)) = hi - lo + 1
      /\ \A i \in 1 .. hi - lo + 1 : SubSeq(p, lo, hi)[i] = p[lo + i - 1]
  BY <1>3, SubSeqProperties, SMTT(30)
<1> QED BY <1>1, <1>2, <1>4

(* A sequence behind another.                                              *)
LEMMA ConcatFacts ==
  ASSUME NEW S, NEW s \in Seq(S), NEW t \in Seq(S)
  PROVE  /\ s \o t \in Seq(S)
         /\ Len(s \o t) = Len(s) + Len(t)
         /\ \A i \in 1 .. Len(s) : (s \o t)[i] = s[i]
         /\ \A i \in 1 .. Len(t) : (s \o t)[Len(s) + i] = t[i]
<1>1. /\ s \o t \in Seq(S) /\ Len(s \o t) = Len(s) + Len(t)
      /\ \A i \in 1 .. Len(s) + Len(t) :
           (s \o t)[i] = IF i <= Len(s) THEN s[i] ELSE t[i - Len(s)]
  BY ConcatProperties
<1>2. Len(s) \in Nat /\ Len(t) \in Nat
  BY LenProperties
<1>3. \A i \in 1 .. Len(s) : (s \o t)[i] = s[i]
  BY <1>1, <1>2
<1>4. \A i \in 1 .. Len(t) : (s \o t)[Len(s) + i] = t[i]
  <2> TAKE i \in 1 .. Len(t)
  <2>1. Len(s) + i \in 1 .. Len(s) + Len(t) /\ ~(Len(s) + i <= Len(s)) /\ (Len(s) + i) - Len(s) = i
    BY <1>2
  <2> QED BY <1>1, <2>1
<1> QED BY <1>1, <1>3, <1>4

(* g is f with the n bytes of p behind it that are next when l are left.   *)
Appended(g, f, p, l, n) ==
  /\ Len(g) = Len(f) + n
  /\ \A i \in 1 .. Len(f) : g[i] = f[i]
  /\ \A i \in 1 .. n : g[Len(f) + i] = p[(Len(p) - l) + i]

(* A piece appended to the file: the bytes stand at its end in their order.*)
LEMMA AppendedPiece ==
  ASSUME NEW S, NEW f \in Seq(S), NEW p \in Seq(S), NEW l \in Nat, l <= Len(p),
         NEW n \in 1 .. l
  PROVE  f \o Piece(p, l, n) \in Seq(S) /\ Appended(f \o Piece(p, l, n), f, p, l, n)
<1> DEFINE q == Piece(p, l, n)
<1>1. q \in Seq(S) /\ Len(q) = n /\ \A i \in 1 .. n : q[i] = p[(Len(p) - l) + i]
  <2>1. q \in Seq(S)
    BY PieceFacts, Zenon
  <2>2. Len(q) = n
    BY PieceFacts, Zenon
  <2>3. \A i \in 1 .. n : q[i] = p[(Len(p) - l) + i]
    BY PieceFacts, Zenon
  <2> HIDE DEF q
  <2> QED BY <2>1, <2>2, <2>3
<1> HIDE DEF q
<1>2. /\ f \o q \in Seq(S) /\ Len(f \o q) = Len(f) + Len(q)
      /\ \A i \in 1 .. Len(f) : (f \o q)[i] = f[i]
      /\ \A i \in 1 .. Len(q) : (f \o q)[Len(f) + i] = q[i]
  <2>1. q \in Seq(S)
    BY <1>1
  <2>2. f \o q \in Seq(S) /\ Len(f \o q) = Len(f) + Len(q)
    BY <2>1, ConcatFacts, Zenon
  <2>3. \A i \in 1 .. Len(f) : (f \o q)[i] = f[i]
    BY <2>1, ConcatFacts, Zenon
  <2>4. \A i \in 1 .. Len(q) : (f \o q)[Len(f) + i] = q[i]
    BY <2>1, ConcatFacts, SMTT(30)
  <2> QED BY <2>2, <2>3, <2>4
<1>3. /\ f \o q \in Seq(S) /\ Len(f \o q) = Len(f) + n
      /\ \A i \in 1 .. Len(f) : (f \o q)[i] = f[i]
      /\ \A i \in 1 .. n : (f \o q)[Len(f) + i] = p[(Len(p) - l) + i]
  BY <1>1, <1>2
<1> QED BY <1>3 DEF q, Appended

(* The file is empty and nobody writes.                                    *)
LEMMA WriteInvInit == Init => WriteInv
<1> SUFFICES ASSUME Init PROVE WriteInv
  OBVIOUS
<1>1. << >> \in Seq(Byte) /\ Len(<< >>) = 0
  OBVIOUS
<1>2. TypeInv
  BY <1>1 DEF Init, TypeInv
<1>3. HolderWrites
  BY TmpFileAssumption DEF Init, HolderWrites, Writers
<1>4. PacketShape
  BY DEF Init, PacketShape
<1>5. FileBytes /\ LastByte /\ PacketsUnmixed
  BY DEF Init, FileBytes, LastByte, PacketsUnmixed
<1> QED BY <1>2, <1>3, <1>4, <1>5 DEF WriteInv

(* A byte of the file has an index, a packet and a writer.                 *)
LEMMA FileByteType ==
  ASSUME TypeInv, NEW i \in 1 .. Len(file)
  PROVE  /\ file[i][1] \in Writers /\ file[i][2] \in Nat /\ file[i][3] \in Nat
         /\ file[i] = <<file[i][1], file[i][2], file[i][3]>>
<1>1. file[i] \in Byte
  BY DEF TypeInv
<1> QED BY <1>1 DEF Byte

(* What has ended stays ended while packets and file stay as they are.     *)
LEMMA SameFile ==
  ASSUME WriteInv, UNCHANGED <<file, packet, written>>,
         \A w \in Writers : abort[w] => abort'[w]
  PROVE  /\ FileBytes' /\ PacketsUnmixed'
         /\ \A i \in 1 .. Len(file) : Ended(file[i]) => Ended(file[i])'
<1>1. \A i \in 1 .. Len(file) : Ended(file[i]) => Ended(file[i])'
  BY FileByteType DEF WriteInv, Ended, EndsPacket
<1>2. FileBytes'
  BY DEF WriteInv, FileBytes
<1>3. PacketsUnmixed'
  <2>1. Len(file) \in Nat /\ file' = file
    BY LenProperties DEF WriteInv, TypeInv
  <2>2. ASSUME NEW i \in 1 .. Len(file) - 1
        PROVE  \/ file[i + 1] = <<file[i][1], file[i][2], file[i][3] + 1>>
               \/ file[i + 1][3] = 1 /\ Ended(file[i])'
    <3>1. i \in 1 .. Len(file)
      BY <2>1
    <3>2. \/ file[i + 1] = <<file[i][1], file[i][2], file[i][3] + 1>>
          \/ file[i + 1][3] = 1 /\ Ended(file[i])
      BY DEF WriteInv, PacketsUnmixed, Ended
    <3> QED BY <1>1, <3>1, <3>2
  <2>3. file # << >> => file[1][3] = 1
    BY DEF WriteInv, PacketsUnmixed
  <2> QED BY <2>1, <2>2, <2>3 DEF PacketsUnmixed, Ended
<1> QED BY <1>1, <1>2, <1>3

(***************************************************************************)
(* A thread that is not in putchars and does not get there goes on with    *)
(* something else than the file.                                           *)
(***************************************************************************)
LEMMA AsideKeeps ==
  ASSUME WriteInv, TypeInv', UNCHANGED <<file, mutex, packet, written>>,
         NEW w \in Writers, pc[w] # "write", pc'[w] \notin {"lock", "write"},
         \A v \in Writers : v # w => pc'[v] = pc[v] /\ left'[v] = left[v],
         \A v \in Writers : abort[v] => abort'[v]
  PROVE  WriteInv'
<1>1. FileBytes' /\ PacketsUnmixed'
  BY SameFile
<1>2. HolderWrites'
  BY DEF WriteInv, HolderWrites
<1>3. PacketShape'
  BY DEF WriteInv, PacketShape
<1>4. LastByte'
  <2>1. \A v \in Writers : pc[v] = "write" => pc'[v] = "write" /\ Out(v)' = Out(v)
    BY DEF Out
  <2>2. \A v \in Writers : pc'[v] = "write" => pc[v] = "write" /\ left'[v] = left[v]
    OBVIOUS
  <2>3. ASSUME file # << >>
        PROVE  LET b == file[Len(file)]
               IN  Ended(b)' \/ (pc'[b[1]] = "write" /\ b = <<b[1], written[b[1]], Out(b[1])'>>)
    <3>1. Len(file) \in 1 .. Len(file)
      BY <2>3, EmptySeq DEF WriteInv, TypeInv
    <3>2. file[Len(file)][1] \in Writers /\ file' = file
      BY <3>1, FileByteType DEF WriteInv
    <3>3. Ended(file[Len(file)]) => Ended(file[Len(file)])'
      BY <3>1, SameFile
    <3> QED BY <2>1, <2>3, <3>2, <3>3 DEF WriteInv, LastByte
  <2>4. ASSUME NEW v \in Writers, pc'[v] = "write", left'[v] < Len(packet'[v])
        PROVE  file # << >> /\ file[Len(file)] = <<v, written[v], Out(v)'>>
    BY <2>1, <2>2, <2>4 DEF WriteInv, LastByte
  <2> QED BY <2>3, <2>4 DEF LastByte
<1> QED BY <1>1, <1>2, <1>3, <1>4 DEF WriteInv

(* A new packet: those the writer has begun before are ended.              *)
LEMMA PacketKeeps ==
  ASSUME WriteInv, NEW w \in Writers, NEW n \in Nat, Packet(w, n),
         pc[w] # "write", UNCHANGED <<file, mutex, reply>>
  PROVE  WriteInv'
<1> DEFINE p == [i \in 1 .. n |-> <<w, written[w] + 1, i>>]
<1>1. /\ written' = [written EXCEPT ![w] = written[w] + 1]
      /\ packet' = [packet EXCEPT ![w] = p]
      /\ left' = [left EXCEPT ![w] = n]
      /\ pc' = [pc EXCEPT ![w] = "lock"]
      /\ abort' = abort /\ UNCHANGED <<fpos, buffer, sent>>
  BY DEF Packet, Goto, reply
<1>2. p \in Seq(Byte) /\ Len(p) = n /\ \A i \in 1 .. n : p[i] = <<w, written[w] + 1, i>>
  <2>1. written[w] + 1 \in Nat
    BY DEF WriteInv, TypeInv
  <2>2. p \in [1 .. n -> Byte]
    BY <2>1 DEF Byte
  <2> QED BY <2>2
<1> HIDE DEF p
<1>3. TypeInv'
  BY <1>1, <1>2, SMTT(30) DEF WriteInv, TypeInv
<1>4. HolderWrites'
  BY <1>1 DEF WriteInv, TypeInv, HolderWrites
<1>5. PacketShape'
  <2>1. /\ packet'[w] = p /\ written'[w] = written[w] + 1 /\ left'[w] = n
        /\ \A v \in Writers : v # w => /\ written'[v] = written[v] /\ packet'[v] = packet[v]
                                      /\ left'[v] = left[v] /\ pc'[v] = pc[v]
    BY <1>1 DEF WriteInv, TypeInv
  <2> QED BY <1>2, <2>1 DEF WriteInv, PacketShape
<1>6. /\ written[w] \in Nat /\ written'[w] = written[w] + 1
      /\ \A v \in Writers : v # w => /\ written'[v] = written[v] /\ packet'[v] = packet[v]
                                    /\ left'[v] = left[v] /\ pc'[v] = pc[v]
  BY <1>1 DEF WriteInv, TypeInv
<1>7. FileBytes'
  <2>1. ASSUME NEW i \in 1 .. Len(file)
        PROVE  file[i][3] >= 1 /\ file[i][2] <= written'[file[i][1]]
    <3>1. file[i][1] \in Writers /\ file[i][2] \in Nat /\ file[i][3] >= 1
            /\ file[i][2] <= written[file[i][1]]
      BY FileByteType DEF WriteInv, FileBytes
    <3>2. written[file[i][1]] \in Nat
      BY <3>1 DEF WriteInv, TypeInv
    <3> QED BY <1>6, <3>1, <3>2, SMTT(30)
  <2> QED BY <2>1 DEF FileBytes
<1>8. ASSUME NEW i \in 1 .. Len(file), Ended(file[i]) PROVE Ended(file[i])'
  <2>1. CASE file[i][1] = w
    BY <1>6, <2>1, FileByteType DEF WriteInv, FileBytes, Ended
  <2>2. CASE file[i][1] # w
    BY <1>1, <1>6, <1>8, <2>2, FileByteType DEF WriteInv, Ended, EndsPacket
  <2> QED BY <2>1, <2>2
<1>9. PacketsUnmixed'
  <2>1. Len(file) \in Nat /\ file' = file
    BY LenProperties DEF WriteInv, TypeInv
  <2>2. ASSUME NEW i \in 1 .. Len(file) - 1
        PROVE  \/ file[i + 1] = <<file[i][1], file[i][2], file[i][3] + 1>>
               \/ file[i + 1][3] = 1 /\ Ended(file[i])'
    <3>1. i \in 1 .. Len(file)
      BY <2>1
    <3>2. \/ file[i + 1] = <<file[i][1], file[i][2], file[i][3] + 1>>
          \/ file[i + 1][3] = 1 /\ Ended(file[i])
      BY DEF WriteInv, PacketsUnmixed, Ended
    <3> QED BY <1>8, <3>1, <3>2
  <2>3. file # << >> => file[1][3] = 1
    BY DEF WriteInv, PacketsUnmixed
  <2> QED BY <2>1, <2>2, <2>3 DEF PacketsUnmixed, Ended
<1>10. LastByte'
  <2>1. \A v \in Writers : pc'[v] = "write" => v # w
    BY <1>1 DEF WriteInv, TypeInv
  <2>2. ASSUME file # << >>
        PROVE  LET b == file[Len(file)]
               IN  Ended(b)' \/ (pc'[b[1]] = "write" /\ b = <<b[1], written'[b[1]], Out(b[1])'>>)
    <3>1. Len(file) \in 1 .. Len(file)
      BY <2>2, EmptySeq DEF WriteInv, TypeInv
    <3>2. file[Len(file)][1] \in Writers /\ file' = file
      BY <3>1, FileByteType DEF WriteInv
    <3>3. Ended(file[Len(file)]) => Ended(file[Len(file)])'
      BY <1>8, <3>1
    <3>4. pc[file[Len(file)][1]] = "write" => file[Len(file)][1] # w
      OBVIOUS
    <3> QED BY <1>6, <2>2, <3>2, <3>3, <3>4 DEF WriteInv, LastByte, Out
  <2>3. ASSUME NEW v \in Writers, pc'[v] = "write", left'[v] < Len(packet'[v])
        PROVE  file # << >> /\ file[Len(file)] = <<v, written'[v], Out(v)'>>
    BY <1>6, <2>1, <2>3 DEF WriteInv, LastByte, Out
  <2> QED BY <2>2, <2>3 DEF LastByte
<1> QED BY <1>3, <1>4, <1>5, <1>7, <1>9, <1>10 DEF WriteInv

(* The mutex is free: nobody is in putchars, so the last byte is ended.    *)
LEMMA LockKeeps ==
  ASSUME WriteInv, NEW w \in Writers, Lock(w)
  PROVE  WriteInv'
<1>1. /\ pc[w] = "lock" /\ mutex = Nobody /\ mutex' = w
      /\ pc' = [pc EXCEPT ![w] = "write"]
      /\ UNCHANGED <<file, packet, left, written, abort, fpos, buffer, sent>>
  BY DEF Lock, MutexFree, Goto, reply
<1>2. TypeInv'
  BY <1>1 DEF WriteInv, TypeInv
<1>3. \A v \in Writers : pc[v] # "write"
  BY <1>1, TmpFileAssumption DEF WriteInv, HolderWrites, Writers
<1>4. HolderWrites'
  BY <1>1, <1>3 DEF WriteInv, TypeInv, HolderWrites
<1>5. PacketShape'
  BY <1>1 DEF WriteInv, TypeInv, PacketShape
<1>6. FileBytes' /\ PacketsUnmixed'
  BY <1>1, SameFile
<1>7. LastByte'
  <2>1. ASSUME file # << >> PROVE Ended(file[Len(file)])'
    <3>1. Len(file) \in 1 .. Len(file)
      BY <2>1, EmptySeq DEF WriteInv, TypeInv
    <3>2. file[Len(file)][1] \in Writers
      BY <3>1, FileByteType DEF WriteInv
    <3>3. Ended(file[Len(file)])
      BY <1>3, <2>1, <3>2 DEF WriteInv, LastByte
    <3> QED BY <1>1, <3>1, <3>3, SameFile
  <2>2. ASSUME NEW v \in Writers, pc'[v] = "write" PROVE left'[v] = Len(packet'[v])
    BY <1>1, <1>3, <2>2 DEF WriteInv, TypeInv, PacketShape
  <2>3. \A v \in Writers : Len(packet'[v]) \in Nat
    BY <1>2, LenProperties DEF TypeInv
  <2> QED BY <1>1, <2>1, <2>2, <2>3 DEF LastByte
<1> QED BY <1>2, <1>4, <1>5, <1>6, <1>7 DEF WriteInv

(* A write of putchars fails: the packet ends where it is.                 *)
LEMMA WriteFailsKeeps ==
  ASSUME WriteInv, NEW w \in Writers, abort' = [abort EXCEPT ![w] = TRUE],
         UNCHANGED <<file, mutex, pc, packet, left, written, fpos, buffer, sent>>
  PROVE  WriteInv'
<1>1. TypeInv' /\ \A v \in Writers : abort[v] => abort'[v]
  BY DEF WriteInv, TypeInv
<1>2. FileBytes' /\ PacketsUnmixed'
  BY <1>1, SameFile
<1>3. HolderWrites' /\ PacketShape'
  BY DEF WriteInv, HolderWrites, PacketShape
<1>4. LastByte'
  <2>1. ASSUME file # << >> PROVE Ended(file[Len(file)]) => Ended(file[Len(file)])'
    <3>1. Len(file) \in 1 .. Len(file)
      BY <2>1, EmptySeq DEF WriteInv, TypeInv
    <3> QED BY <1>1, <3>1, SameFile
  <2> QED BY <2>1 DEF WriteInv, LastByte, Out
<1> QED BY <1>1, <1>2, <1>3, <1>4 DEF WriteInv

(***************************************************************************)
(* A write of putchars appends the next n bytes of the packet.  If they    *)
(* are its first ones the byte before them is ended: its writer is not in  *)
(* putchars any more, since the mutex lets only one in.                    *)
(***************************************************************************)
LEMMA WriteBytesKeeps ==
  ASSUME WriteInv, NEW w \in Writers, pc[w] = "write", NEW n \in 1 .. left[w],
         file' = file \o Piece(packet[w], left[w], n),
         left' = [left EXCEPT ![w] = @ - n],
         fpos' = [h \in Handlers |-> IF h = w THEN Len(file') ELSE fpos[h]],
         UNCHANGED <<mutex, pc, packet, written, abort, buffer, sent>>
  PROVE  /\ WriteInv'
         /\ Len(file') = Len(file) + n
         /\ \A i \in 1 .. Len(file) : file'[i] = file[i]
         /\ \A i \in 1 .. n : file'[Len(file) + i] = packet[w][Out(w) + i]
<1> DEFINE L == Len(packet[w])
           F == Len(file)
<1>0. PICK o : o = Out(w)
  OBVIOUS
<1>1. /\ left[w] \in Nat /\ n \in Nat /\ n >= 1 /\ n <= left[w] /\ left[w] <= L
      /\ L \in Nat /\ packet[w] \in Seq(Byte) /\ F \in Nat /\ file \in Seq(Byte)
      /\ o = L - left[w] /\ o \in Nat /\ o + n <= L
  <2>1. left[w] \in Nat /\ packet[w] \in Seq(Byte) /\ file \in Seq(Byte) /\ left[w] <= L
    BY DEF WriteInv, TypeInv, PacketShape
  <2>2. L \in Nat /\ F \in Nat
    BY <2>1, LenProperties
  <2>3. PICK m \in Nat, l \in Nat : m = L /\ l = left[w]
    BY <2>1, <2>2
  <2>4. n \in Nat /\ n >= 1 /\ n <= l /\ o = m - l /\ o \in Nat /\ o + n <= m
    BY <1>0, <2>1, <2>3 DEF Out
  <2> QED BY <2>1, <2>2, <2>3, <2>4, SMTT(30)
<1>4. /\ file' \in Seq(Byte) /\ Len(file') = F + n
      /\ \A i \in 1 .. F : file'[i] = file[i]
      /\ \A i \in 1 .. n : file'[F + i] = packet[w][o + i]
  <2>1. file' \in Seq(Byte) /\ Appended(file', file, packet[w], left[w], n)
    <3>1. file \in Seq(Byte) /\ packet[w] \in Seq(Byte) /\ left[w] \in Nat
            /\ left[w] <= Len(packet[w])
      BY <1>1
    <3> QED BY <3>1, AppendedPiece, Zenon
  <2>2. L - left[w] = o
    BY <1>1
  <2> QED BY <2>1, <2>2, Zenon DEF Appended
<1>5. \A i \in 1 .. n : file'[F + i] = <<w, written[w], o + i>>
  <2> TAKE i \in 1 .. n
  <2>1. PICK j \in 1 .. L : j = o + i
    BY <1>1, SMTT(30)
  <2>2. packet[w][j] = <<w, written[w], j>>
    BY DEF WriteInv, PacketShape
  <2> QED BY <1>4, <2>1, <2>2
<1>6. /\ left'[w] = left[w] - n /\ left'[w] \in Nat
      /\ \A v \in Writers : v # w => left'[v] = left[v]
      /\ left' \in [Writers -> Nat]
  <2>1. left \in [Writers -> Nat] /\ left[w] - n \in Nat
    BY <1>1, SMTT(30) DEF WriteInv, TypeInv
  <2> QED BY <2>1
<1>7. TypeInv'
  <2>1. Len(file') \in Nat
    BY <1>1, <1>4
  <2>2. fpos' \in [Handlers -> Nat]
    BY <2>1 DEF WriteInv, TypeInv
  <2> QED BY <1>4, <1>6, <2>2 DEF WriteInv, TypeInv
<1>8. HolderWrites'
  BY DEF WriteInv, HolderWrites
<1>9. PacketShape'
  <2>1. left'[w] <= Len(packet[w])
    BY <1>1, <1>6
  <2> QED BY <1>6, <2>1 DEF WriteInv, PacketShape
<1>10. ASSUME NEW i \in 1 .. F + n
       PROVE  i \in 1 .. F \/ \E k \in 1 .. n : i = F + k
  <2>1. CASE i > F
    <3>1. i - F \in 1 .. n /\ i = F + (i - F)
      BY <1>1, <2>1
    <3> QED BY <3>1
  <2>2. CASE ~(i > F)
    BY <1>1, <2>2
  <2> QED BY <2>1, <2>2
<1>11. FileBytes'
  <2> SUFFICES ASSUME NEW i \in 1 .. F + n
               PROVE  file'[i][3] >= 1 /\ file'[i][2] <= written[file'[i][1]]
    BY <1>4 DEF FileBytes
  <2>1. CASE i \in 1 .. F
    BY <1>4, <2>1 DEF WriteInv, FileBytes
  <2>2. ASSUME NEW k \in 1 .. n, i = F + k
        PROVE  file'[i][3] >= 1 /\ file'[i][2] <= written[file'[i][1]]
    <3>1. file'[i] = <<w, written[w], o + k>>
      BY <1>5, <2>2
    <3>2. o + k \in Nat /\ o + k >= 1
      <4>1. o \in Nat /\ k \in Nat /\ k >= 1
        BY <1>1
      <4> QED BY <4>1
    <3>3. written[w] \in Nat
      BY DEF WriteInv, TypeInv
    <3> QED BY <3>1, <3>2, <3>3
  <2> QED BY <1>10, <2>1, <2>2
<1>12. ASSUME o # 0 PROVE F # 0 /\ file[F] = <<w, written[w], o>>
  <2>1. left[w] < L
    BY <1>1, <1>12
  <2>2. file # << >> /\ file[F] = <<w, written[w], o>>
    BY <1>0, <2>1 DEF WriteInv, LastByte
  <2> QED BY <1>1, <2>2, EmptySeq
<1>13. ASSUME o = 0, F # 0 PROVE Ended(file[F])
  <2>1. F \in 1 .. F /\ file # << >>
    BY <1>1, <1>13
  <2>2. file[F][1] \in Writers /\ file[F][3] >= 1
    BY <2>1, FileByteType DEF WriteInv, FileBytes
  <2>3. SUFFICES ASSUME pc[file[F][1]] = "write", file[F] = <<file[F][1], written[file[F][1]], Out(file[F][1])>>
                 PROVE  FALSE
    BY <2>1 DEF WriteInv, LastByte
  <2>4. file[F][1] = w
    BY <2>2, <2>3 DEF WriteInv, HolderWrites
  <2>5. file[F][3] = o
    BY <1>0, <2>3, <2>4
  <2> QED BY <1>13, <2>2, <2>5
<1>14. PacketsUnmixed'
  <2>1. file'[1][3] = 1
    <3>1. CASE F = 0
      <4>1. o = 0 /\ 1 \in 1 .. n /\ F + 1 = 1 /\ o + 1 = 1
        BY <1>1, <1>12, <3>1
      <4>2. file'[1] = <<w, written[w], 1>>
        BY <1>5, <4>1
      <4> QED BY <4>2
    <3>2. CASE F # 0
      <4>1. 1 \in 1 .. F /\ file # << >>
        BY <1>1, <3>2
      <4> QED BY <1>4, <4>1 DEF WriteInv, PacketsUnmixed
    <3> QED BY <3>1, <3>2
  <2>2. ASSUME NEW i \in 1 .. (F + n) - 1
        PROVE  \/ file'[i + 1] = <<file'[i][1], file'[i][2], file'[i][3] + 1>>
               \/ file'[i + 1][3] = 1 /\ Ended(file'[i])
    <3>1. CASE i < F
      <4>1. i \in 1 .. F - 1 /\ i \in 1 .. F /\ i + 1 \in 1 .. F
        BY <1>1, <3>1
      <4> QED BY <1>4, <4>1 DEF WriteInv, PacketsUnmixed, Ended
    <3>2. CASE i = F
      <4>1. F \in 1 .. F /\ F # 0 /\ 1 \in 1 .. n
        BY <1>1, <3>2
      <4>2. file'[F] = file[F] /\ file'[F + 1] = <<w, written[w], o + 1>>
        BY <1>4, <1>5, <4>1
      <4>3. CASE o # 0
        <5>1. file[F] = <<w, written[w], o>>
          BY <1>12, <4>3
        <5> QED BY <3>2, <4>2, <5>1
      <4>4. CASE o = 0
        BY <1>13, <3>2, <4>1, <4>2, <4>4
      <4> QED BY <4>3, <4>4
    <3>3. CASE i > F
      <4> DEFINE k == i - F
      <4>1. k \in 1 .. n /\ k + 1 \in 1 .. n /\ i = F + k /\ i + 1 = F + (k + 1)
        <5>1. F \in Nat /\ n \in Nat /\ i \in 1 .. (F + n) - 1 /\ i > F
          BY <1>1, <3>3
        <5> HIDE DEF F
        <5> QED BY <5>1
      <4> HIDE DEF k
      <4>2. file'[i] = <<w, written[w], o + k>> /\ file'[i + 1] = <<w, written[w], o + (k + 1)>>
        BY <1>5, <4>1
      <4>3. o + (k + 1) = (o + k) + 1
        BY <1>1, <4>1
      <4> QED BY <4>2, <4>3
    <3>4. i < F \/ i = F \/ i > F
      BY <1>1
    <3> QED BY <3>1, <3>2, <3>3, <3>4
  <2>3. ASSUME NEW i \in 1 .. Len(file') - 1
        PROVE  \/ file'[i + 1] = <<file'[i][1], file'[i][2], file'[i][3] + 1>>
               \/ file'[i + 1][3] = 1 /\ Ended(file[i])'
    <3>1. Ended(file'[i]) <=> Ended(file[i])'
      BY DEF Ended, EndsPacket
    <3> QED BY <1>4, <2>2, <3>1
  <2> QED BY <2>1, <2>3 DEF PacketsUnmixed, Ended
<1>15. LastByte'
  <2>1. file'[F + n] = <<w, written[w], o + n>>
    <3>1. n \in 1 .. n
      BY <1>1
    <3> QED BY <1>5, <3>1
  <2>2. Out(w)' = o + n
    BY <1>1, <1>6 DEF Out
  <2>3. file' # << >> /\ Len(file') = F + n
    BY <1>1, <1>4
  <2>4. \A v \in Writers : pc[v] = "write" => v = w
    BY DEF WriteInv, HolderWrites
  <2> QED BY <2>1, <2>2, <2>3, <2>4 DEF LastByte
<1> QED BY <1>0, <1>4, <1>7, <1>8, <1>9, <1>11, <1>14, <1>15 DEF WriteInv

(* putchars has returned: its last byte is the packet's, or it failed.     *)
LEMMA UnlockKeeps ==
  ASSUME WriteInv, NEW w \in Writers, Unlock(w)
  PROVE  WriteInv'
<1>1. /\ pc[w] = "write" /\ (left[w] = 0 \/ abort[w]) /\ mutex' = Nobody
      /\ UNCHANGED <<file, packet, left, written, buffer, sent>>
  BY DEF Unlock, MutexAfter
<1>2. /\ TypeInv'
      /\ pc'[w] \notin {"lock", "write"}
      /\ \A v \in Writers : v # w => pc'[v] = pc[v]
      /\ \A v \in Writers : abort[v] => abort'[v]
  <2>1. CASE /\ Goto(w, IF abort[w] THEN "close" ELSE IF w = Timer THEN "wait" ELSE "read")
             /\ fpos' = [h \in Handlers |-> IF h = w /\ ~abort[w] THEN SeekStart(h) ELSE fpos[h]]
             /\ UNCHANGED abort
    BY <1>1, <2>1 DEF WriteInv, TypeInv, Goto, SeekStart
  <2>2. CASE Fail(w) /\ UNCHANGED fpos
    BY <1>1, <2>2 DEF WriteInv, TypeInv, Fail, Goto
  <2> QED BY <2>1, <2>2 DEF Unlock
<1>3. \A v \in Writers : v # w => pc[v] # "write" /\ pc'[v] = pc[v]
  BY <1>1, <1>2 DEF WriteInv, TypeInv, HolderWrites
<1>4. pc'[w] \notin {"lock", "write"}
  BY <1>2
<1>5. HolderWrites'
  BY <1>1, <1>3, <1>4, TmpFileAssumption DEF HolderWrites, Writers
<1>6. PacketShape'
  BY <1>1, <1>3, <1>4 DEF WriteInv, PacketShape
<1>7. FileBytes' /\ PacketsUnmixed'
  BY <1>1, <1>2, SameFile
<1>8. LastByte'
  <2>1. ASSUME file # << >> PROVE Ended(file[Len(file)])'
    <3> DEFINE b == file[Len(file)]
    <3>1. Len(file) \in 1 .. Len(file)
      BY <2>1, EmptySeq DEF WriteInv, TypeInv
    <3>2. b[1] \in Writers
      BY <3>1, FileByteType DEF WriteInv
    <3>3. Ended(b) \/ (pc[b[1]] = "write" /\ b = <<b[1], written[b[1]], Out(b[1])>>)
      BY <2>1 DEF WriteInv, LastByte
    <3>4. CASE pc[b[1]] = "write" /\ b = <<b[1], written[b[1]], Out(b[1])>>
      <4>1. b[1] = w /\ b[3] = Out(w)
        BY <1>3, <3>2, <3>4
      <4>2. left[w] = 0 => Out(w) = Len(packet[w])
        BY LenProperties DEF WriteInv, TypeInv, Out
      <4>3. EndsPacket(b)
        BY <1>1, <4>1, <4>2 DEF EndsPacket
      <4> QED BY <1>1, <1>2, <3>1, <4>3, SameFile DEF Ended
    <3> QED BY <1>1, <1>2, <3>1, <3>3, <3>4, SameFile
  <2>2. \A v \in Writers : pc'[v] # "write"
    BY <1>3, <1>4
  <2> QED BY <1>1, <2>1, <2>2 DEF LastByte
<1> QED BY <1>2, <1>5, <1>6, <1>7, <1>8 DEF WriteInv

(* A call of a thread that is not in putchars fails.                       *)
LEMMA FailKeeps ==
  ASSUME WriteInv, NEW w \in Writers, pc[w] # "write", Fail(w),
         UNCHANGED <<file, mutex, packet, left, written, fpos, buffer, sent>>
  PROVE  WriteInv'
<1>1. abort' = [abort EXCEPT ![w] = TRUE] /\ pc' = [pc EXCEPT ![w] = "close"]
  BY DEF Fail, Goto
<1>2. TypeInv'
  BY <1>1 DEF WriteInv, TypeInv
<1>3. /\ pc'[w] \notin {"lock", "write"}
      /\ \A v \in Writers : v # w => pc'[v] = pc[v] /\ left'[v] = left[v]
      /\ \A v \in Writers : abort[v] => abort'[v]
  BY <1>1 DEF WriteInv, TypeInv
<1> QED BY <1>2, <1>3, AsideKeeps

(* A handler opens the file.                                               *)
LEMMA OpenKeeps == ASSUME WriteInv, NEW h \in Handlers, Open(h) PROVE WriteInv'
<1>1. pc[h] = "open" /\ h \in Writers
      /\ UNCHANGED <<file, mutex, packet, left, written, fpos, buffer, sent>>
  BY DEF Open, reply, Writers
<1>2. CASE Goto(h, "recv") /\ UNCHANGED abort
  <2>1. TypeInv'
    BY <1>1, <1>2 DEF WriteInv, TypeInv, Goto
  <2>2. /\ pc'[h] \notin {"lock", "write"}
        /\ \A v \in Writers : v # h => pc'[v] = pc[v] /\ left'[v] = left[v]
    BY <1>1, <1>2 DEF WriteInv, TypeInv, Goto
  <2> QED BY <1>1, <1>2, <2>1, <2>2, AsideKeeps
<1>3. CASE Fail(h)
  BY <1>1, <1>3, FailKeeps
<1> QED BY <1>2, <1>3 DEF Open

(* A handler receives its packet.                                          *)
LEMMA RecvKeeps == ASSUME WriteInv, NEW h \in Handlers, Recv(h) PROVE WriteInv'
<1>1. pc[h] = "recv" /\ h \in Writers /\ UNCHANGED <<file, mutex, reply>>
  BY DEF Recv, Writers
<1>2. ASSUME NEW n \in 1 .. MaxPacket, Packet(h, n) PROVE WriteInv'
  <2>1. n \in Nat
    BY TmpFileAssumption
  <2> QED BY <1>1, <1>2, <2>1, PacketKeeps
<1>3. CASE Fail(h) /\ UNCHANGED <<packet, left, written>>
  BY <1>1, <1>3, FailKeeps DEF reply
<1> QED BY <1>2, <1>3 DEF Recv

(* The timer thread makes a timestamp.                                     *)
LEMMA StampKeeps == ASSUME WriteInv, Stamp PROVE WriteInv'
<1>1. pc[Timer] = "wait" /\ Timer \in Writers /\ UNCHANGED <<file, mutex, reply>>
  BY DEF Stamp, Writers
<1>2. CASE Packet(Timer, DateSize)
  BY <1>1, <1>2, PacketKeeps, TmpFileAssumption
<1>3. CASE Fail(Timer) /\ UNCHANGED <<packet, left, written>>
  BY <1>1, <1>3, FailKeeps DEF reply
<1> QED BY <1>2, <1>3 DEF Stamp

(* The holder of the mutex appends the next piece of its packet.           *)
LEMMA WriteKeeps == ASSUME WriteInv, NEW w \in Writers, Write(w) PROVE WriteInv'
<1>1. pc[w] = "write" /\ UNCHANGED <<mutex, pc, packet, written, buffer, sent>>
  BY DEF Write
<1>2. ASSUME NEW n \in 1 .. left[w],
             file' = file \o Piece(packet[w], left[w], n),
             left' = [left EXCEPT ![w] = @ - n],
             fpos' = [h \in Handlers |-> IF h = w THEN Len(file') ELSE fpos[h]],
             UNCHANGED abort
      PROVE  WriteInv'
  BY <1>1, <1>2, WriteBytesKeeps
<1>3. CASE abort' = [abort EXCEPT ![w] = TRUE] /\ UNCHANGED <<file, left, fpos>>
  BY <1>1, <1>3, WriteFailsKeeps
<1> QED BY <1>2, <1>3 DEF Write

(* The position of a handler that reads is in the file.                    *)
LEMMA ReadKeeps ==
  ASSUME WriteInv, NEW h \in Handlers, Read(h), fpos[h] <= Len(file)
  PROVE  WriteInv'
<1> DEFINE n == IF Len(file) - fpos[h] < ConnBufSize THEN Len(file) - fpos[h] ELSE ConnBufSize
<1>1. pc[h] = "read" /\ h \in Writers /\ UNCHANGED <<file, mutex, packet, written, sent>>
  BY DEF Read, Writers
<1>2. CASE /\ buffer' = [buffer EXCEPT ![h] = SubSeq(file, fpos[h] + 1, fpos[h] + n)]
           /\ fpos' = [fpos EXCEPT ![h] = @ + n]
           /\ left' = [left EXCEPT ![h] = n]
           /\ Goto(h, IF n = 0 THEN "close" ELSE "send")
           /\ UNCHANGED abort
  <2>1. Len(file) \in Nat /\ fpos[h] \in Nat /\ file \in Seq(Byte)
    BY LenProperties DEF WriteInv, TypeInv
  <2>2. n \in Nat /\ fpos[h] + n \in Nat /\ fpos[h] + n <= Len(file)
    BY <2>1, TmpFileAssumption
  <2> HIDE DEF n
  <2>3. SubSeq(file, fpos[h] + 1, fpos[h] + n) \in Seq(Byte)
    <3>1. \A i \in fpos[h] + 1 .. fpos[h] + n : i \in 1 .. Len(file)
      BY <2>1, <2>2
    <3>2. \A i \in fpos[h] + 1 .. fpos[h] + n : file[i] \in Byte
      BY <2>1, <3>1
    <3> QED BY <2>1, <2>2, <3>2, SubSeqProperties
  <2>4. pc' = [pc EXCEPT ![h] = IF n = 0 THEN "close" ELSE "send"]
    BY <1>2 DEF Goto
  <2>5. TypeInv'
    <3>1. buffer' \in [Handlers -> Seq(Byte)]
      BY <1>2, <2>3 DEF WriteInv, TypeInv
    <3>2. fpos' \in [Handlers -> Nat] /\ left' \in [Writers -> Nat]
      BY <1>2, <2>1, <2>2 DEF WriteInv, TypeInv
    <3> QED BY <1>1, <1>2, <2>4, <3>1, <3>2 DEF WriteInv, TypeInv
  <2>6. /\ pc'[h] \notin {"lock", "write"}
        /\ \A v \in Writers : v # h => pc'[v] = pc[v] /\ left'[v] = left[v]
    BY <1>1, <1>2, <2>4 DEF WriteInv, TypeInv
  <2> QED BY <1>1, <1>2, <2>5, <2>6, AsideKeeps
<1>3. CASE Fail(h) /\ UNCHANGED <<buffer, fpos, left>>
  BY <1>1, <1>3, FailKeeps
<1> QED BY <1>2, <1>3 DEF Read

(* A handler sends a piece of the buffer it has read.                      *)
LEMMA SendKeeps ==
  ASSUME WriteInv, NEW h \in Handlers, Send(h), left[h] <= Len(buffer[h])
  PROVE  WriteInv'
<1>1. pc[h] = "send" /\ h \in Writers
      /\ UNCHANGED <<file, mutex, packet, written, fpos, buffer>>
  BY DEF Send, Writers
<1>2. ASSUME NEW n \in 1 .. left[h],
             sent' = [sent EXCEPT ![h] = @ \o Piece(buffer[h], left[h], n)],
             left' = [left EXCEPT ![h] = @ - n],
             Goto(h, IF n = left[h] THEN "read" ELSE "send"),
             UNCHANGED abort
      PROVE  WriteInv'
  <2>1. left[h] \in Nat /\ sent[h] \in Seq(Byte) /\ buffer[h] \in Seq(Byte)
    BY <1>1 DEF WriteInv, TypeInv
  <2>2. sent[h] \o Piece(buffer[h], left[h], n) \in Seq(Byte)
    BY <2>1, AppendedPiece, Zenon
  <2>3. left[h] - n \in Nat
    BY <2>1
  <2>4. TypeInv'
    <3>1. sent' \in [Handlers -> Seq(Byte)]
      BY <1>2, <2>2 DEF WriteInv, TypeInv
    <3>2. left' \in [Writers -> Nat]
      BY <1>2, <2>3 DEF WriteInv, TypeInv
    <3> QED BY <1>1, <1>2, <3>1, <3>2 DEF WriteInv, TypeInv, Goto
  <2>5. /\ pc'[h] \notin {"lock", "write"}
        /\ \A v \in Writers : v # h => pc'[v] = pc[v] /\ left'[v] = left[v]
    BY <1>1, <1>2 DEF WriteInv, TypeInv, Goto
  <2> QED BY <1>1, <1>2, <2>4, <2>5, AsideKeeps
<1>3. CASE Fail(h) /\ UNCHANGED <<sent, left>>
  BY <1>1, <1>3, FailKeeps
<1> QED BY <1>2, <1>3 DEF Send

(* A writer closes its file when it no longer writes.                      *)
LEMMA CloseKeeps == ASSUME WriteInv, NEW w \in Writers, Close(w) PROVE WriteInv'
<1>1. /\ pc[w] = "close" /\ pc' = [pc EXCEPT ![w] = "closed"]
      /\ abort' \in {abort, [abort EXCEPT ![w] = TRUE]}
      /\ UNCHANGED <<file, mutex, packet, left, written, fpos, buffer, sent>>
  BY DEF Close, Goto, reply
<1>2. TypeInv'
  BY <1>1 DEF WriteInv, TypeInv
<1>3. /\ pc'[w] \notin {"lock", "write"}
      /\ \A v \in Writers : v # w => pc'[v] = pc[v] /\ left'[v] = left[v]
      /\ \A v \in Writers : abort[v] => abort'[v]
  BY <1>1 DEF WriteInv, TypeInv
<1> QED BY <1>1, <1>2, <1>3, AsideKeeps

-----------------------------------------------------------------------------
(* The file only grows: the bytes it holds stay where they are.            *)
Grows == Len(file) <= Len(file') /\ \A i \in 1 .. Len(file) : file'[i] = file[i]

(* A step that leaves the file alone.                                      *)
LEMMA SameFileGrows == ASSUME TypeInv, UNCHANGED file PROVE Grows
<1>1. Len(file) \in Nat
  BY LenProperties DEF TypeInv
<1> QED BY <1>1 DEF Grows

(* A byte of a packet that is in the file is there after any step.         *)
LEMMA StillThere ==
  ASSUME TypeInv, TypeInv', Grows, NEW x, \E j \in 1 .. Len(file) : file[j] = x
  PROVE  \E j \in 1 .. Len(file') : file'[j] = x
<1>1. Len(file) \in Nat /\ Len(file') \in Nat /\ Len(file) <= Len(file')
  BY LenProperties DEF TypeInv, Grows
<1>2. PICK j \in 1 .. Len(file) : file[j] = x
  OBVIOUS
<1>3. j \in 1 .. Len(file') /\ file'[j] = x
  BY <1>1, <1>2 DEF Grows
<1> QED BY <1>3

(* What was sent stays a prefix of the file as the file grows.             *)
LEMMA SentStays ==
  ASSUME TypeInv, TypeInv', Grows, NEW h \in Handlers, SentPrefix(h), sent'[h] = sent[h]
  PROVE  SentPrefix(h)'
<1>1. Len(file) \in Nat /\ Len(file') \in Nat /\ Len(file) <= Len(file') /\ Len(sent[h]) \in Nat
  BY LenProperties DEF TypeInv, Grows
<1>2. Len(sent[h]) <= Len(file')
  BY <1>1 DEF SentPrefix
<1>3. ASSUME NEW i \in 1 .. Len(sent[h]) PROVE sent[h][i] = file'[i]
  <2>1. i \in 1 .. Len(file)
    BY <1>1 DEF SentPrefix
  <2> QED BY <2>1 DEF SentPrefix, Grows
<1> QED BY <1>2, <1>3 DEF SentPrefix

(***************************************************************************)
(* A handler that does not move keeps its reply, whatever the others do to *)
(* the file: they append to it.                                            *)
(***************************************************************************)
LEMMA OthersReply ==
  ASSUME TypeInv, TypeInv', Grows, NEW h \in Handlers, ReplyOf(h),
         pc'[h] = pc[h], left'[h] = left[h], packet'[h] = packet[h],
         abort'[h] = abort[h], fpos'[h] = fpos[h], buffer'[h] = buffer[h],
         sent'[h] = sent[h]
  PROVE  ReplyOf(h)'
<1>1. SentPrefix(h)'
  BY SentStays DEF ReplyOf
<1>2. ReplyPosition(h)'
  <2>1. ASSUME pc[h] = "send"
        PROVE  /\ left[h] <= Len(buffer[h]) /\ Len(buffer[h]) <= fpos[h] /\ fpos[h] <= Len(file')
               /\ fpos[h] = Len(sent[h]) + left[h]
               /\ \A i \in 1 .. Len(buffer[h]) : buffer[h][i] = file'[fpos[h] - Len(buffer[h]) + i]
    <3>1. /\ left[h] <= Len(buffer[h]) /\ Len(buffer[h]) <= fpos[h] /\ fpos[h] <= Len(file)
          /\ fpos[h] = Len(sent[h]) + left[h]
          /\ \A i \in 1 .. Len(buffer[h]) : buffer[h][i] = file[fpos[h] - Len(buffer[h]) + i]
      BY <2>1 DEF ReplyOf, ReplyPosition
    <3>2. /\ Len(file) \in Nat /\ Len(file') \in Nat /\ Len(file) <= Len(file')
          /\ Len(buffer[h]) \in Nat /\ fpos[h] \in Nat
      BY LenProperties DEF TypeInv, Grows
    <3>3. ASSUME NEW i \in 1 .. Len(buffer[h])
          PROVE  buffer[h][i] = file'[fpos[h] - Len(buffer[h]) + i]
      <4>1. fpos[h] - Len(buffer[h]) + i \in 1 .. Len(file)
        BY <3>1, <3>2
      <4>2. file'[fpos[h] - Len(buffer[h]) + i] = file[fpos[h] - Len(buffer[h]) + i]
        BY <4>1 DEF Grows
      <4> QED BY <3>1, <4>2
    <3> QED BY <3>1, <3>2, <3>3
  <2> QED BY <2>1 DEF ReplyOf, ReplyPosition
<1>3. PacketArrives(h)'
  <2>1. ASSUME pc[h] = "write", NEW i \in 1 .. Out(h)
        PROVE  \E j \in 1 .. Len(file') : file'[j] = packet[h][i]
    BY <2>1, StillThere DEF ReplyOf, PacketArrives
  <2>2. ASSUME pc[h] \in {"read", "send"}, NEW i \in 1 .. Len(packet[h])
        PROVE  \E j \in 1 .. Len(file') : file'[j] = packet[h][i]
    BY <2>2, StillThere DEF ReplyOf, PacketArrives
  <2>3. Out(h)' = Out(h)
    BY DEF Out
  <2> QED BY <2>1, <2>2, <2>3 DEF ReplyOf, PacketArrives
<1> QED BY <1>1, <1>2, <1>3 DEF ReplyOf

(* A handler whose call fails keeps what its client has been sent.         *)
LEMMA FailedReply ==
  ASSUME TypeInv, TypeInv', Grows, NEW h \in Handlers, ReplyOf(h),
         pc'[h] \in {"close", "closed"}, abort'[h], sent'[h] = sent[h]
  PROVE  ReplyOf(h)'
<1>1. SentPrefix(h)'
  BY SentStays DEF ReplyOf
<1> QED BY <1>1 DEF ReplyOf, ReplyPosition, PacketArrives

(* What every step keeps: the threads' packets in the file and the replies. *)
FileInv == WriteInv /\ \A h \in Handlers : ReplyOf(h)

(* No handler has sent anything.                                           *)
LEMMA ReplyInvInit == Init => \A h \in Handlers : ReplyOf(h)
BY DEF Init, ReplyOf, SentPrefix, ReplyPosition, PacketArrives, Out, Writers

(***************************************************************************)
(* A step of writer w leaves the replies of the other handlers as they     *)
(* are, so only its own is left to show.                                   *)
(***************************************************************************)
LEMMA OwnReply ==
  ASSUME FileInv, TypeInv', Grows, NEW w \in Writers,
         \A h \in Handlers : h # w =>
           /\ pc'[h] = pc[h] /\ left'[h] = left[h] /\ packet'[h] = packet[h]
           /\ abort'[h] = abort[h] /\ fpos'[h] = fpos[h] /\ buffer'[h] = buffer[h]
           /\ sent'[h] = sent[h],
         w \in Handlers => ReplyOf(w)'
  PROVE  \A h \in Handlers : ReplyOf(h)'
<1>1. TypeInv
  BY DEF FileInv, WriteInv
<1> TAKE h \in Handlers
<1>2. CASE h = w
  BY <1>2
<1>3. CASE h # w
  <2>1. ReplyOf(h)
    BY DEF FileInv
  <2> QED BY <1>1, <1>3, <2>1, OthersReply
<1> QED BY <1>2, <1>3

(* A handler that has not begun to reply has sent nothing.                 *)
LEMMA NothingSent ==
  ASSUME TypeInv, TypeInv', Grows, NEW h \in Handlers, ReplyOf(h), sent'[h] = sent[h],
         pc[h] \in {"open", "recv"}, pc'[h] \in {"recv", "lock"}
  PROVE  ReplyOf(h)'
<1>1. SentPrefix(h)'
  BY SentStays DEF ReplyOf
<1>2. sent[h] = << >>
  BY DEF ReplyOf, ReplyPosition
<1> QED BY <1>1, <1>2 DEF ReplyOf, ReplyPosition, PacketArrives

(* Opening sends nothing.                                                  *)
LEMMA OpenReply == ASSUME FileInv, NEW h \in Handlers, Open(h) PROVE FileInv'
<1>1. WriteInv' /\ TypeInv /\ TypeInv' /\ ReplyOf(h) /\ h \in Writers
  BY OpenKeeps DEF FileInv, WriteInv, Writers
<1>2. Grows /\ pc[h] = "open" /\ UNCHANGED <<left, packet, fpos, buffer, sent>>
  BY <1>1, SameFileGrows DEF Open, reply
<1>3. /\ (pc'[h] = "recv" \/ (pc'[h] = "close" /\ abort'[h]))
      /\ \A g \in Handlers : g # h => pc'[g] = pc[g] /\ abort'[g] = abort[g]
  BY <1>1 DEF Open, Goto, Fail, TypeInv, Writers
<1>4. ReplyOf(h)'
  BY <1>1, <1>2, <1>3, NothingSent, FailedReply
<1> QED BY <1>1, <1>2, <1>3, <1>4, OwnReply DEF FileInv

(* Receiving sends nothing.                                                *)
LEMMA RecvReply == ASSUME FileInv, NEW h \in Handlers, Recv(h) PROVE FileInv'
<1>1. WriteInv' /\ TypeInv /\ TypeInv' /\ ReplyOf(h) /\ h \in Writers
  BY RecvKeeps DEF FileInv, WriteInv, Writers
<1>2. Grows /\ pc[h] = "recv" /\ UNCHANGED <<fpos, buffer, sent>>
  BY <1>1, SameFileGrows DEF Recv, reply
<1>3. /\ (pc'[h] = "lock" \/ (pc'[h] = "close" /\ abort'[h]))
      /\ \A g \in Handlers : g # h => /\ pc'[g] = pc[g] /\ abort'[g] = abort[g]
                                       /\ left'[g] = left[g] /\ packet'[g] = packet[g]
  BY <1>1 DEF Recv, Packet, Goto, Fail, TypeInv, Writers
<1>4. ReplyOf(h)'
  BY <1>1, <1>2, <1>3, NothingSent, FailedReply
<1> QED BY <1>1, <1>2, <1>3, <1>4, OwnReply DEF FileInv

(* A timestamp leaves replies alone.                                       *)
LEMMA StampReply == ASSUME FileInv, Stamp PROVE FileInv'
<1>1. WriteInv' /\ TypeInv /\ TypeInv' /\ Timer \in Writers /\ Timer \notin Handlers
  BY StampKeeps, TmpFileAssumption DEF FileInv, WriteInv, Writers
<1>2. Grows /\ UNCHANGED <<fpos, buffer, sent>>
  BY <1>1, SameFileGrows DEF Stamp, reply
<1>3. \A g \in Handlers : g # Timer => /\ pc'[g] = pc[g] /\ abort'[g] = abort[g]
                                       /\ left'[g] = left[g] /\ packet'[g] = packet[g]
  BY <1>1 DEF Stamp, Packet, Goto, Fail, TypeInv, Writers
<1> QED BY <1>1, <1>2, <1>3, OwnReply DEF FileInv

(* Nothing of the packet is written yet.                                   *)
LEMMA LockReply == ASSUME FileInv, NEW w \in Writers, Lock(w) PROVE FileInv'
<1>1. WriteInv' /\ TypeInv /\ TypeInv'
  BY LockKeeps DEF FileInv, WriteInv
<1>2. Grows /\ UNCHANGED <<file, left, packet, abort, fpos, buffer, sent>> /\ pc[w] = "lock"
  BY <1>1, SameFileGrows DEF Lock, reply
<1>3. pc'[w] = "write" /\ \A g \in Handlers : g # w => pc'[g] = pc[g]
  BY <1>1 DEF Lock, Goto, TypeInv, Writers
<1>4. ASSUME w \in Handlers PROVE ReplyOf(w)'
  <2>1. ReplyOf(w) /\ SentPrefix(w)' /\ sent[w] = << >>
    BY <1>1, <1>2, <1>4, SentStays DEF FileInv, ReplyOf, ReplyPosition
  <2>2. Out(w)' = 0
    BY <1>1, <1>2, LenProperties DEF FileInv, WriteInv, PacketShape, Out, TypeInv
  <2> QED BY <1>2, <1>3, <2>1, <2>2 DEF ReplyOf, ReplyPosition, PacketArrives
<1> QED BY <1>1, <1>2, <1>3, <1>4, OwnReply DEF FileInv

(* The bytes just written are in the file with those written before.       *)
LEMMA WriteReply == ASSUME FileInv, NEW w \in Writers, Write(w) PROVE FileInv'
<1>1. WriteInv /\ WriteInv' /\ TypeInv /\ TypeInv'
  BY WriteKeeps DEF FileInv, WriteInv
<1>2. pc[w] = "write" /\ UNCHANGED <<mutex, pc, packet, written, buffer, sent>>
  BY DEF Write
<1>3. \A g \in Handlers : g # w => /\ left'[g] = left[g] /\ abort'[g] = abort[g]
                                   /\ fpos'[g] = fpos[g]
  BY <1>1 DEF Write, TypeInv, Writers
<1>4. ASSUME NEW n \in 1 .. left[w],
             file' = file \o Piece(packet[w], left[w], n),
             left' = [left EXCEPT ![w] = @ - n],
             fpos' = [h \in Handlers |-> IF h = w THEN Len(file') ELSE fpos[h]],
             UNCHANGED abort
      PROVE  Grows /\ (w \in Handlers => ReplyOf(w)')
  <2>1. /\ Len(file') = Len(file) + n
        /\ \A i \in 1 .. Len(file) : file'[i] = file[i]
        /\ \A i \in 1 .. n : file'[Len(file) + i] = packet[w][Out(w) + i]
    BY <1>1, <1>2, <1>4, WriteBytesKeeps
  <2>2. /\ Len(file) \in Nat /\ n \in Nat /\ left[w] \in Nat /\ Len(packet[w]) \in Nat
        /\ left'[w] = left[w] - n /\ left[w] <= Len(packet[w])
    BY <1>1, <1>2, <1>4, LenProperties DEF WriteInv, TypeInv, PacketShape
  <2>3. Grows
    BY <2>1, <2>2 DEF Grows
  <2>4. ASSUME w \in Handlers PROVE ReplyOf(w)'
    <3>1. ReplyOf(w) /\ SentPrefix(w)' /\ sent[w] = << >>
      BY <1>1, <1>2, <2>3, <2>4, SentStays DEF FileInv, ReplyOf, ReplyPosition
    <3>2. PICK o \in Nat : o = Out(w)
      BY <2>2 DEF Out
    <3>3. Out(w)' = o + n
      BY <1>2, <2>2, <3>2 DEF Out
    <3>4. ASSUME NEW i \in 1 .. o + n
          PROVE  \E j \in 1 .. Len(file') : file'[j] = packet[w][i]
      <4>1. CASE i <= o
        <5>1. i \in 1 .. Out(w)
          BY <3>2, <4>1
        <5>2. \E j \in 1 .. Len(file) : file[j] = packet[w][i]
          BY <1>2, <3>1, <5>1 DEF ReplyOf, PacketArrives
        <5> QED BY <1>1, <2>3, <5>2, StillThere
      <4>2. CASE i > o
        <5>1. PICK k \in 1 .. n : i = o + k
          <6>1. i - o \in 1 .. n /\ i = o + (i - o)
            BY <2>2, <4>2
          <6> QED BY <6>1
        <5>2. file'[Len(file) + k] = packet[w][i]
          BY <2>1, <3>2, <5>1
        <5>3. Len(file) + k \in 1 .. Len(file')
          BY <2>1, <2>2
        <5> QED BY <5>2, <5>3
      <4> QED BY <4>1, <4>2
    <3>5. ReplyPosition(w)'
      BY <1>2, <3>1 DEF ReplyPosition
    <3>6. PacketArrives(w)'
      BY <1>2, <3>3, <3>4 DEF PacketArrives
    <3> QED BY <3>1, <3>5, <3>6 DEF ReplyOf
  <2> QED BY <2>3, <2>4
<1>5. ASSUME abort' = [abort EXCEPT ![w] = TRUE], UNCHANGED <<file, left, fpos>>
      PROVE  Grows /\ (w \in Handlers => ReplyOf(w)')
  <2>1. Grows
    BY <1>1, <1>5, SameFileGrows
  <2>2. ASSUME w \in Handlers PROVE ReplyOf(w)'
    <3>1. ReplyOf(w)
      BY <2>2 DEF FileInv
    <3> QED BY <1>2, <1>5, <3>1 DEF ReplyOf, SentPrefix, ReplyPosition, PacketArrives, Out
  <2> QED BY <2>1, <2>2
<1>6. Grows /\ (w \in Handlers => ReplyOf(w)')
  BY <1>4, <1>5 DEF Write
<1> QED BY <1>1, <1>2, <1>3, <1>6, OwnReply DEF FileInv

(* putchars has written the whole packet, and the descriptor is rewound;   *)
(* or one of the two has failed.                                           *)
LEMMA UnlockReply == ASSUME FileInv, NEW w \in Writers, Unlock(w) PROVE FileInv'
<1>1. WriteInv /\ WriteInv' /\ TypeInv /\ TypeInv'
  BY UnlockKeeps DEF FileInv, WriteInv
<1>2. /\ pc[w] = "write" /\ (left[w] = 0 \/ abort[w])
      /\ UNCHANGED <<file, packet, left, written, buffer, sent>>
  BY DEF Unlock
<1>3. /\ w \in Handlers => \/ abort'[w] /\ pc'[w] = "close"
                           \/ /\ ~abort[w] /\ ~abort'[w]
                              /\ pc'[w] = "read" /\ fpos'[w] = 0
      /\ \A g \in Handlers : g # w => /\ pc'[g] = pc[g] /\ fpos'[g] = fpos[g]
                                      /\ abort'[g] = abort[g]
      /\ \A v \in Writers : abort[v] => abort'[v]
  <2>1. CASE /\ Goto(w, IF abort[w] THEN "close" ELSE IF w = Timer THEN "wait" ELSE "read")
             /\ fpos' = [h \in Handlers |-> IF h = w /\ ~abort[w] THEN SeekStart(h) ELSE fpos[h]]
             /\ UNCHANGED abort
    BY <1>1, <2>1, TmpFileAssumption DEF Goto, SeekStart, TypeInv, Writers
  <2>2. CASE Fail(w) /\ UNCHANGED fpos
    BY <1>1, <2>2 DEF Fail, Goto, TypeInv, Writers
  <2> QED BY <2>1, <2>2 DEF Unlock
<1>4. Grows
  BY <1>1, <1>2, <1>3, SameFileGrows
<1>5. ASSUME w \in Handlers PROVE ReplyOf(w)'
  <2>1. ReplyOf(w) /\ SentPrefix(w)' /\ sent[w] = << >>
    BY <1>1, <1>2, <1>4, <1>5, SentStays DEF FileInv, ReplyOf, ReplyPosition
  <2>2. CASE abort'[w] /\ pc'[w] = "close"
    BY <1>1, <1>2, <1>3, <1>4, <1>5, <2>1, <2>2, FailedReply
  <2>3. CASE ~abort[w] /\ ~abort'[w] /\ pc'[w] = "read" /\ fpos'[w] = 0
    <3>1. Out(w) = Len(packet[w])
      BY <1>1, <1>2, <2>3, LenProperties DEF TypeInv, Out
    <3>2. \A i \in 1 .. Len(packet[w]) : \E j \in 1 .. Len(file) : file[j] = packet[w][i]
      BY <1>2, <2>1, <2>3, <3>1 DEF ReplyOf, PacketArrives
    <3>3. ReplyPosition(w)'
      BY <1>2, <1>5, <2>1, <2>3 DEF ReplyPosition
    <3>4. PacketArrives(w)'
      BY <1>2, <1>5, <2>3, <3>2 DEF PacketArrives
    <3> QED BY <2>1, <3>3, <3>4 DEF ReplyOf
  <2> QED BY <1>3, <1>5, <2>2, <2>3
<1> QED BY <1>1, <1>2, <1>3, <1>4, <1>5, OwnReply DEF FileInv

(* read takes the bytes that follow what has been sent.  At the end of the *)
(* file the client has been sent all of it.                                *)
LEMMA ReadReply == ASSUME FileInv, NEW h \in Handlers, Read(h) PROVE FileInv'
<1> DEFINE n == IF Len(file) - fpos[h] < ConnBufSize THEN Len(file) - fpos[h] ELSE ConnBufSize
<1>1. /\ WriteInv /\ TypeInv /\ h \in Writers /\ ReplyOf(h) /\ pc[h] = "read"
      /\ UNCHANGED <<file, mutex, packet, written, sent>>
  BY DEF FileInv, WriteInv, Read, Writers
<1>2. /\ Len(file) \in Nat /\ Len(sent[h]) \in Nat /\ fpos[h] = Len(sent[h])
      /\ Len(sent[h]) <= Len(file) /\ file \in Seq(Byte)
  BY <1>1, LenProperties DEF TypeInv, ReplyOf, SentPrefix, ReplyPosition
<1>3. WriteInv' /\ TypeInv' /\ Grows
  <2>1. fpos[h] <= Len(file)
    BY <1>2
  <2>2. WriteInv'
    BY <1>1, <2>1, ReadKeeps
  <2> QED BY <1>1, <2>2, SameFileGrows DEF WriteInv
<1>4. /\ n \in Nat /\ fpos[h] + n <= Len(file) /\ (n = 0 => Len(file) = fpos[h])
  <2>1. Len(file) \in Nat /\ fpos[h] \in Nat /\ fpos[h] <= Len(file)
    BY <1>2
  <2> QED BY <2>1, TmpFileAssumption
<1>5. ASSUME buffer' = [buffer EXCEPT ![h] = SubSeq(file, fpos[h] + 1, fpos[h] + n)],
             fpos' = [fpos EXCEPT ![h] = @ + n],
             left' = [left EXCEPT ![h] = n],
             Goto(h, IF n = 0 THEN "close" ELSE "send"),
             UNCHANGED abort
      PROVE  FileInv'
  <2> HIDE DEF n
  <2>1. /\ buffer'[h] = SubSeq(file, fpos[h] + 1, fpos[h] + n) /\ fpos'[h] = fpos[h] + n
        /\ left'[h] = n /\ pc'[h] = IF n = 0 THEN "close" ELSE "send"
    BY <1>1, <1>5 DEF TypeInv, Goto
  <2>2. \A g \in Handlers : g # h =>
          /\ pc'[g] = pc[g] /\ left'[g] = left[g] /\ fpos'[g] = fpos[g] /\ buffer'[g] = buffer[g]
    BY <1>1, <1>5 DEF TypeInv, Goto, Writers
  <2>3. SentPrefix(h)'
    BY <1>1, <1>3, SentStays DEF ReplyOf
  <2>4. CASE n = 0
    <3>1. ASSUME NEW i \in 1 .. Len(packet[h])
          PROVE  \E j \in 1 .. Len(sent[h]) : sent[h][j] = packet[h][i]
      <4>1. PICK j \in 1 .. Len(file) : file[j] = packet[h][i]
        BY <1>1 DEF ReplyOf, PacketArrives
      <4>2. j \in 1 .. Len(sent[h])
        BY <1>2, <1>4, <2>4
      <4>3. sent[h][j] = file[j]
        BY <1>1, <4>2 DEF ReplyOf, SentPrefix
      <4> QED BY <4>1, <4>2, <4>3
    <3>2. ReplyPosition(h)' /\ PacketArrives(h)'
      BY <1>1, <2>1, <2>4, <3>1 DEF ReplyPosition, PacketArrives
    <3> QED BY <1>1, <1>3, <1>5, <2>2, <2>3, <3>2, OwnReply DEF FileInv, ReplyOf
  <2>5. CASE n # 0
    <3>1. /\ Len(buffer'[h]) = n
          /\ \A i \in 1 .. n : buffer'[h][i] = file[(fpos[h] + 1) + i - 1]
      <4>1. fpos[h] + 1 \in Int /\ fpos[h] + n \in Int /\ fpos[h] + 1 <= fpos[h] + n
              /\ (fpos[h] + n) - (fpos[h] + 1) + 1 = n
        BY <1>2, <1>4, <2>5
      <4>2. \A i \in fpos[h] + 1 .. fpos[h] + n : file[i] \in Byte
        <5> TAKE i \in fpos[h] + 1 .. fpos[h] + n
        <5>1. fpos[h] \in Nat /\ n \in Nat /\ fpos[h] + n <= Len(file) /\ Len(file) \in Nat
          BY <1>2, <1>4
        <5>2. i \in 1 .. Len(file)
          BY <5>1
        <5> QED BY <1>2, <5>2
      <4> QED BY <2>1, <4>1, <4>2, SubSeqProperties
    <3>2. ASSUME NEW i \in 1 .. Len(buffer'[h])
          PROVE  buffer'[h][i] = file'[fpos'[h] - Len(buffer'[h]) + i]
      <4>1. (fpos[h] + 1) + i - 1 = fpos'[h] - Len(buffer'[h]) + i
        <5>1. fpos[h] \in Nat /\ n \in Nat /\ i \in 1 .. n
          BY <1>2, <1>4, <3>1
        <5>2. fpos'[h] = fpos[h] + n /\ Len(buffer'[h]) = n
          BY <2>1, <3>1
        <5>3. (fpos[h] + 1) + i - 1 = (fpos[h] + n) - n + i
          BY <5>1
        <5> QED BY <5>2, <5>3
      <4> QED BY <1>1, <3>1, <4>1
    <3>3. /\ left'[h] <= Len(buffer'[h]) /\ Len(buffer'[h]) <= fpos'[h] /\ fpos'[h] <= Len(file')
          /\ fpos'[h] = Len(sent'[h]) + left'[h]
      BY <1>1, <1>2, <1>4, <2>1, <3>1
    <3>4. ReplyPosition(h)'
      BY <2>1, <2>5, <3>2, <3>3 DEF ReplyPosition
    <3>5. PacketArrives(h)'
      BY <1>1, <2>1, <2>5 DEF ReplyOf, PacketArrives
    <3> QED BY <1>1, <1>3, <1>5, <2>2, <2>3, <3>4, <3>5, OwnReply DEF FileInv, ReplyOf
  <2> QED BY <2>4, <2>5
<1>6. ASSUME Fail(h), UNCHANGED <<buffer, fpos, left>> PROVE FileInv'
  <2>1. /\ pc'[h] = "close" /\ abort'[h]
        /\ \A g \in Handlers : g # h => pc'[g] = pc[g] /\ abort'[g] = abort[g]
    BY <1>1, <1>6 DEF Fail, Goto, TypeInv, Writers
  <2>2. ReplyOf(h)'
    BY <1>1, <1>3, <2>1, FailedReply
  <2> QED BY <1>1, <1>3, <1>6, <2>1, <2>2, OwnReply DEF FileInv
<1> QED BY <1>5, <1>6 DEF Read

(* send takes the bytes of the buffer that follow what has been sent.      *)
LEMMA SendReply == ASSUME FileInv, NEW h \in Handlers, Send(h) PROVE FileInv'
<1>1. /\ WriteInv /\ TypeInv /\ h \in Writers /\ ReplyOf(h) /\ pc[h] = "send"
      /\ UNCHANGED <<file, mutex, packet, written, fpos, buffer>>
  BY DEF FileInv, WriteInv, Send, Writers
<1>2. /\ left[h] <= Len(buffer[h]) /\ Len(buffer[h]) <= fpos[h] /\ fpos[h] <= Len(file)
      /\ fpos[h] = Len(sent[h]) + left[h]
      /\ \A i \in 1 .. Len(buffer[h]) : buffer[h][i] = file[fpos[h] - Len(buffer[h]) + i]
  BY <1>1 DEF ReplyOf, ReplyPosition
<1>3. WriteInv' /\ TypeInv' /\ Grows
  <2>1. WriteInv'
    BY <1>1, <1>2, SendKeeps
  <2> QED BY <1>1, <2>1, SameFileGrows DEF WriteInv
<1>4. ASSUME NEW n \in 1 .. left[h],
             sent' = [sent EXCEPT ![h] = @ \o Piece(buffer[h], left[h], n)],
             left' = [left EXCEPT ![h] = @ - n],
             Goto(h, IF n = left[h] THEN "read" ELSE "send"),
             UNCHANGED abort
      PROVE  FileInv'
  <2>1. /\ sent'[h] = sent[h] \o Piece(buffer[h], left[h], n) /\ left'[h] = left[h] - n
        /\ pc'[h] = IF n = left[h] THEN "read" ELSE "send"
        /\ \A g \in Handlers : g # h =>
             pc'[g] = pc[g] /\ left'[g] = left[g] /\ sent'[g] = sent[g]
    BY <1>1, <1>4 DEF TypeInv, Goto, Writers
  <2>2. /\ left[h] \in Nat /\ n \in Nat /\ Len(sent[h]) \in Nat /\ Len(buffer[h]) \in Nat
        /\ Len(file) \in Nat /\ fpos[h] \in Nat
        /\ sent[h] \in Seq(Byte) /\ buffer[h] \in Seq(Byte) /\ n <= left[h] /\ n >= 1
    BY <1>1, LenProperties DEF TypeInv
  <2>3. Appended(sent'[h], sent[h], buffer[h], left[h], n)
    <3>1. Appended(sent[h] \o Piece(buffer[h], left[h], n), sent[h], buffer[h], left[h], n)
      BY <1>2, <2>2, AppendedPiece, Zenon
    <3> QED BY <2>1, <3>1
  <2>4. Len(sent'[h]) = Len(sent[h]) + n /\ Len(sent'[h]) <= Len(file)
    BY <1>2, <2>2, <2>3 DEF Appended
  <2>5. ASSUME NEW i \in 1 .. Len(sent'[h]) PROVE sent'[h][i] = file[i]
    <3>1. CASE i <= Len(sent[h])
      <4>1. i \in 1 .. Len(sent[h])
        BY <2>2, <3>1
      <4>2. sent'[h][i] = sent[h][i]
        BY <2>3, <4>1 DEF Appended
      <4> QED BY <1>1, <4>1, <4>2 DEF ReplyOf, SentPrefix
    <3>2. CASE ~(i <= Len(sent[h]))
      <4>1. PICK k \in 1 .. n : i = Len(sent[h]) + k
        <5>1. i - Len(sent[h]) \in 1 .. n /\ i = Len(sent[h]) + (i - Len(sent[h]))
          BY <2>2, <2>4, <3>2
        <5> QED BY <5>1
      <4>2. sent'[h][i] = buffer[h][(Len(buffer[h]) - left[h]) + k]
        BY <2>3, <4>1 DEF Appended
      <4>3. /\ (Len(buffer[h]) - left[h]) + k \in 1 .. Len(buffer[h])
            /\ fpos[h] - Len(buffer[h]) + ((Len(buffer[h]) - left[h]) + k) = i
        <5>1. PICK B \in Nat, l \in Nat, s \in Nat : B = Len(buffer[h]) /\ l = left[h] /\ s = Len(sent[h])
          BY <2>2
        <5>2. k \in 1 .. n /\ n \in Nat /\ n <= l /\ l <= B /\ fpos[h] = s + l /\ i = s + k
          BY <1>2, <2>2, <4>1, <5>1
        <5>3. (B - l) + k \in 1 .. B /\ (s + l) - B + ((B - l) + k) = s + k
          BY <5>2
        <5> QED BY <5>1, <5>2, <5>3
      <4> QED BY <1>2, <4>2, <4>3
    <3> QED BY <3>1, <3>2
  <2>6. SentPrefix(h)'
    BY <1>1, <2>4, <2>5 DEF SentPrefix
  <2>7. ReplyPosition(h)'
    <3>1. left'[h] <= Len(buffer[h]) /\ fpos[h] = Len(sent'[h]) + left'[h]
            /\ (n = left[h] => fpos[h] = Len(sent'[h]))
      <4>1. PICK B \in Nat, l \in Nat, s \in Nat : B = Len(buffer[h]) /\ l = left[h] /\ s = Len(sent[h])
        BY <2>2
      <4>2. n \in Nat /\ l <= B /\ fpos[h] = s + l /\ left'[h] = l - n /\ Len(sent'[h]) = s + n
        BY <1>2, <2>1, <2>2, <2>4, <4>1
      <4>3. l - n <= B /\ s + l = (s + n) + (l - n) /\ (n = l => s + l = s + n)
        BY <4>2
      <4> QED BY <4>1, <4>2, <4>3
    <3> QED BY <1>1, <1>2, <2>1, <3>1 DEF ReplyPosition
  <2>8. PacketArrives(h)'
    BY <1>1, <2>1 DEF ReplyOf, PacketArrives
  <2> QED BY <1>1, <1>3, <1>4, <2>1, <2>6, <2>7, <2>8, OwnReply DEF FileInv, ReplyOf
<1>5. ASSUME Fail(h), UNCHANGED <<sent, left>> PROVE FileInv'
  <2>1. /\ pc'[h] = "close" /\ abort'[h]
        /\ \A g \in Handlers : g # h => pc'[g] = pc[g] /\ abort'[g] = abort[g]
    BY <1>1, <1>5 DEF Fail, Goto, TypeInv, Writers
  <2>2. ReplyOf(h)'
    BY <1>1, <1>3, <1>5, <2>1, FailedReply
  <2> QED BY <1>1, <1>3, <1>5, <2>1, <2>2, OwnReply DEF FileInv
<1> QED BY <1>4, <1>5 DEF Send

(* Closing sends nothing.                                                  *)
LEMMA CloseReply == ASSUME FileInv, NEW w \in Writers, Close(w) PROVE FileInv'
<1>1. WriteInv' /\ TypeInv /\ TypeInv'
  BY CloseKeeps DEF FileInv, WriteInv
<1>2. /\ pc[w] = "close" /\ abort' \in {abort, [abort EXCEPT ![w] = TRUE]} /\ Grows
      /\ UNCHANGED <<file, packet, left, fpos, buffer, sent>>
  BY <1>1, SameFileGrows DEF Close, reply
<1>3. /\ pc'[w] = "closed" /\ (abort'[w] = abort[w] \/ abort'[w])
      /\ \A g \in Handlers : g # w => pc'[g] = pc[g] /\ abort'[g] = abort[g]
  BY <1>1, <1>2 DEF Close, Goto, TypeInv, Writers
<1>4. ASSUME w \in Handlers PROVE ReplyOf(w)'
  <2>1. ReplyOf(w)
    BY <1>4 DEF FileInv
  <2>2. CASE abort'[w]
    BY <1>1, <1>2, <1>3, <1>4, <2>1, <2>2, FailedReply
  <2>3. CASE ~abort'[w]
    <3>1. ~abort[w]
      BY <1>3, <2>3
    <3> QED BY <1>2, <1>3, <2>1, <2>3, <3>1 DEF ReplyOf, SentPrefix, ReplyPosition, PacketArrives
  <2> QED BY <2>2, <2>3
<1> QED BY <1>1, <1>2, <1>3, <1>4, OwnReply DEF FileInv

(* Every step keeps packets apart and replies prefixes of the file.        *)
LEMMA FileInvNext == FileInv /\ [Next]_vars => FileInv'
<1> SUFFICES ASSUME FileInv, [Next]_vars PROVE FileInv'
  OBVIOUS
<1>1. ASSUME NEW h \in Handlers, HandlerStep(h) PROVE FileInv'
  BY <1>1, OpenReply, RecvReply, ReadReply, SendReply DEF HandlerStep
<1>2. CASE Stamp
  BY <1>2, StampReply
<1>3. ASSUME NEW w \in Writers, Lock(w) \/ WriterStep(w) PROVE FileInv'
  BY <1>3, LockReply, WriteReply, UnlockReply, CloseReply DEF WriterStep
<1>4. CASE UNCHANGED vars
  <2>1. TypeInv' /\ HolderWrites'
    BY <1>4 DEF FileInv, WriteInv, vars, TypeInv, HolderWrites
  <2>2. PacketShape' /\ FileBytes'
    BY <1>4 DEF FileInv, WriteInv, vars, PacketShape, FileBytes
  <2>3. LastByte' /\ PacketsUnmixed'
    BY <1>4 DEF FileInv, WriteInv, vars, Out, Ended, EndsPacket, LastByte, PacketsUnmixed
  <2>4. ASSUME NEW h \in Handlers PROVE ReplyOf(h)'
    <3>1. ReplyOf(h)
      BY DEF FileInv
    <3>2. SentPrefix(h)'
      BY <1>4, <3>1 DEF vars, ReplyOf, SentPrefix
    <3>3. ReplyPosition(h)'
      BY <1>4, <3>1 DEF vars, ReplyOf, ReplyPosition
    <3>4. PacketArrives(h)'
      BY <1>4, <3>1 DEF vars, ReplyOf, PacketArrives, Out
    <3> QED BY <3>2, <3>3, <3>4 DEF ReplyOf
  <2> QED BY <2>1, <2>2, <2>3, <2>4 DEF FileInv, WriteInv
<1> QED BY <1>1, <1>2, <1>3, <1>4 DEF Next

(* The invariant of the file holds in every state.                         *)
LEMMA FileInvAlways == Spec => []FileInv
<1>1. Init => FileInv
  BY WriteInvInit, ReplyInvInit DEF FileInv
<1> QED BY <1>1, FileInvNext, PTL DEF Spec

(***************************************************************************)
(* Packets and timestamps are never mixed, for any number of handlers and  *)
(* however write splits the packets: putchars runs under write_mutex.      *)
(***************************************************************************)
THEOREM PacketsNeverMixed == Spec => []PacketsUnmixed
<1>1. FileInv => PacketsUnmixed
  BY DEF FileInv, WriteInv
<1> QED BY <1>1, FileInvAlways, PTL

(***************************************************************************)
(* A client is sent a prefix of the file, and all of its own packet with   *)
(* it if its handler ends without an error, although read and send take    *)
(* no mutex and other threads append in between.                           *)
(***************************************************************************)
THEOREM ClientGetsItsPacket == Spec => []ReplyHoldsPacket
<1>1. ASSUME FileInv PROVE ReplyHoldsPacket
  <2> SUFFICES ASSUME NEW h \in Handlers
               PROVE  /\ IsPrefix(sent[h], file)
                      /\ pc[h] = "closed" /\ ~abort[h] => \A i \in 1 .. Len(packet[h]) :
                           packet[h][i] \in Range(sent[h])
    BY DEF ReplyHoldsPacket
  <2>1. /\ ReplyOf(h) /\ sent[h] \in Seq(Byte) /\ file \in Seq(Byte)
        /\ Len(sent[h]) \in Nat /\ Len(file) \in Nat
    BY <1>1, LenProperties DEF FileInv, WriteInv, TypeInv
  <2>2. IsPrefix(sent[h], file)
    <3>1. Len(sent[h]) <= Len(file) /\ \A i \in 1 .. Len(sent[h]) : sent[h][i] = file[i]
      BY <2>1 DEF ReplyOf, SentPrefix
    <3>2. SubSeq(sent[h], 1, Len(sent[h])) = SubSeq(file, 1, Len(sent[h]))
      BY <2>1, <3>1
    <3> QED BY <3>1, <3>2 DEF IsPrefix
  <2>3. ASSUME pc[h] = "closed", ~abort[h], NEW i \in 1 .. Len(packet[h])
        PROVE  packet[h][i] \in Range(sent[h])
    <3>1. PICK j \in 1 .. Len(sent[h]) : sent[h][j] = packet[h][i]
      BY <2>1, <2>3 DEF ReplyOf, PacketArrives
    <3>2. j \in DOMAIN sent[h]
      BY <2>1
    <3> QED BY <3>1, <3>2 DEF Range
  <2> QED BY <2>2, <2>3
<1> QED BY <1>1, FileInvAlways, PTL
=============================================================================
