-------------------------- MODULE SockGetlineProofs --------------------------
(* Proofs about SockGetline, for every size of the buffer and all streams. *)
EXTENDS SockGetline, SequenceTheorems, Induction

(* The block is at least as long as the capacity says, and short enough    *)
(* for the next doubling to lengthen it; a piece never exceeds the         *)
(* capacity, so that one doubling makes room for it.                       *)
BlockInv ==
  /\ string \in Seq(Range(string))
  /\ capacity <= Len(string) /\ Len(string) <= 2 * capacity
  /\ length <= capacity
  /\ ReadBufSize <= capacity

IInv ==
  /\ pc \in {"recv", "done", "failed", "crashed"}
  /\ length \in Nat /\ capacity \in Nat
  /\ pc \in {"recv", "done"} => BlockInv

(* A function on 1 .. n is a sequence of its values, n long.               *)
LEMMA SequenceOfValues ==
  ASSUME NEW n \in Nat, NEW f, f = [i \in 1 .. n |-> f[i]]
  PROVE  f \in Seq(Range(f)) /\ Len(f) = n
<1>1. DOMAIN f = 1 .. n
  OBVIOUS
<1>2. \A i \in 1 .. n : f[i] \in Range(f)
  BY <1>1 DEF Range
<1>3. f \in [1 .. n -> Range(f)]
  BY <1>2
<1> QED
  BY <1>3

(* Block(n) has n bytes.                                                   *)
LEMMA BlockLength ==
  ASSUME NEW n \in Nat
  PROVE  Block(n) \in Seq({Junk}) /\ Len(Block(n)) = n
BY DEF Block

(* malloc gives the first block one byte more than the capacity.           *)
LEMMA InitIInv == Init => IInv
<1> SUFFICES ASSUME Init PROVE IInv
  OBVIOUS
<1>1. ReadBufSize \in Nat /\ ReadBufSize > 0
  BY SockGetlineAssumption
<1>2. string = [i \in 1 .. ReadBufSize + 1 |-> string[i]]
  BY DEF Init, Block
<1>3. string \in Seq(Range(string)) /\ Len(string) = ReadBufSize + 1
  BY <1>1, <1>2, SequenceOfValues
<1> QED
  BY <1>1, <1>3 DEF Init, IInv, BlockInv

(* One iteration of the loop.                                              *)
LEMMA ReceiveIInv ==
  ASSUME IInv, NEW n \in 0 .. ReadBufSize, Receive(n)
  PROVE  IInv'
<1> DEFINE grown == Grows(length + n)
           block == IF grown THEN string \o Block(2 * capacity - Len(string)) ELSE string
           text  == CString(Fill(n))
<1>1. /\ pc = "recv" /\ BlockInv
      /\ length \in Nat /\ capacity \in Nat /\ n \in Nat
      /\ ReadBufSize \in Nat /\ n <= ReadBufSize
  BY SockGetlineAssumption DEF IInv, Receive
<1>2. /\ string' = Strcpy(block, length, Appended(text))
      /\ capacity' = IF grown THEN 2 * capacity ELSE capacity
      /\ length' = length + n
      /\ pc' \in {"recv", "done"}
  BY DEF Receive
<1>3. Len(string) \in Nat /\ string \in Seq(Range(string))
  BY <1>1 DEF BlockInv
<1>4. Len(block) \in Nat /\ capacity' <= Len(block) /\ Len(block) <= 2 * capacity'
  <2>1. CASE grown
    <3>1. 2 * capacity - Len(string) \in Nat
      BY <1>1, <1>3 DEF BlockInv
    <3> DEFINE S == Range(string) \cup {Junk}
    <3>2. string \in Seq(S)
      BY <1>3
    <3>3. Block(2 * capacity - Len(string)) \in Seq(S)
      BY <3>1, BlockLength
    <3>4. Len(block) = 2 * capacity
      <4> HIDE DEF S
      <4>1. Len(string \o Block(2 * capacity - Len(string)))
              = Len(string) + Len(Block(2 * capacity - Len(string)))
        BY <3>2, <3>3
      <4>2. Len(Block(2 * capacity - Len(string))) = 2 * capacity - Len(string)
        BY <3>1, BlockLength
      <4> QED
        BY <1>1, <1>3, <2>1, <4>1, <4>2
    <3> QED
      BY <1>1, <1>2, <2>1, <3>4
  <2>2. CASE ~grown
    BY <1>1, <1>2, <1>3, <2>2 DEF BlockInv
  <2> QED
    BY <2>1, <2>2
<1>5. length' <= capacity' /\ ReadBufSize <= capacity' /\ capacity' \in Nat
  BY <1>1, <1>2 DEF BlockInv, Grows
<1> HIDE DEF block, text, grown
<1>6. string' = [i \in 1 .. Len(block) |-> string'[i]]
  BY <1>2 DEF Strcpy
<1>7. string' \in Seq(Range(string')) /\ Len(string') = Len(block)
  BY <1>4, <1>6, SequenceOfValues
<1>8. BlockInv'
  BY <1>4, <1>5, <1>7 DEF BlockInv
<1> QED
  BY <1>1, <1>2, <1>5, <1>8 DEF IInv

(* Every iteration keeps the block as long as the capacity says.           *)
LEMMA NextIInv == IInv /\ [Next]_vars => IInv'
<1> SUFFICES ASSUME IInv, [Next]_vars PROVE IInv'
  OBVIOUS
<1>0. ReadBufSize \in Nat
  BY SockGetlineAssumption
<1>1. CASE ReceivePiece
  <2>1. PICK n \in 1 .. ReadBufSize : Receive(n)
    BY <1>1 DEF ReceivePiece
  <2>2. n \in 0 .. ReadBufSize
    BY <1>0
  <2> QED
    BY <2>1, <2>2, ReceiveIInv
<1>2. CASE ReceiveEnd
  <2>1. Receive(0) /\ 0 \in 0 .. ReadBufSize
    BY <1>0, <1>2 DEF ReceiveEnd
  <2> QED
    BY <2>1, ReceiveIInv
<1>3. CASE ReceiveFails
  BY <1>3 DEF IInv, ReceiveFails
<1>4. CASE HeapAborts
  BY <1>4 DEF IInv, HeapAborts
<1>5. CASE Close
  BY <1>5 DEF IInv, Close, BlockInv
<1>6. CASE UNCHANGED vars
  BY <1>6 DEF IInv, vars, BlockInv
<1> QED
  BY <1>1, <1>2, <1>3, <1>4, <1>5, <1>6 DEF Next

(* The bytes conn_handler writes to the file lie inside the block, for     *)
(* every SOCK_READBUFSIZE, every stream and every way it is cut.           *)
THEOREM LengthAlwaysFits == Spec => []LengthFitsBlock
<1>1. IInv => LengthFitsBlock
  BY DEF IInv, BlockInv, LengthFitsBlock
<1> QED
  BY <1>1, InitIInv, NextIInv, PTL DEF Spec

-----------------------------------------------------------------------------
(* strchr: where the first newline is.                                     *)
LEMMA NewlineFacts ==
  ASSUME NEW S, NEW text \in Seq(S)
  PROVE  /\ NewlinePos(text) \in 0 .. Len(text)
         /\ NewlinePos(text) = 0 => \A i \in 1 .. Len(text) : text[i] # Newline
         /\ NewlinePos(text) > 0 => /\ text[NewlinePos(text)] = Newline
                                   /\ \A i \in 1 .. NewlinePos(text) - 1 : text[i] # Newline
<1> DEFINE I == {i \in 1 .. Len(text) : text[i] = Newline}
<1>1. NewlinePos(text) = IF I # {} THEN Min(I) ELSE 0
  BY DEF NewlinePos, SelectInSeq
<1>2. Len(text) \in Nat
  BY LenProperties
<1>3. CASE I = {}
  BY <1>1, <1>2, <1>3
<1>4. CASE I # {}
  <2>1. Min(I) \in I /\ \A y \in I : Min(I) <= y
    <3>1. I \subseteq Nat
      BY <1>2
    <3> HIDE DEF I
    <3>2. \E x \in I : \A y \in I : x <= y
      BY <1>4, <3>1, Least
    <3> QED BY <3>2 DEF Min
  <2> DEFINE m == Min(I)
  <2>2. m \in 1 .. Len(text) /\ text[m] = Newline
    BY <2>1
  <2>3. ASSUME NEW i \in 1 .. m - 1 PROVE text[i] # Newline
    <3>1. i \in 1 .. Len(text) /\ ~(m <= i)
      BY <1>2, <2>2
    <3> QED BY <2>1, <3>1
  <2>4. NewlinePos(text) = m
    BY <1>1, <1>4
  <2> HIDE DEF m, I
  <2>5. m \in 0 .. Len(text) /\ m > 0
    BY <1>2, <2>2
  <2> QED BY <2>2, <2>3, <2>4, <2>5
<1> QED BY <1>3, <1>4

(* The first newline is known by what precedes it.                         *)
LEMMA NewlineIs ==
  ASSUME NEW S, NEW text \in Seq(S), NEW k \in 1 .. Len(text), text[k] = Newline,
         \A i \in 1 .. k - 1 : text[i] # Newline
  PROVE  NewlinePos(text) = k
<1> DEFINE m == NewlinePos(text)
<1>1. /\ m \in 0 .. Len(text) /\ Len(text) \in Nat
      /\ m = 0 => \A i \in 1 .. Len(text) : text[i] # Newline
      /\ m > 0 => text[m] = Newline /\ \A i \in 1 .. m - 1 : text[i] # Newline
  BY NewlineFacts, LenProperties
<1> HIDE DEF m
<1>2. m # 0 /\ ~(k < m)
  BY <1>1
<1>3. ~(m < k)
  BY <1>1, <1>2
<1>4. m = k
  BY <1>1, <1>2, <1>3
<1> QED BY <1>4 DEF m

(* The string of a buffer is what it holds up to a NUL.                    *)
LEMMA CStringFacts ==
  ASSUME NEW buf \in [1 .. ReadBufSize -> Bytes]
  PROVE  /\ CString(buf) \in Seq(Bytes) /\ Len(CString(buf)) <= ReadBufSize
         /\ \A i \in 1 .. Len(CString(buf)) : CString(buf)[i] = buf[i]
         /\ Len(CString(buf)) < ReadBufSize => buf[Len(CString(buf)) + 1] = Nul
<1> DEFINE nuls == {i \in 1 .. ReadBufSize : buf[i] = Nul}
           end  == CHOOSE i \in nuls : \A j \in nuls : i <= j
<1>1. ReadBufSize \in Nat /\ buf \in Seq(Bytes) /\ Len(buf) = ReadBufSize
  BY SockGetlineAssumption
<1>2. CString(buf) = IF nuls = {} THEN buf ELSE SubSeq(buf, 1, end - 1)
  BY DEF CString
<1>3. CASE nuls = {}
  <2>1. CString(buf) = buf
    BY <1>2, <1>3
  <2> QED BY <1>1, <2>1
<1>4. CASE nuls # {}
  <2>1. end \in nuls
    <3>1. nuls \subseteq Nat
      BY <1>1
    <3> HIDE DEF nuls
    <3>2. \E x \in nuls : \A y \in nuls : x <= y
      BY <1>4, <3>1, Least
    <3> QED BY <3>2
  <2>2. CString(buf) = SubSeq(buf, 1, end - 1)
    BY <1>2, <1>4
  <2>3. end \in 1 .. ReadBufSize /\ buf[end] = Nul
    BY <2>1
  <2> HIDE DEF end, nuls
  <2>4. end \in Nat /\ end - 1 <= ReadBufSize /\ (end - 1) + 1 = end
    BY <1>1, <2>3
  <2>5. /\ SubSeq(buf, 1, end - 1) \in Seq(Bytes)
        /\ Len(SubSeq(buf, 1, end - 1)) = end - 1
        /\ \A i \in 1 .. end - 1 : SubSeq(buf, 1, end - 1)[i] = buf[i]
    BY <1>1, <2>3, <2>4
  <2> QED BY <2>2, <2>3, <2>4, <2>5
<1> QED BY <1>3, <1>4

(***************************************************************************)
(* While the loop goes on, every newline received is behind a NUL, and the *)
(* block holds the other bytes as long as every piece filled the buffer.   *)
(***************************************************************************)
LineInv ==
  /\ stream \in Seq(Bytes) /\ buffer \in [1 .. ReadBufSize -> Bytes]
  /\ filled \in BOOLEAN
  /\ length \in Nat /\ length <= Len(stream)
  /\ StopsAtNewline
  /\ pc = "recv" /\ filled => \A i \in 1 .. length : string[i] = stream[i] \/ BehindNul(i)
  /\ FilledPiecesGiveTheLine

(* Nothing has been received yet.                                          *)
LEMMA LineInvInit == Init => LineInv
<1> SUFFICES ASSUME Init PROVE LineInv
  OBVIOUS
<1>1. stream \in Seq(Bytes) /\ Len(stream) \in Nat
  BY SockGetlineAssumption, LenProperties DEF Init
<1>2. buffer \in [1 .. ReadBufSize -> Bytes]
  BY SockGetlineAssumption DEF Init
<1> QED BY <1>1, <1>2 DEF Init, LineInv, StopsAtNewline, FilledPiecesGiveTheLine

(* The bytes received, as a sequence.                                      *)
LEMMA ReceivedFacts ==
  ASSUME NEW S, NEW s \in Seq(S), NEW l \in Nat, l <= Len(s)
  PROVE  /\ SubSeq(s, 1, l) \in Seq(S) /\ Len(SubSeq(s, 1, l)) = l
         /\ \A i \in 1 .. l : SubSeq(s, 1, l)[i] = s[i]
<1>1. Len(s) \in Nat
  BY LenProperties
<1> QED BY <1>1

(* The block as strcpy finds it.                                           *)
NewBlock(n) ==
  IF Grows(length + n) THEN string \o Block(2 * capacity - Len(string)) ELSE string

(* The block after realloc: the old bytes, and room for the piece.         *)
LEMMA NewBlockFacts ==
  ASSUME IInv, pc = "recv", NEW n \in 0 .. ReadBufSize
  PROVE  /\ Len(NewBlock(n)) \in Nat /\ length + n <= Len(NewBlock(n))
         /\ \A i \in 1 .. length : NewBlock(n)[i] = string[i]
<1>1. /\ length \in Nat /\ capacity \in Nat /\ n \in Nat /\ n <= ReadBufSize /\ ReadBufSize \in Nat
      /\ string \in Seq(Range(string)) /\ Len(string) \in Nat
      /\ capacity <= Len(string) /\ Len(string) <= 2 * capacity
      /\ length <= capacity /\ ReadBufSize <= capacity
  BY SockGetlineAssumption, LenProperties DEF IInv, BlockInv
<1>2. CASE Grows(length + n)
  <2> DEFINE t == Block(2 * capacity - Len(string))
             S == Range(string) \cup {Junk}
  <2>1. 2 * capacity - Len(string) \in Nat
    BY <1>1
  <2>2. t \in Seq({Junk}) /\ Len(t) = 2 * capacity - Len(string)
    BY <2>1, BlockLength
  <2>3. string \in Seq(S) /\ t \in Seq(S)
    <3> HIDE DEF t
    <3> QED BY <1>1, <2>2
  <2> HIDE DEF t, S
  <2>4. /\ Len(string \o t) = Len(string) + Len(t)
        /\ \A i \in 1 .. Len(string) : (string \o t)[i] = string[i]
    BY <1>1, <2>3
  <2>5. NewBlock(n) = string \o t
    BY <1>2 DEF NewBlock, t
  <2>6. Len(string \o t) = 2 * capacity
    BY <1>1, <2>2, <2>4
  <2> QED BY <1>1, <2>4, <2>5, <2>6
<1>3. CASE ~Grows(length + n)
  <2>1. NewBlock(n) = string
    BY <1>3 DEF NewBlock
  <2>2. length + n <= capacity
    BY <1>1, <1>3 DEF Grows
  <2> QED BY <1>1, <2>1, <2>2
<1> QED BY <1>2, <1>3

(* new is block with a text and a NUL from byte l on, as far as byte l + n. *)
Copied(new, block, l, text, n) ==
  /\ \A i \in 1 .. l : new[i] = block[i]
  /\ \A i \in 1 .. n : i <= Len(text) => new[l + i] = text[i]
  /\ \A i \in 1 .. n : i = Len(text) + 1 => new[l + i] = Nul

(* strcpy leaves what precedes its target and copies the text and a NUL.   *)
LEMMA StrcpyFacts ==
  ASSUME NEW block, Len(block) \in Nat, NEW l \in Nat, NEW S, NEW text \in Seq(S),
         NEW n \in Nat, l + n <= Len(block)
  PROVE  Copied(Strcpy(block, l, text), block, l, text, n)
<1> DEFINE bytes == Append(text, Nul)
<1>1. Len(text) \in Nat /\ text \in Seq(S \cup {Nul})
  BY LenProperties
<1>2. /\ Len(bytes) = Len(text) + 1 /\ \A i \in 1 .. Len(text) : bytes[i] = text[i]
      /\ bytes[Len(text) + 1] = Nul
  BY <1>1, AppendProperties
<1>3. Strcpy(block, l, text) = [i \in 1 .. Len(block) |->
         IF i - l \in 1 .. Len(bytes) THEN bytes[i - l] ELSE block[i]]
  BY DEF Strcpy
<1> HIDE DEF bytes
<1>4. ASSUME NEW i \in 1 .. l PROVE Strcpy(block, l, text)[i] = block[i]
  <2>1. i \in 1 .. Len(block) /\ i - l \notin 1 .. Len(bytes)
    BY <1>1, <1>2
  <2> QED BY <1>3, <2>1
<1>5. ASSUME NEW i \in 1 .. n, i <= Len(text) + 1
      PROVE  Strcpy(block, l, text)[l + i] = bytes[i]
  <2>1. l + i \in 1 .. Len(block) /\ (l + i) - l = i /\ i \in 1 .. Len(bytes)
    BY <1>1, <1>2, <1>5
  <2> QED BY <1>3, <2>1
<1>6. ASSUME NEW i \in 1 .. n, i <= Len(text) PROVE Strcpy(block, l, text)[l + i] = text[i]
  <2>1. i <= Len(text) + 1 /\ i \in 1 .. Len(text)
    BY <1>1, <1>6
  <2> QED BY <1>2, <1>5, <2>1
<1>7. ASSUME NEW i \in 1 .. n, i = Len(text) + 1 PROVE Strcpy(block, l, text)[l + i] = Nul
  <2>1. i <= Len(text) + 1
    BY <1>1, <1>7
  <2> QED BY <1>2, <1>5, <1>7, <2>1
<1> QED BY <1>4, <1>6, <1>7 DEF Copied

(***************************************************************************)
(* A byte of a piece is in the string the buffer holds, or it is the NUL   *)
(* that ends the string, or it comes behind that NUL in the same piece.    *)
(***************************************************************************)
LEMMA PieceBytes ==
  ASSUME LineInv, NEW n \in 0 .. ReadBufSize, length + n <= Len(stream)
  PROVE  LET text == CString(Fill(n))
         IN  /\ Fill(n) \in [1 .. ReadBufSize -> Bytes]
             /\ text \in Seq(Bytes) /\ Len(text) \in Nat
             /\ \A i \in 1 .. n :
                  /\ i <= Len(text) => text[i] = stream[length + i]
                  /\ i = Len(text) + 1 => stream[length + i] = Nul
                  /\ i > Len(text) + 1 => BehindNul(length + i)
<1> DEFINE text == CString(Fill(n))
<1>1. /\ length \in Nat /\ n \in Nat /\ ReadBufSize \in Nat /\ n <= ReadBufSize
      /\ stream \in Seq(Bytes) /\ Len(stream) \in Nat
  BY SockGetlineAssumption, LenProperties DEF LineInv
<1>2. \A i \in 1 .. n : length + i \in 1 .. Len(stream)
  BY <1>1
<1>3. /\ Fill(n) \in [1 .. ReadBufSize -> Bytes]
      /\ \A i \in 1 .. n : Fill(n)[i] = stream[length + i]
  <2>1. \A i \in 1 .. n : stream[length + i] \in Bytes /\ i \in 1 .. ReadBufSize
    BY <1>1, <1>2
  <2>2. \A i \in 1 .. ReadBufSize : buffer[i] \in Bytes /\ (i <= n => i \in 1 .. n)
    BY <1>1 DEF LineInv
  <2>3. \A i \in 1 .. n : Fill(n)[i] = stream[length + i]
    BY <1>1, <2>1 DEF Fill
  <2>4. Fill(n) \in [1 .. ReadBufSize -> Bytes]
    BY <2>1, <2>2 DEF Fill
  <2> QED BY <2>3, <2>4
<1>4. /\ text \in Seq(Bytes) /\ Len(text) \in Nat
      /\ \A i \in 1 .. Len(text) : text[i] = Fill(n)[i]
      /\ Len(text) < ReadBufSize => Fill(n)[Len(text) + 1] = Nul
  BY <1>3, CStringFacts, LenProperties
<1> HIDE DEF text
<1>5. ASSUME NEW i \in 1 .. n
      PROVE  /\ i <= Len(text) => text[i] = stream[length + i]
             /\ i = Len(text) + 1 => stream[length + i] = Nul
             /\ i > Len(text) + 1 => BehindNul(length + i)
  <2>1. CASE i <= Len(text)
    <3>1. i \in 1 .. Len(text) /\ ~(i = Len(text) + 1) /\ ~(i > Len(text) + 1)
      BY <1>1, <1>4, <2>1
    <3> QED BY <1>3, <1>4, <3>1
  <2>2. CASE ~(i <= Len(text))
    <3>1. Len(text) + 1 \in 1 .. n /\ Len(text) < ReadBufSize
      BY <1>1, <1>4, <2>2
    <3>2. stream[length + (Len(text) + 1)] = Nul
      BY <1>3, <1>4, <3>1
    <3>3. CASE i = Len(text) + 1
      BY <1>1, <1>4, <3>2, <3>3
    <3>4. CASE i # Len(text) + 1
      <4>1. PICK j \in Nat : j = length + (Len(text) + 1)
        BY <1>1, <1>4
      <4>2. j \in 1 .. (length + i) - 1 /\ (length + i) - j < ReadBufSize
        BY <1>1, <1>4, <2>2, <3>4, <4>1
      <4>3. BehindNul(length + i)
        BY <3>2, <4>1, <4>2 DEF BehindNul
      <4> QED BY <2>2, <3>4, <4>3
    <3> QED BY <3>3, <3>4
  <2> QED BY <2>1, <2>2
<1> QED BY <1>3, <1>4, <1>5 DEF text

(***************************************************************************)
(* strcpy of a string that ends at a NUL, or holds the whole piece, copies *)
(* every byte of the piece that is not behind that NUL.                    *)
(***************************************************************************)
LEMMA PieceCopied ==
  ASSUME IInv, LineInv, NEW n \in 0 .. ReadBufSize, length + n <= Len(stream), pc = "recv",
         filled, NEW copied \in Seq(Bytes),
         \A i \in 1 .. n : \/ i <= Len(copied) /\ copied[i] = stream[length + i]
                           \/ i = Len(copied) + 1 /\ stream[length + i] = Nul
                           \/ BehindNul(length + i)
  PROVE  \A i \in 1 .. length + n :
           Strcpy(NewBlock(n), length, copied)[i] = stream[i] \/ BehindNul(i)
<1> DEFINE new == Strcpy(NewBlock(n), length, copied)
<1>1. /\ length \in Nat /\ n \in Nat
      /\ \A i \in 1 .. length : string[i] = stream[i] \/ BehindNul(i)
  BY SockGetlineAssumption DEF LineInv
<1>2. /\ Len(NewBlock(n)) \in Nat /\ length + n <= Len(NewBlock(n))
      /\ \A i \in 1 .. length : NewBlock(n)[i] = string[i]
  BY NewBlockFacts
<1>3. /\ \A i \in 1 .. length : new[i] = NewBlock(n)[i]
      /\ \A i \in 1 .. n : i <= Len(copied) => new[length + i] = copied[i]
      /\ \A i \in 1 .. n : i = Len(copied) + 1 => new[length + i] = Nul
  <2>1. Copied(new, NewBlock(n), length, copied, n)
    BY <1>1, <1>2, StrcpyFacts
  <2> HIDE DEF new
  <2> QED BY <2>1 DEF Copied
<1> HIDE DEF new
<1>4. ASSUME NEW i \in 1 .. length + n PROVE new[i] = stream[i] \/ BehindNul(i)
  <2>1. CASE i <= length
    <3>1. i \in 1 .. length
      BY <1>1, <2>1
    <3> QED BY <1>1, <1>2, <1>3, <3>1
  <2>2. CASE ~(i <= length)
    <3>1. PICK j \in 1 .. n : length + j = i
      <4>1. i - length \in 1 .. n /\ length + (i - length) = i
        BY <1>1, <2>2
      <4> QED BY <4>1
    <3>2. \/ j <= Len(copied) /\ copied[j] = stream[i]
          \/ j = Len(copied) + 1 /\ stream[i] = Nul
          \/ BehindNul(i)
      BY <3>1
    <3> QED BY <1>3, <3>1, <3>2
  <2> QED BY <2>1, <2>2
<1> QED BY <1>4 DEF new

(***************************************************************************)
(* One iteration of the loop: strchr sees a newline among the bytes        *)
(* received unless a NUL of the same piece precedes it.                    *)
(***************************************************************************)
LEMMA ReceiveLine ==
  ASSUME IInv, LineInv, NEW n \in 0 .. ReadBufSize, length + n <= Len(stream), Receive(n)
  PROVE  LineInv'
<1> DEFINE text == CString(Fill(n))
           k    == NewlinePos(text)
<1>1. /\ pc = "recv" /\ stream' = stream /\ length' = length + n
      /\ pc' = (IF k > 0 THEN "done" ELSE "recv")
      /\ filled' = (filled /\ (n = ReadBufSize \/ pc' = "done"))
      /\ string' = Strcpy(NewBlock(n), length, Appended(text))
      /\ buffer' = [i \in 1 .. ReadBufSize |-> IF k > 0 /\ i = k + 1 THEN Nul ELSE Fill(n)[i]]
  BY DEF Receive, NewBlock
<1>2. /\ length \in Nat /\ n \in Nat /\ ReadBufSize \in Nat /\ n <= ReadBufSize
      /\ stream \in Seq(Bytes) /\ Len(stream) \in Nat /\ filled \in BOOLEAN
      /\ \A i \in 1 .. length : stream[i] = Newline => BehindNul(i)
      /\ Newline # Nul
  BY <1>1, SockGetlineAssumption, LenProperties DEF LineInv, StopsAtNewline
<1>3. \A i : BehindNul(i)' <=> BehindNul(i)
  BY <1>1 DEF BehindNul
<1>4. /\ Fill(n) \in [1 .. ReadBufSize -> Bytes]
      /\ text \in Seq(Bytes) /\ Len(text) \in Nat
      /\ \A i \in 1 .. n : /\ i <= Len(text) => text[i] = stream[length + i]
                           /\ i = Len(text) + 1 => stream[length + i] = Nul
                           /\ i > Len(text) + 1 => BehindNul(length + i)
  BY PieceBytes
<1> HIDE DEF text
<1>5. /\ k \in 0 .. Len(text)
      /\ k = 0 => \A i \in 1 .. Len(text) : text[i] # Newline
      /\ k > 0 => text[k] = Newline /\ \A i \in 1 .. k - 1 : text[i] # Newline
  BY <1>4, NewlineFacts
<1>6. k = 0 => Appended(text) = text
  BY DEF Appended
<1>7. k > 0 => Appended(text) = SubSeq(text, 1, k)
  BY DEF Appended
<1> HIDE DEF k
<1>8. buffer' \in [1 .. ReadBufSize -> Bytes]
  BY <1>1, <1>4, SockGetlineAssumption
<1>9. pc' = "recv" => k = 0
  BY <1>1, <1>4, <1>5
<1>10. StopsAtNewline'
  <2> SUFFICES ASSUME pc' = "recv", NEW i \in 1 .. length + n, stream[i] = Newline
               PROVE  BehindNul(i)
    BY <1>1, <1>3 DEF StopsAtNewline
  <2>1. CASE i <= length
    <3>1. i \in 1 .. length
      BY <1>2, <2>1
    <3> QED BY <1>2, <3>1
  <2>2. CASE ~(i <= length)
    <3>1. PICK j \in 1 .. n : length + j = i
      <4>1. i - length \in 1 .. n /\ length + (i - length) = i
        BY <1>2, <2>2
      <4> QED BY <4>1
    <3>2. ~(j <= Len(text))
      <4>1. j <= Len(text) => j \in 1 .. Len(text)
        BY <1>2, <1>4
      <4> QED BY <1>4, <1>5, <1>9, <3>1, <4>1
    <3>3. j = Len(text) + 1 \/ j > Len(text) + 1
      BY <1>2, <1>4, <3>2
    <3> QED BY <1>2, <1>4, <3>1, <3>3
  <2> QED BY <2>1, <2>2
<1>11. ASSUME pc' = "recv", filled'
       PROVE  \A i \in 1 .. length' : string'[i] = stream'[i] \/ BehindNul(i)'
  <2>1. filled
    BY <1>1, <1>11, Zenon
  <2>2. \A i \in 1 .. n :
          \/ i <= Len(text) /\ text[i] = stream[length + i]
          \/ i = Len(text) + 1 /\ stream[length + i] = Nul
          \/ BehindNul(length + i)
    <3> TAKE i \in 1 .. n
    <3>1. i <= Len(text) \/ i = Len(text) + 1 \/ i > Len(text) + 1
      BY <1>2, <1>4
    <3> QED BY <1>4, <3>1
  <2>3. \A i \in 1 .. length + n :
          Strcpy(NewBlock(n), length, text)[i] = stream[i] \/ BehindNul(i)
    BY <1>1, <1>4, <2>1, <2>2, PieceCopied
  <2> QED BY <1>1, <1>3, <1>6, <1>9, <1>11, <2>3
<1>12. FilledPiecesGiveTheLine'
  <2> SUFFICES ASSUME pc' = "done", filled', NewlinePos(Received)' = length'
               PROVE  \A i \in 1 .. length + n : string'[i] = stream[i] \/ BehindNul(i)
    BY <1>1, <1>3 DEF FilledPiecesGiveTheLine
  <2> DEFINE r == SubSeq(stream, 1, length + n)
  <2>1. r \in Seq(Bytes) /\ Len(r) = length + n /\ \A i \in 1 .. length + n : r[i] = stream[i]
    BY <1>2, ReceivedFacts
  <2>2. NewlinePos(r) = length + n
    <3>1. NewlinePos(Received') = length'
      BY DEF NewlinePos, SelectInSeq
    <3>2. Received' = r
      BY <1>1 DEF Received
    <3> HIDE DEF r
    <3> QED BY <1>1, <3>1, <3>2
  <2> HIDE DEF r
  <2>3. filled /\ k > 0 /\ Appended(text) = SubSeq(text, 1, k)
    <3>1. k > 0
      BY <1>1
    <3>2. filled
      BY <1>1, Zenon
    <3> QED BY <1>7, <3>1, <3>2
  <2>4. /\ k \in 1 .. Len(text) /\ k \in Nat /\ k <= Len(text) /\ text[k] = Newline
        /\ \A i \in 1 .. k - 1 : text[i] # Newline
    BY <1>4, <1>5, <2>3
  <2> DEFINE copied == SubSeq(text, 1, k)
  <2>5. copied \in Seq(Bytes) /\ Len(copied) = k /\ \A i \in 1 .. k : copied[i] = text[i]
    BY <1>4, <2>4, ReceivedFacts
  <2> HIDE DEF copied
  <2>6. ASSUME NEW j \in 1 .. n
        PROVE  j <= Len(copied) /\ copied[j] = stream[length + j]
    <3>1. length + n # 0 /\ length + n \in Nat
      BY <1>2
    <3>2. \A i \in 1 .. (length + n) - 1 : r[i] # Newline
      BY <2>1, <2>2, <3>1, NewlineFacts
    <3>3. \A i \in 1 .. (length + n) - 1 : stream[i] # Newline
      BY <1>2, <2>1, <3>1, <3>2
    <3>4. ~(k < j)
      <4> SUFFICES ASSUME k < j PROVE FALSE
        OBVIOUS
      <4>1. k \in 1 .. n /\ length + k \in 1 .. (length + n) - 1
        BY <1>2, <2>4
      <4>2. stream[length + k] = Newline
        BY <1>4, <2>4, <4>1
      <4> QED BY <3>3, <4>1, <4>2
    <3>5. j \in 1 .. k /\ j <= Len(text)
      BY <1>2, <1>4, <2>4, <3>4
    <3> QED BY <1>4, <2>5, <3>5
  <2>7. \A i \in 1 .. length + n :
          Strcpy(NewBlock(n), length, copied)[i] = stream[i] \/ BehindNul(i)
    BY <1>1, <2>3, <2>5, <2>6, PieceCopied
  <2> QED BY <1>1, <2>3, <2>7 DEF copied
<1>13. length' \in Nat /\ length' <= Len(stream') /\ filled' \in BOOLEAN
  BY <1>1, <1>2
<1> QED BY <1>1, <1>2, <1>8, <1>10, <1>11, <1>12, <1>13 DEF LineInv

(* The loop, its failures and the client's end.                            *)
LEMMA LineInvNext == IInv /\ LineInv /\ [Next]_vars => LineInv'
<1> SUFFICES ASSUME IInv, LineInv, [Next]_vars PROVE LineInv'
  OBVIOUS
<1>0. ReadBufSize \in Nat /\ length \in Nat /\ length + 0 <= Len(stream)
  BY SockGetlineAssumption DEF LineInv
<1>1. CASE ReceivePiece
  <2>1. PICK n \in 1 .. ReadBufSize : length + n <= Len(stream) /\ Receive(n)
    BY <1>1 DEF ReceivePiece
  <2>2. n \in 0 .. ReadBufSize
    BY <1>0
  <2> QED BY <2>1, <2>2, ReceiveLine
<1>2. CASE ReceiveEnd
  <2>1. Receive(0) /\ 0 \in 0 .. ReadBufSize
    BY <1>0, <1>2 DEF ReceiveEnd
  <2> QED BY <1>0, <2>1, ReceiveLine
<1>3. CASE ReceiveFails
  BY <1>3 DEF LineInv, ReceiveFails, StopsAtNewline, FilledPiecesGiveTheLine
<1>4. CASE HeapAborts
  BY <1>4 DEF LineInv, HeapAborts, StopsAtNewline, FilledPiecesGiveTheLine
<1>5. CASE Close
  BY <1>5 DEF LineInv, Close, StopsAtNewline, FilledPiecesGiveTheLine, BehindNul, Received
<1>6. CASE UNCHANGED vars
  BY <1>6 DEF LineInv, vars, StopsAtNewline, FilledPiecesGiveTheLine, BehindNul, Received
<1> QED BY <1>1, <1>2, <1>3, <1>4, <1>5, <1>6 DEF Next

(* What the block holds is known in every state of the loop.               *)
LEMMA LineInvAlways == Spec => []LineInv
<1>1. IInv /\ LineInv /\ [Next]_vars => (IInv /\ LineInv)'
  BY NextIInv, LineInvNext
<1> QED BY <1>1, InitIInv, LineInvInit, PTL DEF Spec

(* sock_getline goes on past a newline only if a NUL hid it, for all       *)
(* streams, however the stream is cut and whatever the buffer held before. *)
THEOREM LoopStopsAtNewline == Spec => []StopsAtNewline
<1>1. LineInv => StopsAtNewline
  BY DEF LineInv
<1> QED BY <1>1, LineInvAlways, PTL

(* A line that comes in pieces which fill the buffer is returned byte for  *)
(* byte but for bytes behind a NUL, for every SOCK_READBUFSIZE and stream. *)
THEOREM FilledPiecesKeepTheLine == Spec => []FilledPiecesGiveTheLine
<1>1. LineInv => FilledPiecesGiveTheLine
  BY DEF LineInv
<1> QED BY <1>1, LineInvAlways, PTL
=============================================================================
