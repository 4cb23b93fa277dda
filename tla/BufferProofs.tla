---------------------------- MODULE BufferProofs ----------------------------
(***************************************************************************)
(* The vector with two indices implements the queue of bytes, for any      *)
(* sizes of the vector and of the two pieces that readv fills.             *)
(***************************************************************************)
EXTENDS Buffer, SequenceTheorems, TLAPS

\* The first n elements of a sequence of bytes.
LEMMA FirstOf ==
  ASSUME NEW s \in Seq(Nat), NEW n \in 0 .. Len(s)
  PROVE  /\ SubSeq(s, 1, n) \in Seq(Nat) /\ Len(SubSeq(s, 1, n)) = n
         /\ \A i \in 1 .. n : SubSeq(s, 1, n)[i] = s[i]
  OBVIOUS

\* Any piece of a sequence of bytes.
LEMMA PieceOf ==
  ASSUME NEW s \in Seq(Nat), NEW m \in 0 .. Len(s), NEW n \in m .. Len(s)
  PROVE  /\ SubSeq(s, m + 1, n) \in Seq(Nat) /\ Len(SubSeq(s, m + 1, n)) = n - m
         /\ \A i \in 1 .. n - m : SubSeq(s, m + 1, n)[i] = s[m + i]
  OBVIOUS

\* Joining two sequences of bytes.
LEMMA Joined ==
  ASSUME NEW s \in Seq(Nat), NEW t \in Seq(Nat)
  PROVE  /\ s \o t \in Seq(Nat) /\ Len(s \o t) = Len(s) + Len(t)
         /\ \A i \in 1 .. Len(s) : (s \o t)[i] = s[i]
         /\ \A i \in 1 .. Len(t) : (s \o t)[Len(s) + i] = t[i]
  OBVIOUS

\* The readable part of a vector of l cells, from r to w.
LEMMA Window ==
  ASSUME NEW r \in Nat, NEW w \in Nat, NEW l \in Nat, NEW k, r <= w, w <= l, k = w - r
  PROVE  r \in 0 .. l /\ r + k \in r .. l /\ (r + k) - r = k
  OBVIOUS

\* What readv puts into the vector.
LEMMA Filling ==
  ASSUME TypeOK, NEW n \in 0 .. writableBytes, n <= Len(inbox)
  PROVE  /\ Filled(inbox, n) \in Seq(Nat) /\ Len(Filled(inbox, n)) = Len(buffer)
         /\ \A i \in 1 .. writeIndex : Filled(inbox, n)[i] = buffer[i]
         /\ \A i \in 1 .. n : Filled(inbox, n)[writeIndex + i] = inbox[i]
<1>1. /\ buffer \in Seq(Nat) /\ inbox \in Seq(Nat) /\ Len(buffer) \in Nat /\ Len(inbox) \in Nat
      /\ writeIndex \in Nat /\ writeIndex <= Len(buffer) /\ n \in Nat
      /\ n <= Len(buffer) - writeIndex
  BY BufferAssumption DEF TypeOK, writableBytes
<1>2. \A i \in 1 .. Len(buffer) : i - writeIndex \in 1 .. n => inbox[i - writeIndex] \in Nat
  BY <1>1
<1>3. Filled(inbox, n) \in [1 .. Len(buffer) -> Nat]
  BY <1>1, <1>2 DEF Filled
<1> QED  BY <1>1, <1>3 DEF Filled

\* What readFd delivers is behind the readable bytes afterwards, in both cases.
LEMMA ReadAppends ==
  ASSUME IInv, ReadFits \/ ReadSpills
  PROVE  /\ Delivered \in 1 .. Len(inbox)
         /\ buffer' \in Seq(Nat) /\ writeIndex' = writeIndex + Delivered
         /\ writeIndex' <= Len(buffer')
         /\ Len(buffer') = IF writeIndex' > Len(buffer) THEN writeIndex' ELSE Len(buffer)
         /\ \A i \in 1 .. writeIndex : buffer'[i] = buffer[i]
         /\ \A i \in 1 .. Delivered : buffer'[writeIndex + i] = inbox[i]
<1>1. /\ buffer \in Seq(Nat) /\ inbox \in Seq(Nat) /\ Len(buffer) \in Nat /\ Len(inbox) \in Nat
      /\ writeIndex \in Nat /\ writeIndex <= Len(buffer) /\ writableBytes \in Nat
      /\ writableBytes = Len(buffer) - writeIndex
  BY BufferAssumption DEF IInv, TypeOK, writableBytes
<1>2. /\ Delivered \in 1 .. Len(inbox) /\ Delivered <= writableBytes + ExtraSize
      /\ TypeOK
  <2>1. Len(inbox) > 0  BY <1>1 DEF ReadFits, ReadSpills
  <2> QED  BY <1>1, <2>1, BufferAssumption DEF Delivered, IInv
<1> HIDE DEF Delivered, writableBytes
<1>3. CASE ReadFits
  <2>1. /\ Delivered \in 0 .. writableBytes /\ Delivered <= Len(inbox)
        /\ buffer' = Filled(inbox, Delivered) /\ writeIndex' = writeIndex + Delivered
    BY <1>1, <1>2, <1>3 DEF ReadFits
  <2>2. /\ Filled(inbox, Delivered) \in Seq(Nat)
        /\ Len(Filled(inbox, Delivered)) = Len(buffer)
        /\ \A i \in 1 .. writeIndex : Filled(inbox, Delivered)[i] = buffer[i]
        /\ \A i \in 1 .. Delivered : Filled(inbox, Delivered)[writeIndex + i] = inbox[i]
    BY <1>2, <2>1, Filling
  <2>3. writeIndex' <= Len(buffer) /\ Len(buffer') = Len(buffer)
    BY <1>1, <2>1, <2>2
  <2>4. ~(writeIndex' > Len(buffer))  BY <1>1, <2>1, <2>3
  <2> QED  BY <1>2, <2>1, <2>2, <2>3, <2>4
<1>4. CASE ReadSpills
  <2> DEFINE cells == Filled(inbox, writableBytes)
             data  == SubSeq(inbox, writableBytes + 1, Delivered)
  <2>1. /\ Delivered > writableBytes /\ buffer' = cells \o data
        /\ writeIndex' = Len(buffer) + Len(data)
    BY <1>4 DEF ReadSpills, AppendAt
  <2>2. /\ writableBytes \in 0 .. writableBytes /\ writableBytes <= Len(inbox)
        /\ writableBytes \in 0 .. Len(inbox) /\ Delivered \in writableBytes .. Len(inbox)
    BY <1>1, <1>2, <2>1
  <2>3. /\ cells \in Seq(Nat) /\ Len(cells) = Len(buffer)
        /\ \A i \in 1 .. writeIndex : cells[i] = buffer[i]
        /\ \A i \in 1 .. writableBytes : cells[writeIndex + i] = inbox[i]
    BY <1>2, <2>2, Filling
  <2>4. /\ data \in Seq(Nat) /\ Len(data) = Delivered - writableBytes
        /\ \A i \in 1 .. Delivered - writableBytes : data[i] = inbox[writableBytes + i]
    BY <1>1, <2>2, PieceOf
  <2> HIDE DEF cells, data
  <2>5. /\ cells \o data \in Seq(Nat) /\ Len(cells \o data) = Len(cells) + Len(data)
        /\ \A i \in 1 .. Len(cells) : (cells \o data)[i] = cells[i]
        /\ \A i \in 1 .. Len(data) : (cells \o data)[Len(cells) + i] = data[i]
    BY <2>3, <2>4, Joined
  <2>6. writeIndex' = writeIndex + Delivered /\ Len(buffer') = writeIndex'
    BY <1>1, <1>2, <2>1, <2>3, <2>4, <2>5
  <2>7. \A i \in 1 .. writeIndex : buffer'[i] = buffer[i]
    BY <1>1, <2>1, <2>3, <2>5
  <2>8. ASSUME NEW i \in 1 .. Delivered  PROVE buffer'[writeIndex + i] = inbox[i]
    <3>1. CASE i <= writableBytes
      BY <1>1, <1>2, <2>1, <2>3, <2>5, <3>1
    <3>2. CASE i > writableBytes
      <4>1. /\ i - writableBytes \in 1 .. Len(data)
            /\ writeIndex + i = Len(cells) + (i - writableBytes)
            /\ writableBytes + (i - writableBytes) = i
        BY <1>1, <1>2, <2>3, <2>4, <3>2
      <4> QED  BY <2>1, <2>4, <2>5, <4>1
    <3> QED  BY <1>1, <1>2, <3>1, <3>2
  <2>9. writeIndex' > Len(buffer) /\ writeIndex' <= Len(buffer')
    BY <1>1, <1>2, <2>1, <2>6
  <2> QED  BY <1>2, <2>1, <2>5, <2>6, <2>7, <2>8, <2>9
<1> QED  BY <1>3, <1>4

\* Any part of the readable bytes, as writeFd hands it to the socket.
LEMMA Peeking ==
  ASSUME IInv, NEW n \in 0 .. readableBytes
  PROVE  /\ Peek(n) \in Seq(Nat) /\ Len(Peek(n)) = n
         /\ \A i \in 1 .. n : Peek(n)[i] = buffer[readIndex + i]
<1>1. /\ buffer \in Seq(Nat) /\ readIndex \in 0 .. Len(buffer)
      /\ readIndex + n \in readIndex .. Len(buffer) /\ (readIndex + n) - readIndex = n
  BY BufferAssumption DEF IInv, TypeOK, readableBytes
<1> QED  BY <1>1, PieceOf DEF Peek

\* The initial vector.
LEMMA InitInv == ASSUME Init  PROVE IInv
  BY BufferAssumption DEF Init, IInv, TypeOK, KeepsEverything, readableBytes

\* Every step keeps the inductive invariant.
LEMMA StepInv == ASSUME IInv, [Next]_vars  PROVE IInv'
<1> USE BufferAssumption DEF IInv
<1>1. /\ buffer \in Seq(Nat) /\ Len(buffer) \in Nat /\ out \in Seq(Nat) /\ inbox \in Seq(Nat)
      /\ Len(out) \in Nat /\ readIndex \in Nat /\ writeIndex \in Nat /\ arrived \in Nat
      /\ readIndex <= writeIndex /\ writeIndex <= Len(buffer) /\ CheapPrepend <= readIndex
      /\ Len(buffer) = IF writeIndex > InitialSize THEN writeIndex ELSE InitialSize
  BY DEF TypeOK, KeepsEverything, readableBytes
<1>2. CASE UNCHANGED vars  BY <1>2 DEF vars, TypeOK, KeepsEverything, readableBytes
<1>3. CASE Arrive  BY <1>3 DEF Arrive, TypeOK, KeepsEverything, readableBytes
<1>4. CASE ReadFits \/ ReadSpills
  <2>1. /\ Delivered \in 1 .. Len(inbox)
        /\ buffer' \in Seq(Nat) /\ writeIndex' = writeIndex + Delivered
        /\ writeIndex' <= Len(buffer')
        /\ Len(buffer') = IF writeIndex' > Len(buffer) THEN writeIndex' ELSE Len(buffer)
    BY <1>4, ReadAppends
  <2>2. /\ UNCHANGED <<readIndex, out, arrived>>
        /\ inbox' = SubSeq(inbox, Delivered + 1, Len(inbox))
    BY <1>4 DEF ReadFits, ReadSpills
  <2> HIDE DEF Delivered
  <2>3. inbox' \in Seq(Nat)
    <3>1. Delivered \in 0 .. Len(inbox) /\ Len(inbox) \in Delivered .. Len(inbox)
      BY <1>1, <2>1
    <3> QED  BY <1>1, <2>2, <3>1, PieceOf
  <2>4. writeIndex' \in Nat /\ writeIndex' > writeIndex /\ Len(buffer') \in Nat
    BY <1>1, <2>1
  <2>5. TypeOK'  BY <1>1, <2>1, <2>2, <2>3, <2>4 DEF TypeOK
  <2> QED  BY <1>1, <2>1, <2>2, <2>4, <2>5 DEF KeepsEverything, readableBytes
<1>5. CASE WriteFd
  <2>1. PICK n \in 1 .. readableBytes :
          out' = out \o Peek(n) /\ readIndex' = readIndex + n
          /\ UNCHANGED <<buffer, writeIndex, inbox, arrived>>
    BY <1>5 DEF WriteFd, Retrieve
  <2>2. n \in 0 .. readableBytes  BY <2>1 DEF readableBytes, TypeOK
  <2>3. Peek(n) \in Seq(Nat) /\ Len(Peek(n)) = n  BY <2>2, Peeking
  <2> HIDE DEF Peek
  <2>4. out' \in Seq(Nat) /\ Len(out') = Len(out) + n
    BY <1>1, <2>1, <2>3, Joined
  <2>5. readIndex' <= writeIndex' /\ n \in Nat  BY <1>1, <2>1, <2>2 DEF readableBytes
  <2>6. TypeOK'  BY <1>1, <2>1, <2>4, <2>5 DEF TypeOK
  <2>7. /\ readIndex' = CheapPrepend + Len(out')
        /\ CheapPrepend + Len(out') + (writeIndex' - readIndex') = writeIndex
    BY <1>1, <2>1, <2>4, <2>5
  <2>8. KeepsEverything'  BY <1>1, <2>1, <2>7 DEF KeepsEverything, readableBytes
  <2> QED  BY <2>6, <2>7, <2>8
<1> QED  BY <1>2, <1>3, <1>4, <1>5 DEF Next

\* The inductive invariant holds in every reachable state.
THEOREM Invariance == Spec => []IInv
  BY InitInv, StepInv, PTL DEF Spec

\* The indices are ordered and inside the vector in every reachable state.
THEOREM TypeCorrect == Spec => []TypeOK
  BY Invariance, PTL DEF IInv

\* The vector never gives back the room of a byte that went through it.
THEOREM NothingReused == Spec => []KeepsEverything
  BY Invariance, PTL DEF IInv

-----------------------------------------------------------------------------
(* The refinement *)

\* The readable bytes of a state.
Readable == Peek(readableBytes)

\* A readFd moves the bytes delivered from the socket behind the queue.
LEMMA ReadIsRead ==
  ASSUME IInv, IInv', ReadFits \/ ReadSpills
  PROVE  Queue!Read
<1> DEFINE n == Delivered
<1>1. /\ n \in 1 .. Len(inbox)
      /\ writeIndex' = writeIndex + n /\ buffer' \in Seq(Nat)
      /\ \A i \in 1 .. writeIndex : buffer'[i] = buffer[i]
      /\ \A i \in 1 .. n : buffer'[writeIndex + i] = inbox[i]
  BY ReadAppends
<1>2. /\ UNCHANGED <<readIndex, out, arrived>>
      /\ inbox' = SubSeq(inbox, n + 1, Len(inbox))
  BY DEF ReadFits, ReadSpills
<1> HIDE DEF n
<1>3. /\ inbox \in Seq(Nat) /\ Len(inbox) \in Nat /\ n \in 0 .. Len(inbox)
      /\ readIndex \in Nat /\ writeIndex \in Nat /\ readIndex <= writeIndex
      /\ readableBytes = writeIndex - readIndex /\ readableBytes \in Nat
      /\ readableBytes' = readableBytes + n /\ readableBytes \in 0 .. readableBytes
  <2>1. /\ inbox \in Seq(Nat) /\ readIndex \in Nat /\ writeIndex \in Nat
        /\ readIndex <= writeIndex
    BY BufferAssumption DEF IInv, TypeOK
  <2>2. Len(inbox) \in Nat /\ n \in Nat  BY <1>1, <2>1
  <2> QED  BY <1>1, <1>2, <2>1, <2>2 DEF readableBytes
<1>4. /\ Readable \in Seq(Nat) /\ Len(Readable) = readableBytes
      /\ \A i \in 1 .. readableBytes : Readable[i] = buffer[readIndex + i]
  BY <1>3, Peeking DEF Readable
<1>5. /\ Readable' \in Seq(Nat) /\ Len(Readable') = readableBytes'
      /\ \A i \in 1 .. readableBytes' : Readable'[i] = buffer'[readIndex' + i]
  <2>1. /\ buffer' \in Seq(Nat) /\ readIndex' \in 0 .. Len(buffer')
        /\ readIndex' + readableBytes' \in readIndex' .. Len(buffer')
        /\ (readIndex' + readableBytes') - readIndex' = readableBytes'
    <3>1. /\ buffer' \in Seq(Nat) /\ Len(buffer') \in Nat /\ readIndex' \in Nat
          /\ writeIndex' \in Nat /\ readIndex' <= writeIndex' /\ writeIndex' <= Len(buffer')
      BY BufferAssumption DEF IInv, TypeOK
    <3>2. readableBytes' = writeIndex' - readIndex'  BY DEF readableBytes
    <3> QED  BY <3>1, <3>2, Window
  <2> QED  BY <2>1, PieceOf DEF Readable, Peek
<1> DEFINE first == SubSeq(inbox, 1, n)
<1>6. /\ first \in Seq(Nat) /\ Len(first) = n
      /\ \A i \in 1 .. n : first[i] = inbox[i]
  BY <1>3, FirstOf
<1> HIDE DEF first, readableBytes, Readable
<1>7. /\ Readable \o first \in Seq(Nat)
      /\ Len(Readable \o first) = Len(Readable) + Len(first)
      /\ \A i \in 1 .. Len(Readable) : (Readable \o first)[i] = Readable[i]
      /\ \A i \in 1 .. Len(first) : (Readable \o first)[Len(Readable) + i] = first[i]
  BY <1>4, <1>6, Joined
<1>8. ASSUME NEW i \in 1 .. Len(Readable')  PROVE Readable'[i] = (Readable \o first)[i]
  <2>1. Readable'[i] = buffer'[readIndex + i]  BY <1>2, <1>5
  <2>2. CASE i <= readableBytes
    <3>1. i \in 1 .. readableBytes /\ readIndex + i \in 1 .. writeIndex
      BY <1>3, <1>5, <2>2
    <3>2. buffer'[readIndex + i] = Readable[i]  BY <1>1, <1>4, <3>1
    <3>3. (Readable \o first)[i] = Readable[i]  BY <1>4, <1>7, <3>1
    <3> QED  BY <2>1, <3>2, <3>3
  <2>3. CASE i > readableBytes
    <3>1. /\ i - readableBytes \in 1 .. n /\ readIndex + i = writeIndex + (i - readableBytes)
          /\ i = readableBytes + (i - readableBytes)
      <4>1. i \in Nat /\ i <= readableBytes + n /\ n \in Nat  BY <1>3, <1>5
      <4>2. i - readableBytes \in 1 .. n  BY <1>3, <2>3, <4>1
      <4> QED  BY <1>3, <4>1, <4>2
    <3>2. buffer'[readIndex + i] = inbox[i - readableBytes]  BY <1>1, <3>1
    <3>3. (Readable \o first)[i] = first[i - readableBytes]
      BY <1>4, <1>6, <1>7, <3>1
    <3> QED  BY <1>6, <2>1, <3>1, <3>2, <3>3
  <2>4. i <= readableBytes \/ i > readableBytes  BY <1>3, <1>5
  <2> QED  BY <2>2, <2>3, <2>4
<1>9. Len(Readable') = Len(Readable \o first)
  BY <1>3, <1>4, <1>5, <1>6, <1>7
<1>10. Readable' = Readable \o first
  BY <1>5, <1>7, <1>8, <1>9, SeqEqual
<1> QED  BY <1>1, <1>2, <1>10 DEF Queue!Read, Queue!Move, Readable, first

\* A writeFd moves bytes from the front of the queue to the socket.
LEMMA WriteIsWrite ==
  ASSUME IInv, IInv', WriteFd
  PROVE  Queue!Write
<1>1. PICK n \in 1 .. readableBytes :
        out' = out \o Peek(n) /\ readIndex' = readIndex + n
        /\ UNCHANGED <<buffer, writeIndex, inbox, arrived>>
  BY DEF WriteFd, Retrieve
<1>2. /\ readIndex \in Nat /\ writeIndex \in Nat /\ readIndex <= writeIndex
      /\ readableBytes = writeIndex - readIndex /\ readableBytes \in Nat
      /\ n \in 0 .. readableBytes /\ readableBytes' = readableBytes - n
      /\ n \in Nat /\ readableBytes' \in Nat /\ readableBytes \in 0 .. readableBytes
  <2>1. readIndex \in Nat /\ writeIndex \in Nat /\ readIndex <= writeIndex
    BY BufferAssumption DEF IInv, TypeOK
  <2> QED  BY <1>1, <2>1 DEF readableBytes
<1>3. /\ Readable \in Seq(Nat) /\ Len(Readable) = readableBytes
      /\ \A i \in 1 .. readableBytes : Readable[i] = buffer[readIndex + i]
  BY <1>2, Peeking DEF Readable
<1>4. /\ Peek(n) \in Seq(Nat) /\ Len(Peek(n)) = n
      /\ \A i \in 1 .. n : Peek(n)[i] = buffer[readIndex + i]
  BY <1>2, Peeking
<1>5. /\ Readable' \in Seq(Nat) /\ Len(Readable') = readableBytes'
      /\ \A i \in 1 .. readableBytes' : Readable'[i] = buffer[readIndex + n + i]
  <2>1. /\ buffer' \in Seq(Nat) /\ readIndex' \in 0 .. Len(buffer')
        /\ readIndex' + readableBytes' \in readIndex' .. Len(buffer')
        /\ (readIndex' + readableBytes') - readIndex' = readableBytes'
    <3>1. /\ buffer' \in Seq(Nat) /\ Len(buffer') \in Nat /\ readIndex' \in Nat
          /\ writeIndex' \in Nat /\ readIndex' <= writeIndex' /\ writeIndex' <= Len(buffer')
      BY BufferAssumption DEF IInv, TypeOK
    <3>2. readableBytes' = writeIndex' - readIndex'  BY DEF readableBytes
    <3> QED  BY <3>1, <3>2, Window
  <2>2. /\ Readable' \in Seq(Nat) /\ Len(Readable') = readableBytes'
        /\ \A i \in 1 .. readableBytes' : Readable'[i] = buffer'[readIndex' + i]
    BY <2>1, PieceOf DEF Readable, Peek
  <2> QED  BY <1>1, <2>2
<1> HIDE DEF readableBytes, Readable, Peek
<1>6. /\ SubSeq(Readable, 1, n) \in Seq(Nat) /\ Len(SubSeq(Readable, 1, n)) = n
      /\ \A i \in 1 .. n : SubSeq(Readable, 1, n)[i] = Readable[i]
  BY <1>2, <1>3, FirstOf
<1>7. SubSeq(Readable, 1, n) = Peek(n)
  <2>1. \A i \in 1 .. Len(Peek(n)) : Peek(n)[i] = SubSeq(Readable, 1, n)[i]
    <3>1. \A i \in 1 .. n : i \in 1 .. readableBytes  BY <1>2
    <3> QED  BY <1>3, <1>4, <1>6, <3>1
  <2> QED  BY <1>4, <1>6, <2>1, SeqEqual
<1>8. SubSeq(Readable, n + 1, Len(Readable)) = Readable'
  <2>1. n \in 0 .. Len(Readable) /\ Len(Readable) \in n .. Len(Readable)
    BY <1>2, <1>3
  <2>2. /\ SubSeq(Readable, n + 1, Len(Readable)) \in Seq(Nat)
        /\ Len(SubSeq(Readable, n + 1, Len(Readable))) = readableBytes'
        /\ \A i \in 1 .. readableBytes' :
             SubSeq(Readable, n + 1, Len(Readable))[i] = Readable[n + i]
    BY <1>2, <1>3, <2>1, PieceOf
  <2>3. ASSUME NEW i \in 1 .. readableBytes'
        PROVE  SubSeq(Readable, n + 1, Len(Readable))[i] = Readable'[i]
    <3>1. n + i \in 1 .. readableBytes /\ readIndex + (n + i) = readIndex + n + i
      BY <1>2
    <3> QED  BY <1>3, <1>5, <2>2, <3>1
  <2> QED  BY <1>5, <2>2, <2>3, SeqEqual
<1> QED  BY <1>1, <1>2, <1>3, <1>7, <1>8 DEF Queue!Write, Queue!Move, Readable

\* The empty vector is the empty queue.
LEMMA InitIsInit == ASSUME Init  PROVE Queue!Init
<1>1. readableBytes = 0 /\ readIndex \in Nat  BY BufferAssumption DEF Init, readableBytes
<1>2. IInv  BY InitInv
<1>3. Peek(0) \in Seq(Nat) /\ Len(Peek(0)) = 0  BY <1>1, <1>2, Peeking
<1>4. Peek(readableBytes) = <<>>  BY <1>1, <1>3
<1> QED  BY <1>4 DEF Init, Queue!Init

\* Every step is a step of the queue, or none.
LEMMA StepIsStep == ASSUME IInv, IInv', [Next]_vars  PROVE [Queue!Next]_(Queue!vars)
<1>1. CASE UNCHANGED vars  BY <1>1 DEF vars, Queue!vars, Peek, readableBytes
<1>2. CASE Arrive  BY <1>2 DEF Arrive, Queue!Next, Queue!Arrive, Peek, readableBytes
<1>3. CASE ReadFits \/ ReadSpills  BY <1>3, ReadIsRead DEF Queue!Next
<1>4. CASE WriteFd  BY <1>4, WriteIsWrite DEF Queue!Next
<1> QED  BY <1>1, <1>2, <1>3, <1>4 DEF Next

\* Whatever readv delivers and write takes, the readable bytes are a queue.
THEOREM Refinement == Spec => ImplementsQueue
<1>1. Init => Queue!Init  BY InitIsInit
<1>2. IInv /\ IInv' /\ [Next]_vars => [Queue!Next]_(Queue!vars)  BY StepIsStep
<1> QED  BY <1>1, <1>2, Invariance, PTL DEF Spec, ImplementsQueue, Queue!Spec
=============================================================================
