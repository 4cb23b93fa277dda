--------------------------- MODULE EchoLoopProofs ---------------------------
(***************************************************************************)
(* The inductive invariant of EchoLoop, for any number of clients and      *)
(* descriptors, any sizes of buffer and window, and both programs.         *)
(***************************************************************************)
EXTENDS EchoLoop, SequenceTheorems, TLAPS

\* The steps of the two programs, taken apart.
LEMMA NextCases ==
  ASSUME [Next]_vars
  PROVE  \/ \E c \in Clients : \/ Connect(c) \/ Send(c) \/ Finish(c) \/ Reset(c)
                               \/ Abort(c) \/ Receive(c)
         \/ StartLevel \/ StartEdge \/ Exit \/ WaitLevel \/ WaitEdge \/ Dispatch
         \/ AcceptHead \/ AcceptError \/ AcceptedAll \/ RegisterOne \/ RegisterAll
         \/ ReadBytes \/ ReadEnd \/ ReadAll \/ WriteAll \/ WriteSome \/ BrokenPipe
         \/ UNCHANGED vars
  BY Zenon DEF Next, Client, Server, Level, Edge, AcceptOne, AcceptOneFails, AcceptAll,
               AcceptAllFails, ReadOnce, ReadAgain

\* The descriptor in hand is an open client's.
LEMMA InHand ==
  ASSUME IInv, pc \in {"register", "read", "write", "killed"}
  PROVE  cur \in Fds /\ fdt[cur] \in Clients /\ phase[fdt[cur]] = "open"
  BY DEF IInv, TypeOK, LoopTypeOK, SocketTypeOK, LoopInv, SocketInv

\* Joining two sequences.
LEMMA Joined ==
  ASSUME NEW s \in Seq(Bytes), NEW t \in Seq(Bytes)
  PROVE  /\ s \o t \in Seq(Bytes) /\ Len(s \o t) = Len(s) + Len(t)
         /\ \A i \in 1 .. Len(s) : (s \o t)[i] = s[i]
         /\ \A i \in 1 .. Len(t) : (s \o t)[Len(s) + i] = t[i]
  OBVIOUS

\* Cutting a sequence in two.
LEMMA CutInTwo ==
  ASSUME NEW S, NEW s \in Seq(S), NEW n \in 0 .. Len(s)
  PROVE  /\ SubSeq(s, 1, n) \in Seq(S) /\ Len(SubSeq(s, 1, n)) = n
         /\ \A i \in 1 .. n : SubSeq(s, 1, n)[i] = s[i]
         /\ SubSeq(s, n + 1, Len(s)) \in Seq(S)
         /\ Len(SubSeq(s, n + 1, Len(s))) = Len(s) - n
         /\ \A i \in 1 .. Len(s) - n : SubSeq(s, n + 1, Len(s))[i] = s[n + i]
  OBVIOUS

\* What read does to the buffer and the counters.
LEMMA Reading ==
  ASSUME IInv, ReadBytes
  PROVE  \E c \in Clients : \E n \in Nat :
           /\ c = fdt[cur] /\ n <= inbox[c]
           /\ inbox' = [inbox EXCEPT ![c] = inbox[c] - n]
           /\ taken' = [taken EXCEPT ![c] = taken[c] + n]
           /\ buf' \in Seq(Bytes) /\ Len(buf') = n
           /\ FromOn(c, buf', taken[c])
<1>1. fdt[cur] \in Clients  BY InHand DEF ReadBytes
<1> DEFINE c == fdt[cur]
           n == Smaller(inbox[c], BufSize)
<1>2. n \in Nat /\ n <= inbox[c] /\ taken[c] \in Nat
  BY <1>1, EchoAssumption DEF Smaller, IInv, TypeOK, DataTypeOK
<1>3. /\ inbox' = [inbox EXCEPT ![c] = inbox[c] - n]
      /\ taken' = [taken EXCEPT ![c] = taken[c] + n]
      /\ buf' = [i \in 1 .. n |-> <<c, taken[c] + i>>]
  BY DEF ReadBytes
<1>4. \A i \in 1 .. n : <<c, taken[c] + i>> \in Bytes  BY <1>1, <1>2 DEF Bytes
<1>5. buf' \in Seq(Bytes) /\ Len(buf') = n  BY <1>2, <1>3, <1>4
<1>6. FromOn(c, buf', taken[c])  BY <1>2, <1>3, <1>5 DEF FromOn
<1> QED  BY <1>1, <1>2, <1>3, <1>5, <1>6

\* The server has bytes in its buffer only of a client with an open connection.
LEMMA BufferedOpen ==
  ASSUME IInv, NEW c \in Clients, phase[c] # "open"
  PROVE  ~Buffered(c)
  BY InHand DEF Buffered

\* Numbering the bytes of c anew while none of them is in the buffer.
LEMMA Anew ==
  ASSUME IInv, NEW k \in Clients, NumberAnew(k), ~Buffered(k),
         UNCHANGED <<pc, cur, buf, fdt, inbox>>
  PROVE  short' \in SUBSET Clients /\ DataTypeOK' /\ BufferInv' /\ WindowInv' /\ EchoIsFaithful'
<1>1. /\ taken \in [Clients -> Nat] /\ got \in [Clients -> Nat]
      /\ echo \in [Clients -> Seq(Bytes)] /\ short \in SUBSET Clients
  BY DEF IInv, TypeOK, DataTypeOK, LoopTypeOK
<1>2. /\ taken'[k] = 0 /\ got'[k] = 0 /\ Len(echo'[k]) = 0 /\ k \notin short'
      /\ \A d \in Clients \ {k} : /\ taken'[d] = taken[d] /\ got'[d] = got[d]
                                 /\ echo'[d] = echo[d] /\ (d \in short' <=> d \in short)
  BY <1>1 DEF NumberAnew
<1>3. DataTypeOK' /\ short' \in SUBSET Clients
  <2>1. <<>> \in Seq(Bytes)  OBVIOUS
  <2> QED  BY <1>1, <2>1 DEF NumberAnew, IInv, TypeOK, DataTypeOK
<1>4. BufferInv'
  <2>1. pc \in {"write", "killed"} => fdt[cur] \in Clients \ {k}  BY InHand DEF Buffered
  <2> QED  BY <1>2, <2>1 DEF IInv, BufferInv
<1>5. WindowInv'
  <2>1. 0 \in 0 .. Room  BY EchoAssumption
  <2> QED  BY <1>2, <2>1 DEF IInv, WindowInv
<1>6. EchoIsFaithful'
  <2>1. InOrder(k, echo'[k], taken'[k]) /\ FromOn(k, echo'[k], 0) /\ Len(echo'[k]) = taken'[k]
    BY <1>2 DEF InOrder, FromOn
  <2>2. ASSUME NEW d \in Clients \ {k}
        PROVE  /\ InOrder(d, echo'[d], taken'[d])
               /\ d \notin short' => /\ FromOn(d, echo'[d], 0)
                                     /\ Len(echo'[d]) = taken'[d] \/ Buffered(d)'
    BY <1>2 DEF IInv, EchoIsFaithful, Buffered
  <2> QED  BY <2>1, <2>2 DEF EchoIsFaithful, Buffered
<1> QED  BY <1>3, <1>4, <1>5, <1>6

\* More bytes may count as sent.
LEMMA StillInOrder ==
  ASSUME NEW c, NEW s \in Seq(Bytes), NEW k \in Nat, NEW m \in Nat, k <= m, InOrder(c, s, k)
  PROVE  InOrder(c, s, m)
  BY DEF InOrder

\* t is s with the first n elements of b behind it, rest is what b has left.
Moved(s, b, n, t, rest) ==
  /\ rest \in Seq(Bytes) /\ Len(rest) = Len(b) - n
  /\ \A i \in 1 .. Len(b) - n : rest[i] = b[n + i]
  /\ t \in Seq(Bytes) /\ Len(t) = Len(s) + n
  /\ \A i \in 1 .. Len(s) : t[i] = s[i]
  /\ \A i \in 1 .. n : t[Len(s) + i] = b[i]

\* Writing the first n bytes of a buffer b that goes on where s stops.
LEMMA Appended ==
  ASSUME NEW c, NEW k \in Nat, NEW s \in Seq(Bytes), NEW b \in Seq(Bytes),
         NEW n \in 0 .. Len(b), NEW t, NEW rest,
         InOrder(c, s, k), FromOn(c, b, k), Moved(s, b, n, t, rest)
  PROVE  /\ InOrder(c, t, k + n)
         /\ FromOn(c, s, 0) /\ Len(s) = k => FromOn(c, t, 0)
         /\ FromOn(c, rest, k + n)
<1>1. /\ \A i \in 1 .. Len(b) - n : rest[i] = b[n + i]
      /\ rest \in Seq(Bytes) /\ Len(rest) = Len(b) - n
  BY DEF Moved
<1>2. /\ Len(t) = Len(s) + n
      /\ \A i \in 1 .. Len(s) : t[i] = s[i]
      /\ \A i \in 1 .. n : t[Len(s) + i] = b[i]
  BY DEF Moved
<1>3. Len(s) \in Nat /\ Len(b) \in Nat /\ n \in Nat  OBVIOUS
<1>4. ASSUME NEW i \in 1 .. Len(t)
      PROVE  \/ i \in 1 .. Len(s) /\ t[i] = s[i]
             \/ i - Len(s) \in 1 .. n /\ t[i] = <<c, k + (i - Len(s))>>
  <2>1. CASE i <= Len(s)  BY <1>2, <1>3, <2>1
  <2>2. CASE i > Len(s)
    <3>1. i - Len(s) \in 1 .. n /\ Len(s) + (i - Len(s)) = i
      BY <1>2, <1>3, <2>2
    <3>2. t[i] = b[i - Len(s)]  BY <1>2, <3>1
    <3>3. i - Len(s) \in 1 .. Len(b)  BY <1>3, <3>1
    <3>4. b[i - Len(s)] = <<c, k + (i - Len(s))>>  BY <3>3 DEF FromOn
    <3> QED  BY <3>1, <3>2, <3>4
  <2> QED  BY <1>2, <1>3, <2>1, <2>2
<1>5. InOrder(c, t, k + n)
  <2>1. ASSUME NEW i \in 1 .. Len(t)
        PROVE  /\ t[i][1] = c /\ t[i][2] \in 1 .. k + n
               /\ i <= Len(s) => t[i][2] <= k
    <3>1. CASE i \in 1 .. Len(s) /\ t[i] = s[i]
      <4>1. s[i][1] = c /\ s[i][2] \in 1 .. k  BY <3>1 DEF InOrder
      <4> QED  BY <1>3, <3>1, <4>1
    <3>2. CASE i - Len(s) \in 1 .. n /\ t[i] = <<c, k + (i - Len(s))>>
      <4>1. t[i][1] = c /\ t[i][2] = k + (i - Len(s))  BY <3>2
      <4> QED  BY <1>3, <3>2, <4>1
    <3> QED  BY <1>4, <3>1, <3>2
  <2>2. ASSUME NEW i \in 1 .. Len(t), NEW j \in 1 .. i - 1
        PROVE  t[j][2] < t[i][2]
    <3>1. j \in 1 .. Len(t)  BY <1>2, <1>3
    <3>2. CASE i \in 1 .. Len(s)
      <4>1. j \in 1 .. Len(s) /\ t[j] = s[j] /\ t[i] = s[i]  BY <1>2, <1>3, <3>2
      <4> QED  BY <3>2, <4>1 DEF InOrder
    <3>3. CASE i \notin 1 .. Len(s)
      <4>1. t[i] = <<c, k + (i - Len(s))>> /\ i - Len(s) \in 1 .. n  BY <1>4, <3>3
      <4>2. CASE j <= Len(s)
        BY <1>3, <2>1, <3>1, <4>1, <4>2
      <4>3. CASE j > Len(s)
        <5>1. t[j] = <<c, k + (j - Len(s))>>  BY <1>3, <1>4, <3>1, <4>3
        <5> QED  BY <1>3, <4>1, <5>1
      <4> QED  BY <1>3, <4>2, <4>3
    <3> QED  BY <3>2, <3>3
  <2> QED  BY <2>1, <2>2 DEF InOrder
<1>6. FromOn(c, s, 0) /\ Len(s) = k => FromOn(c, t, 0)
  BY <1>3, <1>4 DEF FromOn
<1>7. FromOn(c, rest, k + n)
  <2>1. ASSUME NEW i \in 1 .. Len(rest)  PROVE rest[i] = <<c, (k + n) + i>>
    <3>1. n + i \in 1 .. Len(b) /\ rest[i] = b[n + i]  BY <1>1, <1>3
    <3>2. k + (n + i) = (k + n) + i  BY <1>3
    <3> QED  BY <3>1, <3>2 DEF FromOn
  <2> QED  BY <2>1 DEF FromOn
<1> QED  BY <1>5, <1>6, <1>7

\* What a write of n bytes to c does to the buffer and to what c gets.
Written(c, n) ==
  LET done == taken[c] - Len(buf)
  IN  /\ c = fdt[cur] /\ pc = "write" /\ done \in Nat
      /\ n \in Nat /\ n <= Len(buf) /\ n <= Room - (Len(echo[c]) - got[c])
      /\ \A d \in Clients \ {c} : echo'[d] = echo[d]
      /\ echo' \in [Clients -> Seq(Bytes)] /\ Len(echo'[c]) = Len(echo[c]) + n
      /\ InOrder(c, echo'[c], done + n)
      /\ c \notin short => Len(echo[c]) = done /\ FromOn(c, echo'[c], 0)
      /\ buf' \in Seq(Bytes)
      /\ WriteAll => /\ Len(buf') = Len(buf) - n /\ FromOn(c, buf', done + n)
                     /\ n # Len(buf) <=> pc' = "write"
      /\ WriteSome => short' = IF n < Len(buf) THEN short \cup {c} ELSE short

LEMMA Writing ==
  ASSUME IInv, WriteAll \/ WriteSome
  PROVE  \E c \in Clients : \E n \in Nat : Written(c, n)
<1>1. fdt[cur] \in Clients /\ pc = "write"  BY InHand DEF WriteAll, WriteSome
<1> DEFINE c == fdt[cur]
           n == Smaller(Len(buf), Space(c))
           done == taken[c] - Len(buf)
           rest == SubSeq(buf, n + 1, Len(buf))
<1>2. /\ buf \in Seq(Bytes) /\ echo \in [Clients -> Seq(Bytes)]
      /\ Len(buf) \in Nat /\ Len(echo[c]) \in Nat /\ got[c] \in Nat
  BY <1>1 DEF IInv, TypeOK, DataTypeOK
<1>3. n \in 0 .. Len(buf) /\ n <= Room - (Len(echo[c]) - got[c])
  <2>1. Len(echo[c]) - got[c] \in 0 .. Room /\ Room \in Nat
    BY <1>1, EchoAssumption DEF IInv, WindowInv
  <2> QED  BY <1>2, <2>1 DEF Smaller, Space
<1>4. /\ done \in Nat /\ FromOn(c, buf, done) /\ InOrder(c, echo[c], done)
      /\ c \notin short => Len(echo[c]) = done /\ FromOn(c, echo[c], 0)
  BY <1>1 DEF IInv, BufferInv, EchoIsFaithful
<1>5. echo' = [echo EXCEPT ![c] = echo[c] \o SubSeq(buf, 1, n)]
  BY DEF WriteAll, WriteSome, Put
<1>6. /\ WriteAll => buf' = rest /\ (n # Len(buf) <=> pc' = "write")
      /\ WriteSome => buf' = <<>> /\ short' = IF n < Len(buf) THEN short \cup {c} ELSE short
  BY <1>1 DEF WriteAll, WriteSome
<1> HIDE DEF c, n
<1>7. LET t == echo[c] \o SubSeq(buf, 1, n)
      IN  /\ t \in Seq(Bytes) /\ Len(t) = Len(echo[c]) + n
          /\ InOrder(c, t, done + n)
          /\ FromOn(c, echo[c], 0) /\ Len(echo[c]) = done => FromOn(c, t, 0)
          /\ rest \in Seq(Bytes) /\ Len(rest) = Len(buf) - n
          /\ FromOn(c, rest, done + n)
  <2>1. echo[c] \in Seq(Bytes)  BY <1>1, <1>2 DEF c
  <2> DEFINE first == SubSeq(buf, 1, n)
             t == echo[c] \o first
  <2>2. /\ first \in Seq(Bytes) /\ Len(first) = n
        /\ \A i \in 1 .. n : first[i] = buf[i]
        /\ rest \in Seq(Bytes) /\ Len(rest) = Len(buf) - n
        /\ \A i \in 1 .. Len(buf) - n : rest[i] = buf[n + i]
    BY <1>2, <1>3, CutInTwo
  <2> HIDE DEF first
  <2>3. /\ t \in Seq(Bytes) /\ Len(t) = Len(echo[c]) + Len(first)
        /\ \A i \in 1 .. Len(echo[c]) : t[i] = echo[c][i]
        /\ \A i \in 1 .. Len(first) : t[Len(echo[c]) + i] = first[i]
    BY <2>1, <2>2, Joined
  <2> HIDE DEF done, rest, t
  <2>4. Moved(echo[c], buf, n, t, rest)  BY <2>2, <2>3 DEF Moved
  <2>5. /\ InOrder(c, t, done + n)
        /\ FromOn(c, echo[c], 0) /\ Len(echo[c]) = done => FromOn(c, t, 0)
        /\ FromOn(c, rest, done + n)
    BY <1>2, <1>3, <1>4, <2>1, <2>4, Appended
  <2> QED  BY <2>2, <2>3, <2>5 DEF t, first
<1>8. /\ echo'[c] = echo[c] \o SubSeq(buf, 1, n)
      /\ \A d \in Clients \ {c} : echo'[d] = echo[d]
      /\ echo' \in [Clients -> Seq(Bytes)]
  BY <1>1, <1>2, <1>5, <1>7 DEF c
<1>9. buf' \in Seq(Bytes)  
  <2>1. <<>> \in Seq(Bytes)  OBVIOUS
  <2> QED  BY <1>6, <1>7, <2>1
<1>10. Written(c, n)
  <2>1. c = fdt[cur] /\ n \in Nat /\ n <= Len(buf)  BY <1>2, <1>3 DEF c
  <2> QED  BY <1>1, <1>3, <1>4, <1>6, <1>7, <1>8, <1>9, <2>1 DEF Written
<1> QED  BY <1>1, <1>3, <1>10 DEF c

\* In the initial states everything is empty.
LEMMA InitInv == ASSUME Init  PROVE IInv
<1> USE EchoAssumption DEF Init
<1>1. LoopTypeOK  BY DEF LoopTypeOK, Sources
<1>2. SocketTypeOK /\ DataTypeOK
  <2>1. queue \in Seq(Clients) /\ buf \in Seq(Bytes) /\ echo \in [Clients -> Seq(Bytes)]
    OBVIOUS
  <2> QED  BY <2>1 DEF SocketTypeOK, DataTypeOK
<1>3. SocketInv /\ LoopInv  BY DEF SocketInv, LoopInv
<1>4. BufferInv /\ AcceptInv  BY DEF BufferInv, AcceptInv
<1>5. EchoIsFaithful /\ WindowInv
  <2>1. \A c \in Clients : Len(echo[c]) = 0 /\ got[c] = 0 /\ taken[c] = 0  OBVIOUS
  <2> QED  BY <2>1 DEF EchoIsFaithful, WindowInv, InOrder, FromOn
<1>6. NothingForgotten /\ EventsStayTrue
  BY DEF NothingForgotten, EventsStayTrue, Running
<1> QED  BY <1>1, <1>2, <1>3, <1>4, <1>5, <1>6 DEF IInv, TypeOK

\* Every step keeps the types of the loop's own state.
LEMMA LoopTypeStep == ASSUME IInv, [Next]_vars  PROVE LoopTypeOK'
<1> USE EchoAssumption DEF IInv, TypeOK
<1>1. CASE UNCHANGED <<et, refused, short, pc, batch, fired, cur, interest>>
  BY <1>1 DEF LoopTypeOK
<1>2. ASSUME NEW c \in Clients, Connect(c)  PROVE LoopTypeOK'
  BY <1>2 DEF LoopTypeOK, Sources, Connect, NumberAnew
<1>3. ASSUME NEW c \in Clients, Send(c)  PROVE LoopTypeOK'
  BY <1>3 DEF LoopTypeOK, Sources, Send, Activate, Running, Gone, serverVars,
     sockVars, clientVars, histVars
<1>4. ASSUME NEW c \in Clients, Finish(c)  PROVE LoopTypeOK'
  BY <1>4 DEF LoopTypeOK, Sources, Finish, Activate, Running, Gone, serverVars,
     sockVars, clientVars, histVars
<1>5. ASSUME NEW c \in Clients, Reset(c)  PROVE LoopTypeOK'
  BY <1>5 DEF LoopTypeOK, Sources, Reset, Activate, Running, Gone, serverVars,
     sockVars, clientVars, histVars
<1>6. ASSUME NEW c \in Clients, Abort(c)  PROVE LoopTypeOK'
  BY <1>6 DEF LoopTypeOK, Sources, Abort, Without, Running, Gone, serverVars,
     sockVars, clientVars, histVars
<1>7. CASE StartLevel
  BY <1>7 DEF LoopTypeOK, Sources, StartLevel, serverVars, sockVars, clientVars,
     histVars
<1>8. CASE StartEdge
  BY <1>8 DEF LoopTypeOK, Sources, StartEdge, serverVars, sockVars, clientVars,
     histVars
<1>9. CASE Exit
  BY <1>9 DEF LoopTypeOK, Sources, Exit, serverVars, sockVars, clientVars, histVars
<1>10. CASE WaitLevel
  BY <1>10 DEF LoopTypeOK, Sources, WaitLevel, Ready, serverVars, sockVars,
     clientVars, histVars
<1>11. CASE WaitEdge
  BY <1>11 DEF LoopTypeOK, Sources, WaitEdge, Ready, serverVars, sockVars,
     clientVars, histVars
<1>12. CASE Dispatch
  BY <1>12 DEF LoopTypeOK, Sources, Dispatch, serverVars, sockVars, clientVars,
     histVars
<1>13. CASE AcceptHead
  BY <1>13 DEF LoopTypeOK, Sources, AcceptHead, FreeFds, serverVars, sockVars,
     clientVars, histVars
<1>14. CASE AcceptError
  BY <1>14 DEF LoopTypeOK, Sources, AcceptError, serverVars, sockVars, clientVars,
     histVars
<1>15. CASE AcceptedAll
  BY <1>15 DEF LoopTypeOK, Sources, AcceptedAll, serverVars, sockVars, clientVars,
     histVars
<1>16. CASE RegisterOne
  BY <1>16, InHand DEF LoopTypeOK, Sources, RegisterOne, Register, CloseFd,
     serverVars, sockVars, clientVars, histVars
<1>17. CASE RegisterAll
  BY <1>17, InHand DEF LoopTypeOK, Sources, RegisterAll, Register, CloseFd,
     serverVars, sockVars, clientVars, histVars
<1>18. CASE ReadBytes
  BY <1>18 DEF LoopTypeOK, Sources, ReadBytes, Smaller, serverVars, sockVars,
     clientVars, histVars
<1>19. CASE ReadEnd
  BY <1>19 DEF LoopTypeOK, Sources, ReadEnd, CloseFd, serverVars, sockVars,
     clientVars, histVars
<1>20. CASE ReadAll
  BY <1>20 DEF LoopTypeOK, Sources, ReadAll, serverVars, sockVars, clientVars,
     histVars
<1>21. CASE WriteAll
  BY <1>21 DEF LoopTypeOK, Sources, WriteAll, Smaller, Space, Put, serverVars,
     sockVars, clientVars, histVars
<1>22. CASE WriteSome
  BY <1>22, InHand DEF LoopTypeOK, WriteSome, sockVars, clientVars, histVars
<1>23. CASE BrokenPipe
  BY <1>23 DEF LoopTypeOK, Sources, BrokenPipe, serverVars, sockVars, clientVars,
     histVars
<1>24. ASSUME NEW c \in Clients, Receive(c)  PROVE LoopTypeOK'
  BY <1>24 DEF LoopTypeOK, Receive, NumberAnew, sockVars
<1> QED
  BY <1>1, <1>2, <1>3, <1>4, <1>5, <1>6, <1>7, <1>8, <1>9, <1>10, <1>11, <1>12,
     <1>13, <1>14, <1>15, <1>16, <1>17, <1>18, <1>19, <1>20, <1>21, <1>22, <1>23,
     <1>24, NextCases DEF vars, serverVars, sockVars, clientVars, histVars

\* Every step keeps the types of the descriptors and the connections.
LEMMA SocketTypeStep == ASSUME IInv, [Next]_vars  PROVE SocketTypeOK'
<1> USE EchoAssumption DEF IInv, TypeOK
<1>1. CASE UNCHANGED <<fdt, queue, phase, end>>
  BY <1>1 DEF SocketTypeOK
<1>2. ASSUME NEW c \in Clients, Connect(c)  PROVE SocketTypeOK'
  BY <1>2 DEF SocketTypeOK, Connect
<1>3. ASSUME NEW c \in Clients, Finish(c)  PROVE SocketTypeOK'
  BY <1>3 DEF SocketTypeOK, LoopTypeOK, LoopInv, Finish, Activate, Running, Gone,
     serverVars, sockVars, clientVars, histVars
<1>4. ASSUME NEW c \in Clients, Reset(c)  PROVE SocketTypeOK'
  BY <1>4 DEF SocketTypeOK, LoopTypeOK, LoopInv, Reset, Activate, Running, Gone,
     serverVars, sockVars, clientVars, histVars
<1>5. ASSUME NEW c \in Clients, Abort(c)  PROVE SocketTypeOK'
  <2>1. queue' \in Seq(Clients)
    <3>1. ASSUME NEW i \in DOMAIN queue  PROVE Without(queue, i) \in Seq(Clients)
      <4>1. \A j \in 1 .. Len(queue) - 1 : j \in DOMAIN queue /\ j + 1 \in DOMAIN queue
        BY DEF SocketTypeOK
      <4>2. \A j \in DOMAIN queue : queue[j] \in Clients  BY DEF SocketTypeOK
      <4>3. Len(queue) - 1 \in Nat  BY DEF SocketTypeOK
      <4> QED  BY <4>1, <4>2, <4>3 DEF Without
    <3> QED  BY <1>5, <3>1 DEF Abort, SocketTypeOK
  <2> QED  BY <1>5, <2>1 DEF SocketTypeOK, Abort, serverVars
<1>6. CASE AcceptHead
  BY <1>6 DEF SocketTypeOK, LoopTypeOK, LoopInv, AcceptHead, FreeFds, serverVars,
     sockVars, clientVars, histVars
<1>7. CASE AcceptError
  <2>1. queue' \in Seq(Clients)
    <3>1. CASE queue' = Tail(queue)  BY <1>7, <3>1 DEF AcceptError, SocketTypeOK
    <3> QED  BY <1>7, <3>1 DEF AcceptError, SocketTypeOK
  <2> QED  BY <1>7, <2>1 DEF AcceptError, SocketTypeOK, clientVars
<1>8. CASE RegisterOne
  BY <1>8 DEF SocketTypeOK, LoopTypeOK, LoopInv, RegisterOne, Register, CloseFd,
     serverVars, sockVars, clientVars, histVars
<1>9. CASE RegisterAll
  BY <1>9 DEF SocketTypeOK, LoopTypeOK, LoopInv, RegisterAll, Register, CloseFd,
     serverVars, sockVars, clientVars, histVars
<1>10. CASE ReadEnd
  BY <1>10 DEF SocketTypeOK, LoopTypeOK, LoopInv, ReadEnd, CloseFd, serverVars,
     sockVars, clientVars, histVars
<1> QED
  BY <1>1, <1>2, <1>3, <1>4, <1>5, <1>6, <1>7, <1>8, <1>9, <1>10, NextCases DEF Send,
     Activate, Receive, StartLevel, StartEdge, Exit, WaitLevel, WaitEdge, Dispatch,
     AcceptedAll, ReadBytes, ReadAll, WriteAll, Put, WriteSome, BrokenPipe, vars,
     serverVars, sockVars, clientVars, histVars

\* Every step keeps the types of the data.
LEMMA DataTypeStep == ASSUME IInv, [Next]_vars  PROVE DataTypeOK'
<1> USE EchoAssumption DEF IInv, TypeOK
<1>1. CASE UNCHANGED <<inbox, taken, got, buf, echo>>
  BY <1>1 DEF DataTypeOK
<1>2. ASSUME NEW c \in Clients, Send(c)  PROVE DataTypeOK'
  BY <1>2 DEF DataTypeOK, LoopTypeOK, SocketTypeOK, LoopInv, Send, Activate, Running,
     Gone, serverVars, sockVars, clientVars, histVars
<1>3. ASSUME NEW c \in Clients, Reset(c)  PROVE DataTypeOK'
  <2>1. inbox' \in [Clients -> Nat]
    <3>1. CASE inbox' = inbox  BY <3>1 DEF DataTypeOK
    <3>2. CASE inbox' = [inbox EXCEPT ![c] = 0]  BY <3>2 DEF DataTypeOK
    <3> QED  BY <1>3, <3>1, <3>2 DEF Reset
  <2> QED  BY <1>3, <2>1 DEF DataTypeOK, Reset, serverVars
<1>4. ASSUME NEW c \in Clients, Receive(c)  PROVE DataTypeOK'
  <2>1. CASE NumberAnew(c) /\ ~Buffered(c)
    BY <1>4, <2>1, Anew DEF Receive, sockVars
  <2>2. CASE got' = [got EXCEPT ![c] = got[c] + 1] /\ UNCHANGED <<taken, echo, short>>
    BY <1>4, <2>2 DEF DataTypeOK, Receive
  <2> QED  BY <1>4, <2>1, <2>2 DEF Receive
<1>5. CASE RegisterOne
  <2>1. inbox' \in [Clients -> Nat]
    <3>1. CASE CloseFd(cur)
      <4>1. fdt[cur] \in Clients  BY <1>5, InHand DEF RegisterOne, Register
      <4> QED  BY <3>1, <4>1 DEF DataTypeOK, CloseFd
    <3>2. CASE UNCHANGED clientVars  BY <3>2 DEF DataTypeOK, clientVars
    <3> QED  BY <1>5, <3>1, <3>2 DEF RegisterOne, Register
  <2>2. UNCHANGED <<taken, got, buf, echo>>
    BY <1>5 DEF RegisterOne, Register, CloseFd, clientVars
  <2> QED  BY <2>1, <2>2 DEF DataTypeOK
<1>6. CASE RegisterAll
  <2>1. inbox' \in [Clients -> Nat]
    <3>1. CASE CloseFd(cur)
      <4>1. fdt[cur] \in Clients  BY <1>6, InHand DEF RegisterAll, Register
      <4> QED  BY <3>1, <4>1 DEF DataTypeOK, CloseFd
    <3>2. CASE UNCHANGED clientVars  BY <3>2 DEF DataTypeOK, clientVars
    <3> QED  BY <1>6, <3>1, <3>2 DEF RegisterAll, Register
  <2>2. UNCHANGED <<taken, got, buf, echo>>
    BY <1>6 DEF RegisterAll, Register, CloseFd, clientVars
  <2> QED  BY <2>1, <2>2 DEF DataTypeOK
<1>7. CASE ReadBytes
  <2>1. PICK c \in Clients, n \in Nat :
           /\ c = fdt[cur] /\ n <= inbox[c]
           /\ inbox' = [inbox EXCEPT ![c] = inbox[c] - n]
           /\ taken' = [taken EXCEPT ![c] = taken[c] + n]
           /\ buf' \in Seq(Bytes) /\ Len(buf') = n
           /\ FromOn(c, buf', taken[c])
    BY <1>7, Reading
  <2>2. inbox[c] - n \in Nat /\ taken[c] + n \in Nat  BY <2>1 DEF DataTypeOK
  <2> QED  BY <1>7, <2>1, <2>2 DEF DataTypeOK, ReadBytes, serverVars
<1>8. CASE ReadEnd
  BY <1>8 DEF DataTypeOK, LoopTypeOK, SocketTypeOK, LoopInv, ReadEnd, CloseFd,
     serverVars, sockVars, clientVars, histVars
<1>9. CASE WriteAll
  <2>1. PICK c \in Clients, n \in Nat : Written(c, n)  BY <1>9, Writing
  <2> QED  BY <1>9, <2>1 DEF DataTypeOK, WriteAll, clientVars, Written
<1>10. CASE WriteSome
  <2>1. PICK c \in Clients, n \in Nat : Written(c, n)  BY <1>10, Writing
  <2> QED  BY <1>10, <2>1 DEF DataTypeOK, WriteSome, clientVars, Written
<1>11. ASSUME NEW c \in Clients, Connect(c)  PROVE DataTypeOK'
  BY <1>11, Anew, BufferedOpen DEF Connect
<1> QED
  BY <1>1, <1>2, <1>3, <1>4, <1>5, <1>6, <1>7, <1>8, <1>9, <1>10, <1>11, NextCases
  DEF Finish, Activate, Abort, Without, StartLevel, StartEdge, Exit,
     WaitLevel, WaitEdge, Dispatch, AcceptHead, AcceptError, AcceptedAll, ReadAll,
     BrokenPipe, vars, serverVars, sockVars, clientVars, histVars

\* The descriptors and the queue hold each client once.
LEMMA SocketStep == ASSUME IInv, TypeOK', [Next]_vars  PROVE SocketInv'
<1> USE EchoAssumption DEF IInv, TypeOK
<1>1. CASE UNCHANGED <<fdt, queue, phase>>
  BY <1>1 DEF SocketInv
<1>2. ASSUME NEW c \in Clients, Connect(c)  PROVE SocketInv'
  BY <1>2 DEF LoopTypeOK, SocketTypeOK, SocketInv, LoopInv, Connect, Running, Gone,
     serverVars, sockVars, clientVars, histVars
<1>3. ASSUME NEW c \in Clients, Abort(c)  PROVE SocketInv'
  <2>1. fdt' = fdt /\ phase' = [phase EXCEPT ![c] = "aborted"]
    BY <1>3 DEF Abort, serverVars
  <2>2. CASE UNCHANGED queue
    BY <1>3, <2>1, <2>2 DEF Abort, SocketInv, SocketTypeOK
  <2>3. CASE \E i \in DOMAIN queue : queue' = Without(queue, i)
    <3>1. PICK i \in DOMAIN queue : queue' = Without(queue, i)  BY <2>3
    <3>2. \A j \in DOMAIN queue' :
            /\ j + 1 \in DOMAIN queue /\ j \in DOMAIN queue
            /\ queue'[j] = queue[IF j < i THEN j ELSE j + 1]
      BY <3>1 DEF Without, SocketTypeOK
    <3> QED  BY <1>3, <2>1, <3>2 DEF Abort, SocketInv, SocketTypeOK
  <2> QED  BY <1>3, <2>2, <2>3 DEF Abort
<1>4. CASE AcceptHead
  BY <1>4 DEF LoopTypeOK, SocketTypeOK, SocketInv, LoopInv, AcceptHead, FreeFds,
     serverVars, sockVars, clientVars, histVars
<1>5. CASE AcceptError
  <2>1. fdt' = fdt /\ phase' = phase  BY <1>5 DEF AcceptError, clientVars
  <2>2. CASE UNCHANGED queue  BY <2>1, <2>2 DEF SocketInv
  <2>3. CASE queue' = Tail(queue)
    <3>1. \A j \in DOMAIN queue' : j + 1 \in DOMAIN queue /\ queue'[j] = queue[j + 1]
      BY <1>5, <2>3 DEF AcceptError, SocketTypeOK
    <3> QED  BY <2>1, <3>1 DEF SocketInv, SocketTypeOK
  <2> QED  BY <1>5, <2>2, <2>3 DEF AcceptError
<1>6. CASE RegisterOne
  BY <1>6 DEF LoopTypeOK, SocketTypeOK, SocketInv, LoopInv, RegisterOne, Register,
     CloseFd, serverVars, sockVars, clientVars, histVars
<1>7. CASE RegisterAll
  BY <1>7 DEF LoopTypeOK, SocketTypeOK, SocketInv, LoopInv, RegisterAll, Register,
     CloseFd, serverVars, sockVars, clientVars, histVars
<1>8. CASE ReadEnd
  BY <1>8 DEF LoopTypeOK, SocketTypeOK, SocketInv, LoopInv, ReadEnd, CloseFd,
     serverVars, sockVars, clientVars, histVars
<1> QED
  BY <1>1, <1>2, <1>3, <1>4, <1>5, <1>6, <1>7, <1>8, NextCases DEF Send, Activate,
     Finish, Reset, Receive, StartLevel, StartEdge, Exit, WaitLevel, WaitEdge,
     Dispatch, AcceptedAll, ReadBytes, ReadAll, WriteAll, Put, WriteSome, BrokenPipe,
     vars, serverVars, sockVars, clientVars, histVars

\* What is watched, activated, reported and handled stays consistent.
LEMMA LoopStep == ASSUME IInv, TypeOK', [Next]_vars  PROVE LoopInv'
<1> USE EchoAssumption DEF IInv, TypeOK
<1>1. CASE UNCHANGED <<pc, queue, fdt, interest, fired, batch, cur>>
  BY <1>1 DEF LoopInv
<1>2. ASSUME NEW c \in Clients, Connect(c)  PROVE LoopInv'
  BY <1>2 DEF LoopInv, Connect, Running, Gone
<1>3. ASSUME NEW c \in Clients, Send(c)  PROVE LoopInv'
  BY <1>3 DEF LoopTypeOK, SocketTypeOK, SocketInv, LoopInv, Sources, Send, Activate,
     Running, Gone, serverVars, sockVars, clientVars, histVars
<1>4. ASSUME NEW c \in Clients, Finish(c)  PROVE LoopInv'
  BY <1>4 DEF LoopTypeOK, SocketTypeOK, SocketInv, LoopInv, Sources, Finish,
     Activate, Running, Gone, serverVars, sockVars, clientVars, histVars
<1>5. ASSUME NEW c \in Clients, Reset(c)  PROVE LoopInv'
  BY <1>5 DEF LoopTypeOK, SocketTypeOK, SocketInv, LoopInv, Sources, Reset, Activate,
     Running, Gone, serverVars, sockVars, clientVars, histVars
<1>6. ASSUME NEW c \in Clients, Abort(c)  PROVE LoopInv'
  BY <1>6 DEF LoopTypeOK, SocketTypeOK, SocketInv, LoopInv, Sources, Abort, Without,
     Running, Gone, serverVars, sockVars, clientVars, histVars
<1>7. CASE StartLevel
  BY <1>7 DEF LoopTypeOK, SocketTypeOK, SocketInv, LoopInv, Sources, StartLevel,
     serverVars, sockVars, clientVars, histVars
<1>8. CASE StartEdge
  BY <1>8 DEF LoopTypeOK, SocketTypeOK, SocketInv, LoopInv, Sources, StartEdge,
     serverVars, sockVars, clientVars, histVars
<1>9. CASE Exit
  BY <1>9 DEF LoopTypeOK, SocketTypeOK, SocketInv, LoopInv, Sources, Exit,
     serverVars, sockVars, clientVars, histVars
<1>10. CASE WaitLevel
  BY <1>10 DEF LoopTypeOK, SocketTypeOK, SocketInv, LoopInv, Sources, WaitLevel,
     Ready, serverVars, sockVars, clientVars, histVars
<1>11. CASE WaitEdge
  BY <1>11 DEF LoopTypeOK, SocketTypeOK, SocketInv, LoopInv, Sources, WaitEdge,
     Ready, serverVars, sockVars, clientVars, histVars
<1>12. CASE Dispatch
  BY <1>12 DEF LoopTypeOK, SocketTypeOK, SocketInv, LoopInv, Sources, Dispatch,
     serverVars, sockVars, clientVars, histVars
<1>13. CASE AcceptHead
  BY <1>13 DEF LoopTypeOK, SocketTypeOK, SocketInv, LoopInv, Sources, AcceptHead,
     FreeFds, serverVars, sockVars, clientVars, histVars
<1>14. CASE AcceptError
  BY <1>14 DEF LoopTypeOK, SocketTypeOK, SocketInv, LoopInv, Sources, AcceptError,
     serverVars, sockVars, clientVars, histVars
<1>15. CASE AcceptedAll
  BY <1>15 DEF LoopTypeOK, SocketTypeOK, SocketInv, LoopInv, Sources, AcceptedAll,
     serverVars, sockVars, clientVars, histVars
<1>16. CASE RegisterOne
  BY <1>16 DEF LoopTypeOK, SocketTypeOK, SocketInv, LoopInv, Sources, RegisterOne,
     Register, CloseFd, serverVars, sockVars, clientVars, histVars
<1>17. CASE RegisterAll
  BY <1>17 DEF LoopTypeOK, SocketTypeOK, SocketInv, LoopInv, Sources, RegisterAll,
     Register, CloseFd, serverVars, sockVars, clientVars, histVars
<1>18. CASE ReadBytes
  BY <1>18 DEF LoopTypeOK, SocketTypeOK, SocketInv, LoopInv, Sources, ReadBytes,
     Smaller, serverVars, sockVars, clientVars, histVars
<1>19. CASE ReadEnd
  BY <1>19 DEF LoopTypeOK, SocketTypeOK, SocketInv, LoopInv, Sources, ReadEnd,
     CloseFd, serverVars, sockVars, clientVars, histVars
<1>20. CASE ReadAll
  BY <1>20 DEF LoopTypeOK, SocketTypeOK, SocketInv, LoopInv, Sources, ReadAll,
     serverVars, sockVars, clientVars, histVars
<1>21. CASE WriteAll
  BY <1>21 DEF LoopTypeOK, SocketTypeOK, SocketInv, LoopInv, Sources, WriteAll,
     Smaller, Space, Put, serverVars, sockVars, clientVars, histVars
<1>22. CASE WriteSome
  BY <1>22 DEF LoopTypeOK, SocketTypeOK, SocketInv, LoopInv, Sources, WriteSome,
     Smaller, Space, Put, serverVars, sockVars, clientVars, histVars
<1>23. CASE BrokenPipe
  BY <1>23 DEF LoopTypeOK, SocketTypeOK, SocketInv, LoopInv, Sources, BrokenPipe,
     serverVars, sockVars, clientVars, histVars
<1> QED
  BY <1>1, <1>2, <1>3, <1>4, <1>5, <1>6, <1>7, <1>8, <1>9, <1>10, <1>11, <1>12,
     <1>13, <1>14, <1>15, <1>16, <1>17, <1>18, <1>19, <1>20, <1>21, <1>22, <1>23,
     NextCases DEF Receive, vars, serverVars, sockVars, clientVars, histVars

\* A client is never sent more than there is room for.
LEMMA WindowStep == ASSUME IInv, TypeOK', [Next]_vars  PROVE WindowInv'
<1> USE EchoAssumption DEF IInv, TypeOK
<1>1. CASE UNCHANGED <<echo, got>>
  BY <1>1 DEF WindowInv
<1>2. ASSUME NEW c \in Clients, Receive(c)  PROVE WindowInv'
  <2>1. CASE NumberAnew(c) /\ ~Buffered(c)
    BY <1>2, <2>1, Anew DEF Receive, sockVars
  <2>2. CASE got' = [got EXCEPT ![c] = got[c] + 1] /\ UNCHANGED <<taken, echo, short>>
    <3>1. \A d \in Clients : Len(echo[d]) \in Nat /\ got[d] \in Nat
      BY DEF DataTypeOK
    <3> QED  BY <1>2, <2>2, <3>1 DEF DataTypeOK, Receive, WindowInv
  <2> QED  BY <1>2, <2>1, <2>2 DEF Receive
<1>3. CASE WriteAll
  <2>1. PICK c \in Clients, n \in Nat : Written(c, n)  BY <1>3, Writing
  <2>2. \A d \in Clients : Len(echo[d]) \in Nat /\ got[d] \in Nat
    BY DEF DataTypeOK
  <2>3. got' = got  BY <1>3 DEF WriteAll, clientVars
  <2>4. Len(echo'[c]) = Len(echo[c]) + n /\ n <= Room - (Len(echo[c]) - got[c])
    BY <2>1 DEF Written
  <2>5. Len(echo'[c]) - got'[c] \in 0 .. Room
    <3>1. Len(echo[c]) - got[c] \in 0 .. Room /\ Room \in Nat
      BY EchoAssumption DEF WindowInv
    <3> QED  BY <2>2, <2>3, <2>4, <3>1
  <2> QED  BY <2>1, <2>3, <2>5 DEF WindowInv, Written
<1>4. CASE WriteSome
  <2>1. PICK c \in Clients, n \in Nat : Written(c, n)  BY <1>4, Writing
  <2>2. \A d \in Clients : Len(echo[d]) \in Nat /\ got[d] \in Nat
    BY DEF DataTypeOK
  <2>3. got' = got  BY <1>4 DEF WriteSome, clientVars
  <2>4. Len(echo'[c]) = Len(echo[c]) + n /\ n <= Room - (Len(echo[c]) - got[c])
    BY <2>1 DEF Written
  <2>5. Len(echo'[c]) - got'[c] \in 0 .. Room
    <3>1. Len(echo[c]) - got[c] \in 0 .. Room /\ Room \in Nat
      BY EchoAssumption DEF WindowInv
    <3> QED  BY <2>2, <2>3, <2>4, <3>1
  <2> QED  BY <2>1, <2>3, <2>5 DEF WindowInv, Written
<1>5. ASSUME NEW c \in Clients, Connect(c)  PROVE WindowInv'
  BY <1>5, Anew, BufferedOpen DEF Connect
<1> QED
  BY <1>1, <1>2, <1>3, <1>4, <1>5, NextCases DEF Send, Activate, Finish, Reset,
     Abort, Without, StartLevel, StartEdge, Exit, WaitLevel, WaitEdge, Dispatch,
     AcceptHead, AcceptError, AcceptedAll, RegisterOne, Register, CloseFd,
     RegisterAll, ReadBytes, ReadEnd, ReadAll, BrokenPipe, vars, serverVars,
     sockVars, clientVars, histVars

\* The queue of a pending blocking accept is empty only after an abort.
LEMMA AcceptStep == ASSUME IInv, TypeOK', [Next]_vars  PROVE AcceptInv'
<1> USE EchoAssumption DEF IInv, TypeOK
<1>1. CASE UNCHANGED <<et, batch, pc, queue, phase>>
  BY <1>1 DEF AcceptInv
<1>2. ASSUME NEW c \in Clients, Connect(c)  PROVE AcceptInv'
  <2>1. Len(queue') = Len(queue) + 1 /\ Len(queue) \in Nat
    BY <1>2 DEF Connect, SocketTypeOK
  <2> QED  BY <2>1 DEF AcceptInv
<1>3. ASSUME NEW c \in Clients, Abort(c)  PROVE AcceptInv'
  BY <1>3 DEF LoopTypeOK, SocketTypeOK, SocketInv, LoopInv, AcceptInv, Abort,
     Without, Running, Gone, serverVars, sockVars, clientVars, histVars
<1>4. CASE StartLevel
  BY <1>4 DEF LoopTypeOK, SocketTypeOK, SocketInv, LoopInv, AcceptInv, StartLevel,
     serverVars, sockVars, clientVars, histVars
<1>5. CASE StartEdge
  BY <1>5 DEF LoopTypeOK, SocketTypeOK, SocketInv, LoopInv, AcceptInv, StartEdge,
     serverVars, sockVars, clientVars, histVars
<1>6. CASE Exit
  BY <1>6 DEF LoopTypeOK, SocketTypeOK, SocketInv, LoopInv, AcceptInv, Exit,
     serverVars, sockVars, clientVars, histVars
<1>7. CASE WaitLevel
  BY <1>7 DEF LoopTypeOK, SocketTypeOK, SocketInv, LoopInv, AcceptInv, WaitLevel,
     Ready, serverVars, sockVars, clientVars, histVars
<1>8. CASE WaitEdge
  BY <1>8 DEF LoopTypeOK, SocketTypeOK, SocketInv, LoopInv, AcceptInv, WaitEdge,
     Ready, serverVars, sockVars, clientVars, histVars
<1>9. CASE Dispatch
  BY <1>9 DEF LoopTypeOK, SocketTypeOK, SocketInv, LoopInv, AcceptInv, Dispatch,
     serverVars, sockVars, clientVars, histVars
<1>10. CASE AcceptHead
  BY <1>10 DEF LoopTypeOK, SocketTypeOK, SocketInv, LoopInv, AcceptInv, AcceptHead,
     FreeFds, serverVars, sockVars, clientVars, histVars
<1>11. CASE AcceptError
  BY <1>11 DEF LoopTypeOK, SocketTypeOK, SocketInv, LoopInv, AcceptInv, AcceptError,
     serverVars, sockVars, clientVars, histVars
<1>12. CASE AcceptedAll
  BY <1>12 DEF LoopTypeOK, SocketTypeOK, SocketInv, LoopInv, AcceptInv, AcceptedAll,
     serverVars, sockVars, clientVars, histVars
<1>13. CASE RegisterOne
  BY <1>13 DEF LoopTypeOK, SocketTypeOK, SocketInv, LoopInv, AcceptInv, RegisterOne,
     Register, CloseFd, serverVars, sockVars, clientVars, histVars
<1>14. CASE RegisterAll
  BY <1>14 DEF LoopTypeOK, SocketTypeOK, SocketInv, LoopInv, AcceptInv, RegisterAll,
     Register, CloseFd, serverVars, sockVars, clientVars, histVars
<1>15. CASE ReadBytes
  BY <1>15 DEF LoopTypeOK, SocketTypeOK, SocketInv, LoopInv, AcceptInv, ReadBytes,
     Smaller, serverVars, sockVars, clientVars, histVars
<1>16. CASE ReadEnd
  BY <1>16 DEF LoopTypeOK, SocketTypeOK, SocketInv, LoopInv, AcceptInv, ReadEnd,
     CloseFd, serverVars, sockVars, clientVars, histVars
<1>17. CASE ReadAll
  BY <1>17 DEF LoopTypeOK, SocketTypeOK, SocketInv, LoopInv, AcceptInv, ReadAll,
     serverVars, sockVars, clientVars, histVars
<1>18. CASE WriteAll
  BY <1>18 DEF LoopTypeOK, SocketTypeOK, SocketInv, LoopInv, AcceptInv, WriteAll,
     Smaller, Space, Put, serverVars, sockVars, clientVars, histVars
<1>19. CASE WriteSome
  BY <1>19 DEF LoopTypeOK, SocketTypeOK, SocketInv, LoopInv, AcceptInv, WriteSome,
     Smaller, Space, Put, serverVars, sockVars, clientVars, histVars
<1>20. CASE BrokenPipe
  BY <1>20 DEF LoopTypeOK, SocketTypeOK, SocketInv, LoopInv, AcceptInv, BrokenPipe,
     serverVars, sockVars, clientVars, histVars
<1> QED
  BY <1>1, <1>2, <1>3, <1>4, <1>5, <1>6, <1>7, <1>8, <1>9, <1>10, <1>11, <1>12,
     <1>13, <1>14, <1>15, <1>16, <1>17, <1>18, <1>19, <1>20, NextCases DEF Send,
     Activate, Finish, Reset, Receive, vars, serverVars, sockVars, clientVars,
     histVars

\* The buffer holds the last bytes read, in their order.
LEMMA BufferStep == ASSUME IInv, TypeOK', [Next]_vars  PROVE BufferInv'
<1> USE EchoAssumption DEF IInv, TypeOK
<1>1. CASE UNCHANGED <<pc, fdt, cur, taken, buf, echo, short>>
  BY <1>1 DEF BufferInv
<1>2. CASE StartLevel
  BY <1>2 DEF LoopTypeOK, SocketTypeOK, DataTypeOK, SocketInv, LoopInv, BufferInv,
     EchoIsFaithful, StartLevel, serverVars, sockVars, clientVars, histVars
<1>3. CASE StartEdge
  BY <1>3 DEF LoopTypeOK, SocketTypeOK, DataTypeOK, SocketInv, LoopInv, BufferInv,
     EchoIsFaithful, StartEdge, serverVars, sockVars, clientVars, histVars
<1>4. CASE Exit
  BY <1>4 DEF LoopTypeOK, SocketTypeOK, DataTypeOK, SocketInv, LoopInv, BufferInv,
     EchoIsFaithful, Exit, serverVars, sockVars, clientVars, histVars
<1>5. CASE WaitLevel
  BY <1>5 DEF LoopTypeOK, SocketTypeOK, DataTypeOK, SocketInv, LoopInv, BufferInv,
     EchoIsFaithful, WaitLevel, Ready, serverVars, sockVars, clientVars, histVars
<1>6. CASE WaitEdge
  BY <1>6 DEF LoopTypeOK, SocketTypeOK, DataTypeOK, SocketInv, LoopInv, BufferInv,
     EchoIsFaithful, WaitEdge, Ready, serverVars, sockVars, clientVars, histVars
<1>7. CASE Dispatch
  BY <1>7 DEF LoopTypeOK, SocketTypeOK, DataTypeOK, SocketInv, LoopInv, BufferInv,
     EchoIsFaithful, Dispatch, serverVars, sockVars, clientVars, histVars
<1>8. CASE AcceptHead
  BY <1>8 DEF LoopTypeOK, SocketTypeOK, DataTypeOK, SocketInv, LoopInv, BufferInv,
     EchoIsFaithful, AcceptHead, FreeFds, serverVars, sockVars, clientVars, histVars
<1>9. CASE AcceptError
  BY <1>9 DEF LoopTypeOK, SocketTypeOK, DataTypeOK, SocketInv, LoopInv, BufferInv,
     EchoIsFaithful, AcceptError, serverVars, sockVars, clientVars, histVars
<1>10. CASE AcceptedAll
  BY <1>10 DEF LoopTypeOK, SocketTypeOK, DataTypeOK, SocketInv, LoopInv, BufferInv,
     EchoIsFaithful, AcceptedAll, serverVars, sockVars, clientVars, histVars
<1>11. CASE RegisterOne
  BY <1>11 DEF LoopTypeOK, SocketTypeOK, DataTypeOK, SocketInv, LoopInv, BufferInv,
     EchoIsFaithful, RegisterOne, Register, CloseFd, serverVars, sockVars,
     clientVars, histVars
<1>12. CASE RegisterAll
  BY <1>12 DEF LoopTypeOK, SocketTypeOK, DataTypeOK, SocketInv, LoopInv, BufferInv,
     EchoIsFaithful, RegisterAll, Register, CloseFd, serverVars, sockVars,
     clientVars, histVars
<1>13. CASE ReadBytes
  <2>1. PICK c \in Clients, n \in Nat :
           /\ c = fdt[cur] /\ n <= inbox[c]
           /\ inbox' = [inbox EXCEPT ![c] = inbox[c] - n]
           /\ taken' = [taken EXCEPT ![c] = taken[c] + n]
           /\ buf' \in Seq(Bytes) /\ Len(buf') = n
           /\ FromOn(c, buf', taken[c])
    BY <1>13, Reading
  <2>2. /\ fdt' = fdt /\ cur' = cur /\ echo' = echo /\ short' = short
        /\ pc = "read" /\ pc' = "write"
    BY <1>13 DEF ReadBytes, sockVars, histVars
  <2>3. taken[c] \in Nat /\ taken'[c] = taken[c] + n  BY <2>1 DEF DataTypeOK
  <2>4. taken'[c] - Len(buf') = taken[c]  BY <2>1, <2>3
  <2>5. InOrder(c, echo[c], taken[c]) /\ (c \notin short => Len(echo[c]) = taken[c])
    BY <2>1, <2>2 DEF EchoIsFaithful, Buffered
  <2> QED  BY <2>1, <2>2, <2>3, <2>4, <2>5 DEF BufferInv
<1>14. CASE ReadEnd
  BY <1>14 DEF LoopTypeOK, SocketTypeOK, DataTypeOK, SocketInv, LoopInv, BufferInv,
     EchoIsFaithful, ReadEnd, CloseFd, serverVars, sockVars, clientVars, histVars
<1>15. CASE ReadAll
  BY <1>15 DEF LoopTypeOK, SocketTypeOK, DataTypeOK, SocketInv, LoopInv, BufferInv,
     EchoIsFaithful, ReadAll, serverVars, sockVars, clientVars, histVars
<1>16. CASE WriteAll
  <2>1. PICK c \in Clients, n \in Nat : Written(c, n)  BY <1>16, Writing
  <2>2. /\ fdt' = fdt /\ taken' = taken /\ short' = short
        /\ pc' \in {"loop", "write"} /\ (pc' = "write" => cur' = cur)
    BY <1>16, <2>1 DEF WriteAll, sockVars, histVars, Written
  <2>3. Len(buf) \in Nat /\ taken[c] \in Nat /\ taken[c] - Len(buf) \in Nat
    BY <2>1 DEF DataTypeOK, Written
  <2>4. taken[c] - Len(buf') = (taken[c] - Len(buf)) + n /\ (taken[c] - Len(buf)) + n \in Nat
    <3>1. Len(buf') = Len(buf) - n  BY <1>16, <2>1 DEF Written
    <3> QED  BY <2>3, <3>1
  <2>5. c \notin short => Len(echo'[c]) = taken[c] - Len(buf')
    BY <2>1, <2>3, <2>4 DEF Written
  <2> QED  BY <1>16, <2>1, <2>2, <2>4, <2>5 DEF BufferInv, Written
<1>17. CASE WriteSome
  BY <1>17 DEF LoopTypeOK, SocketTypeOK, DataTypeOK, SocketInv, LoopInv, BufferInv,
     EchoIsFaithful, WriteSome, Smaller, Space, Put, serverVars, sockVars,
     clientVars, histVars
<1>18. CASE BrokenPipe
  BY <1>18 DEF LoopTypeOK, SocketTypeOK, DataTypeOK, SocketInv, LoopInv, BufferInv,
     EchoIsFaithful, BrokenPipe, serverVars, sockVars, clientVars, histVars
<1>19. ASSUME NEW c \in Clients, Connect(c)  PROVE BufferInv'
  BY <1>19, Anew, BufferedOpen DEF Connect
<1>20. ASSUME NEW c \in Clients, Receive(c)  PROVE BufferInv'
  <2>1. CASE NumberAnew(c) /\ ~Buffered(c)
    BY <1>20, <2>1, Anew DEF Receive, sockVars
  <2>2. CASE UNCHANGED <<taken, echo, short>>
    BY <1>1, <1>20, <2>2 DEF Receive, sockVars
  <2> QED  BY <1>20, <2>1, <2>2 DEF Receive
<1> QED
  BY <1>1, <1>2, <1>3, <1>4, <1>5, <1>6, <1>7, <1>8, <1>9, <1>10, <1>11, <1>12,
     <1>13, <1>14, <1>15, <1>16, <1>17, <1>18, <1>19, <1>20, NextCases
  DEF Send, Activate,
     Finish, Reset, Abort, Without, vars, serverVars, sockVars, clientVars,
     histVars

\* What is written stays faithful.
LEMMA EchoStep == ASSUME IInv, TypeOK', BufferInv', [Next]_vars  PROVE EchoIsFaithful'
<1> USE EchoAssumption DEF IInv, TypeOK
<1>1. CASE UNCHANGED <<pc, fdt, cur, taken, echo, short>>
  BY <1>1 DEF EchoIsFaithful, Buffered
<1>2. CASE StartLevel
  BY <1>2 DEF LoopTypeOK, SocketTypeOK, DataTypeOK, SocketInv, LoopInv, BufferInv,
     EchoIsFaithful, Buffered, StartLevel, serverVars, sockVars, clientVars, histVars
<1>3. CASE StartEdge
  BY <1>3 DEF LoopTypeOK, SocketTypeOK, DataTypeOK, SocketInv, LoopInv, BufferInv,
     EchoIsFaithful, Buffered, StartEdge, serverVars, sockVars, clientVars, histVars
<1>4. CASE Exit
  BY <1>4 DEF LoopTypeOK, SocketTypeOK, DataTypeOK, SocketInv, LoopInv, BufferInv,
     EchoIsFaithful, Buffered, Exit, serverVars, sockVars, clientVars, histVars
<1>5. CASE WaitLevel
  BY <1>5 DEF LoopTypeOK, SocketTypeOK, DataTypeOK, SocketInv, LoopInv, BufferInv,
     EchoIsFaithful, Buffered, WaitLevel, Ready, serverVars, sockVars, clientVars, histVars
<1>6. CASE WaitEdge
  BY <1>6 DEF LoopTypeOK, SocketTypeOK, DataTypeOK, SocketInv, LoopInv, BufferInv,
     EchoIsFaithful, Buffered, WaitEdge, Ready, serverVars, sockVars, clientVars, histVars
<1>7. CASE Dispatch
  BY <1>7 DEF LoopTypeOK, SocketTypeOK, DataTypeOK, SocketInv, LoopInv, BufferInv,
     EchoIsFaithful, Buffered, Dispatch, serverVars, sockVars, clientVars, histVars
<1>8. CASE AcceptHead
  BY <1>8 DEF LoopTypeOK, SocketTypeOK, DataTypeOK, SocketInv, LoopInv, BufferInv,
     EchoIsFaithful, Buffered, AcceptHead, FreeFds, serverVars, sockVars, clientVars, histVars
<1>9. CASE AcceptError
  BY <1>9 DEF LoopTypeOK, SocketTypeOK, DataTypeOK, SocketInv, LoopInv, BufferInv,
     EchoIsFaithful, Buffered, AcceptError, serverVars, sockVars, clientVars, histVars
<1>10. CASE AcceptedAll
  BY <1>10 DEF LoopTypeOK, SocketTypeOK, DataTypeOK, SocketInv, LoopInv, BufferInv,
     EchoIsFaithful, Buffered, AcceptedAll, serverVars, sockVars, clientVars, histVars
<1>11. CASE RegisterOne
  BY <1>11 DEF LoopTypeOK, SocketTypeOK, DataTypeOK, SocketInv, LoopInv, BufferInv,
     EchoIsFaithful, Buffered, RegisterOne, Register, CloseFd, serverVars, sockVars,
     clientVars, histVars
<1>12. CASE RegisterAll
  BY <1>12 DEF LoopTypeOK, SocketTypeOK, DataTypeOK, SocketInv, LoopInv, BufferInv,
     EchoIsFaithful, Buffered, RegisterAll, Register, CloseFd, serverVars, sockVars,
     clientVars, histVars
<1>13. CASE ReadBytes
  <2>1. PICK c \in Clients, n \in Nat :
           /\ c = fdt[cur] /\ n <= inbox[c]
           /\ inbox' = [inbox EXCEPT ![c] = inbox[c] - n]
           /\ taken' = [taken EXCEPT ![c] = taken[c] + n]
           /\ buf' \in Seq(Bytes) /\ Len(buf') = n
           /\ FromOn(c, buf', taken[c])
    BY <1>13, Reading
  <2>2. \A d \in Clients : /\ taken[d] \in Nat /\ taken'[d] \in Nat /\ taken[d] <= taken'[d]
                           /\ d # c => taken'[d] = taken[d]
    BY <2>1 DEF DataTypeOK
  <2>3. \A d \in Clients : echo[d] \in Seq(Bytes)  BY DEF DataTypeOK
  <2>4. \A d \in Clients : InOrder(d, echo[d], taken'[d])
    BY <2>2, <2>3, StillInOrder DEF EchoIsFaithful, Buffered
  <2> QED  BY <1>13, <2>1, <2>2, <2>4 DEF EchoIsFaithful, Buffered, ReadBytes, sockVars, histVars
<1>14. CASE ReadEnd
  BY <1>14 DEF LoopTypeOK, SocketTypeOK, DataTypeOK, SocketInv, LoopInv, BufferInv,
     EchoIsFaithful, Buffered, ReadEnd, CloseFd, serverVars, sockVars, clientVars, histVars
<1>15. CASE ReadAll
  BY <1>15 DEF LoopTypeOK, SocketTypeOK, DataTypeOK, SocketInv, LoopInv, BufferInv,
     EchoIsFaithful, Buffered, ReadAll, serverVars, sockVars, clientVars, histVars
<1>16. CASE WriteAll
  <2>1. PICK c \in Clients, n \in Nat : Written(c, n)  BY <1>16, Writing
  <2>2. /\ fdt' = fdt /\ taken' = taken /\ pc = "write"
        /\ c \notin short' => c \notin short
        /\ \A d \in Clients \ {c} : d \in short' <=> d \in short
    BY <1>16, <2>1 DEF WriteAll, WriteSome, sockVars, histVars, LoopTypeOK, Written
  <2>3. Len(buf) \in Nat /\ taken[c] \in Nat /\ taken[c] - Len(buf) \in Nat
        /\ echo'[c] \in Seq(Bytes)
    BY <2>1 DEF DataTypeOK, Written
  <2>4. InOrder(c, echo'[c], taken[c])
    <3>1. (taken[c] - Len(buf)) + n \in Nat /\ (taken[c] - Len(buf)) + n <= taken[c]
      BY <2>1, <2>3 DEF Written
    <3> QED  BY <2>1, <2>3, <3>1, StillInOrder DEF Written
  <2>5. c \notin short' => /\ FromOn(c, echo'[c], 0)
                           /\ Len(echo'[c]) = taken[c] \/ (pc' = "write" /\ cur' = cur)
    BY <1>16, <2>1, <2>2, <2>3 DEF Written, WriteAll, WriteSome
  <2>6. ASSUME NEW d \in Clients \ {c}
        PROVE  /\ InOrder(d, echo'[d], taken[d])
               /\ d \notin short' => FromOn(d, echo'[d], 0) /\ Len(echo'[d]) = taken[d]
    BY <2>1, <2>2 DEF Written, EchoIsFaithful, Buffered
  <2> QED  BY <2>1, <2>2, <2>4, <2>5, <2>6 DEF EchoIsFaithful, Buffered, Written
<1>17. CASE WriteSome
  <2>1. PICK c \in Clients, n \in Nat : Written(c, n)  BY <1>17, Writing
  <2>2. /\ fdt' = fdt /\ taken' = taken /\ pc = "write"
        /\ c \notin short' => c \notin short
        /\ \A d \in Clients \ {c} : d \in short' <=> d \in short
    BY <1>17, <2>1 DEF WriteAll, WriteSome, sockVars, histVars, LoopTypeOK, Written
  <2>3. Len(buf) \in Nat /\ taken[c] \in Nat /\ taken[c] - Len(buf) \in Nat
        /\ echo'[c] \in Seq(Bytes)
    BY <2>1 DEF DataTypeOK, Written
  <2>4. InOrder(c, echo'[c], taken[c])
    <3>1. (taken[c] - Len(buf)) + n \in Nat /\ (taken[c] - Len(buf)) + n <= taken[c]
      BY <2>1, <2>3 DEF Written
    <3> QED  BY <2>1, <2>3, <3>1, StillInOrder DEF Written
  <2>5. c \notin short' => /\ FromOn(c, echo'[c], 0)
                           /\ Len(echo'[c]) = taken[c] \/ (pc' = "write" /\ cur' = cur)
    BY <1>17, <2>1, <2>2, <2>3 DEF Written, WriteAll, WriteSome
  <2>6. ASSUME NEW d \in Clients \ {c}
        PROVE  /\ InOrder(d, echo'[d], taken[d])
               /\ d \notin short' => FromOn(d, echo'[d], 0) /\ Len(echo'[d]) = taken[d]
    BY <2>1, <2>2 DEF Written, EchoIsFaithful, Buffered
  <2> QED  BY <2>1, <2>2, <2>4, <2>5, <2>6 DEF EchoIsFaithful, Buffered, Written
<1>18. CASE BrokenPipe
  BY <1>18 DEF LoopTypeOK, SocketTypeOK, DataTypeOK, SocketInv, LoopInv, BufferInv,
     EchoIsFaithful, Buffered, BrokenPipe, serverVars, sockVars, clientVars, histVars
<1>19. ASSUME NEW c \in Clients, Connect(c)  PROVE EchoIsFaithful'
  BY <1>19, Anew, BufferedOpen DEF Connect
<1>20. ASSUME NEW c \in Clients, Receive(c)  PROVE EchoIsFaithful'
  <2>1. CASE NumberAnew(c) /\ ~Buffered(c)
    BY <1>20, <2>1, Anew DEF Receive, sockVars
  <2>2. CASE UNCHANGED <<taken, echo, short>>
    BY <1>1, <1>20, <2>2 DEF Receive, sockVars
  <2> QED  BY <1>20, <2>1, <2>2 DEF Receive
<1> QED
  BY <1>1, <1>2, <1>3, <1>4, <1>5, <1>6, <1>7, <1>8, <1>9, <1>10, <1>11, <1>12,
     <1>13, <1>14, <1>15, <1>16, <1>17, <1>18, <1>19, <1>20, NextCases
  DEF Send, Activate,
     Finish, Reset, Abort, Without, vars, serverVars, sockVars, clientVars,
     histVars

\* Nothing is forgotten.
LEMMA ForgottenStep == ASSUME IInv, TypeOK', LoopInv', [Next]_vars  PROVE NothingForgotten'
<1> USE EchoAssumption DEF IInv, TypeOK
<1>1. CASE UNCHANGED <<et, pc, batch, cur, fdt, interest, fired, queue, end, inbox, refused>>
  BY <1>1 DEF NothingForgotten, Ready, Serving, Running, Gone
<1>2. ASSUME NEW c \in Clients, Connect(c)  PROVE NothingForgotten'
  <2>1. /\ UNCHANGED <<et, pc, batch, cur, refused, fdt, interest, inbox>>
        /\ end' = [end EXCEPT ![c] = "no"]
        /\ fired' = IF et THEN fired \cup {Listen} ELSE fired
    BY <1>2 DEF Connect
  <2>2. interest \subseteq Fds /\ Listen \notin Fds  BY DEF LoopTypeOK
  <2>3. \A f \in interest : Ready(f)' => Ready(f)
    BY <2>1, <2>2 DEF Ready, SocketTypeOK
  <2> QED  BY <2>1, <2>2, <2>3 DEF NothingForgotten, Running, Gone, Serving
<1>3. ASSUME NEW c \in Clients, Send(c)  PROVE NothingForgotten'
  BY <1>3 DEF LoopTypeOK, SocketTypeOK, DataTypeOK, SocketInv, LoopInv,
     NothingForgotten, Ready, Serving, Running, Gone, Send, Activate, Running, Gone,
     serverVars, sockVars, clientVars, histVars
<1>4. ASSUME NEW c \in Clients, Finish(c)  PROVE NothingForgotten'
  BY <1>4 DEF LoopTypeOK, SocketTypeOK, DataTypeOK, SocketInv, LoopInv,
     NothingForgotten, Ready, Serving, Running, Gone, Finish, Activate, Running,
     Gone, serverVars, sockVars, clientVars, histVars
<1>5. ASSUME NEW c \in Clients, Reset(c)  PROVE NothingForgotten'
  <2>1. /\ UNCHANGED <<et, pc, batch, cur, refused>> /\ UNCHANGED <<fdt, interest, queue>>
    BY <1>5 DEF Reset, serverVars, histVars
  <2>2. /\ end' = [end EXCEPT ![c] = "rst"]
        /\ \A d \in Clients : inbox'[d] > 0 => inbox[d] > 0
        /\ fired' = IF et THEN fired \cup {f \in interest : fdt[f] = c} ELSE fired
    <3>1. CASE inbox' = inbox  BY <1>5, <3>1 DEF Reset, Activate
    <3>2. CASE inbox' = [inbox EXCEPT ![c] = 0]
      BY <1>5, <3>2 DEF Reset, Activate, DataTypeOK
    <3> QED  BY <1>5, <3>1, <3>2 DEF Reset
  <2>3. \A f \in interest : fdt[f] \in Clients
    BY DEF LoopInv, LoopTypeOK, SocketTypeOK
  <2> QED
    BY <2>1, <2>2, <2>3 DEF NothingForgotten, Running, Gone, Ready, Serving,
       SocketTypeOK, LoopTypeOK
<1>6. ASSUME NEW c \in Clients, Abort(c)  PROVE NothingForgotten'
  <2>1. /\ UNCHANGED <<et, pc, batch, cur, refused>>
        /\ UNCHANGED <<fdt, interest, fired, end, inbox>>
    BY <1>6 DEF Abort, serverVars, histVars
  <2>2. queue' # <<>> => queue # <<>>
    <3>1. CASE UNCHANGED queue  BY <3>1
    <3>2. ASSUME NEW i \in DOMAIN queue, queue' = Without(queue, i)
          PROVE  queue # <<>>
      BY DEF SocketTypeOK
    <3> QED  BY <1>6, <3>1, <3>2 DEF Abort
  <2> QED  BY <2>1, <2>2 DEF NothingForgotten, Running, Gone, Ready, Serving
<1>7. CASE StartLevel
  BY <1>7 DEF LoopTypeOK, SocketTypeOK, DataTypeOK, SocketInv, LoopInv,
     NothingForgotten, Ready, Serving, Running, Gone, StartLevel, serverVars,
     sockVars, clientVars, histVars
<1>8. CASE StartEdge
  BY <1>8 DEF LoopTypeOK, SocketTypeOK, DataTypeOK, SocketInv, LoopInv,
     NothingForgotten, Ready, Serving, Running, Gone, StartEdge, serverVars,
     sockVars, clientVars, histVars
<1>9. CASE Exit
  BY <1>9 DEF LoopTypeOK, SocketTypeOK, DataTypeOK, SocketInv, LoopInv,
     NothingForgotten, Ready, Serving, Running, Gone, Exit, serverVars, sockVars,
     clientVars, histVars
<1>10. CASE WaitLevel
  BY <1>10 DEF LoopTypeOK, SocketTypeOK, DataTypeOK, SocketInv, LoopInv,
     NothingForgotten, Ready, Serving, Running, Gone, WaitLevel, Ready, serverVars,
     sockVars, clientVars, histVars
<1>11. CASE WaitEdge
  BY <1>11 DEF LoopTypeOK, SocketTypeOK, DataTypeOK, SocketInv, LoopInv,
     NothingForgotten, Ready, Serving, Running, Gone, WaitEdge, Ready, serverVars,
     sockVars, clientVars, histVars
<1>12. CASE Dispatch
  BY <1>12 DEF LoopTypeOK, SocketTypeOK, DataTypeOK, SocketInv, LoopInv,
     NothingForgotten, Ready, Serving, Running, Gone, Dispatch, serverVars, sockVars,
     clientVars, histVars
<1>13. CASE AcceptHead
  <2>1. PICK f \in FreeFds : cur' = f /\ fdt' = [fdt EXCEPT ![f] = Head(queue)]
    BY <1>13 DEF AcceptHead
  <2>2. /\ pc = "accept" /\ pc' = "register"
        /\ UNCHANGED <<et, batch, interest, fired, end, inbox>>
    BY <1>13 DEF AcceptHead
  <2>3. f \in Fds /\ f \notin interest /\ cur = None
    BY <2>1, <2>2 DEF FreeFds, LoopInv
  <2>4. \A g \in Fds \ {f} : fdt'[g] = fdt[g]
    BY <2>1 DEF SocketTypeOK
  <2>5. \A g \in interest : Ready(g)' <=> Ready(g)
    BY <2>2, <2>3, <2>4, EchoAssumption DEF Ready, LoopTypeOK
  <2> QED
    BY <2>1, <2>2, <2>3, <2>4, <2>5 DEF NothingForgotten, Running, Gone, Serving, LoopTypeOK
<1>14. CASE AcceptError
  BY <1>14 DEF LoopTypeOK, SocketTypeOK, DataTypeOK, SocketInv, LoopInv,
     NothingForgotten, Ready, Serving, Running, Gone, AcceptError, serverVars,
     sockVars, clientVars, histVars
<1>15. CASE AcceptedAll
  BY <1>15 DEF LoopTypeOK, SocketTypeOK, DataTypeOK, SocketInv, LoopInv,
     NothingForgotten, Ready, Serving, Running, Gone, AcceptedAll, serverVars,
     sockVars, clientVars, histVars
<1>16. CASE RegisterOne
  BY <1>16 DEF LoopTypeOK, SocketTypeOK, DataTypeOK, SocketInv, LoopInv,
     NothingForgotten, Ready, Serving, Running, Gone, RegisterOne, Register, CloseFd,
     serverVars, sockVars, clientVars, histVars
<1>17. CASE RegisterAll
  <2>1. cur \in Fds /\ fdt[cur] \in Clients /\ pc = "register"
    BY <1>17, InHand DEF RegisterAll, Register
  <2>2. pc' = "accept" /\ cur' = None /\ UNCHANGED <<et, batch, queue, end, refused>>
    BY <1>17 DEF RegisterAll, Register, CloseFd, clientVars, histVars
  <2>3. CASE /\ interest' = interest \cup {cur} /\ UNCHANGED <<fdt, inbox>>
             /\ fired' = IF et /\ (inbox[fdt[cur]] > 0 \/ end[fdt[cur]] # "no")
                         THEN fired \cup {cur} ELSE fired
    BY <2>1, <2>2, <2>3, EchoAssumption DEF NothingForgotten, Running, Gone, Ready, Serving
  <2>4. CASE CloseFd(cur)
    <3>1. \A f \in Fds \ {cur} : /\ fdt'[f] = fdt[f]
                                 /\ fdt[f] # None => inbox'[fdt[f]] = inbox[fdt[f]]
      BY <2>1, <2>4 DEF CloseFd, SocketInv, SocketTypeOK, DataTypeOK
    <3>2. interest' = interest \ {cur} /\ fired' = fired \ {cur} /\ fdt'[cur] = None
      BY <2>1, <2>4 DEF CloseFd, SocketTypeOK
    <3>3. \A f \in interest' : f \in Fds \ {cur} /\ fdt[f] # None
      BY <3>2 DEF LoopTypeOK, LoopInv
    <3>4. \A f \in interest' : Ready(f)' <=> Ready(f)
      BY <2>2, <3>1, <3>2, <3>3, EchoAssumption DEF Ready
    <3> QED
      BY <2>1, <2>2, <3>1, <3>2, <3>3, <3>4 DEF NothingForgotten, Running, Gone, Serving
  <2> QED  BY <1>17, <2>3, <2>4 DEF RegisterAll, Register, clientVars
<1>18. CASE ReadBytes
  BY <1>18 DEF LoopTypeOK, SocketTypeOK, DataTypeOK, SocketInv, LoopInv,
     NothingForgotten, Ready, Serving, Running, Gone, ReadBytes, Smaller, serverVars,
     sockVars, clientVars, histVars
<1>19. CASE ReadEnd
  BY <1>19 DEF LoopTypeOK, SocketTypeOK, DataTypeOK, SocketInv, LoopInv,
     NothingForgotten, Ready, Serving, Running, Gone, ReadEnd, CloseFd, serverVars,
     sockVars, clientVars, histVars
<1>20. CASE ReadAll
  BY <1>20 DEF LoopTypeOK, SocketTypeOK, DataTypeOK, SocketInv, LoopInv,
     NothingForgotten, Ready, Serving, Running, Gone, ReadAll, serverVars, sockVars,
     clientVars, histVars
<1>21. CASE WriteAll
  BY <1>21 DEF LoopTypeOK, SocketTypeOK, DataTypeOK, SocketInv, LoopInv,
     NothingForgotten, Ready, Serving, Running, Gone, WriteAll, Smaller, Space, Put,
     serverVars, sockVars, clientVars, histVars
<1>22. CASE WriteSome
  BY <1>22 DEF LoopTypeOK, SocketTypeOK, DataTypeOK, SocketInv, LoopInv,
     NothingForgotten, Ready, Serving, Running, Gone, WriteSome, Smaller, Space, Put,
     serverVars, sockVars, clientVars, histVars
<1>23. CASE BrokenPipe
  BY <1>23 DEF LoopTypeOK, SocketTypeOK, DataTypeOK, SocketInv, LoopInv,
     NothingForgotten, Ready, Serving, Running, Gone, BrokenPipe, serverVars,
     sockVars, clientVars, histVars
<1> QED
  BY <1>1, <1>2, <1>3, <1>4, <1>5, <1>6, <1>7, <1>8, <1>9, <1>10, <1>11, <1>12,
     <1>13, <1>14, <1>15, <1>16, <1>17, <1>18, <1>19, <1>20, <1>21, <1>22, <1>23,
     NextCases DEF Receive, vars, serverVars, sockVars, clientVars, histVars

\* Reported events stay true.
LEMMA EventsStep == ASSUME IInv, TypeOK', LoopInv', AcceptInv', [Next]_vars  PROVE EventsStayTrue'
<1> USE EchoAssumption DEF IInv, TypeOK
<1>1. CASE UNCHANGED <<et, pc, batch, cur, fdt, interest, queue, phase, end, inbox>>
  BY <1>1 DEF EventsStayTrue, Ready
<1>2. ASSUME NEW c \in Clients, Connect(c)  PROVE EventsStayTrue'
  <2>1. /\ UNCHANGED <<et, pc, batch, cur, fdt, interest, inbox>>
        /\ end' = [end EXCEPT ![c] = "no"] /\ phase' = [phase EXCEPT ![c] = "queued"]
        /\ queue' = Append(queue, c) /\ phase[c] # "open"
    BY <1>2 DEF Connect
  <2>2. \A f \in interest : f \in Fds /\ fdt[f] \in Clients \ {c}
    BY <2>1 DEF LoopTypeOK, LoopInv, SocketInv, SocketTypeOK
  <2>3. \A f \in interest : Ready(f) => Ready(f)'
    BY <2>1, <2>2, EchoAssumption DEF Ready, SocketTypeOK
  <2>4. batch \ {Listen} \subseteq interest /\ (pc = "read" => cur \in interest)
    BY DEF LoopInv
  <2>5. queue' # <<>>
    <3>1. Len(queue') = Len(queue) + 1 /\ Len(queue) \in Nat  BY <2>1 DEF SocketTypeOK
    <3> QED  BY <3>1
  <2> QED  BY <2>1, <2>3, <2>4, <2>5 DEF EventsStayTrue
<1>3. ASSUME NEW c \in Clients, Send(c)  PROVE EventsStayTrue'
  BY <1>3 DEF LoopTypeOK, SocketTypeOK, DataTypeOK, SocketInv, LoopInv, AcceptInv,
     EventsStayTrue, Ready, Send, Activate, Running, Gone, serverVars, sockVars,
     clientVars, histVars
<1>4. ASSUME NEW c \in Clients, Finish(c)  PROVE EventsStayTrue'
  BY <1>4 DEF LoopTypeOK, SocketTypeOK, DataTypeOK, SocketInv, LoopInv, AcceptInv,
     EventsStayTrue, Ready, Finish, Activate, Running, Gone, serverVars, sockVars,
     clientVars, histVars
<1>5. ASSUME NEW c \in Clients, Reset(c)  PROVE EventsStayTrue'
  BY <1>5 DEF LoopTypeOK, SocketTypeOK, DataTypeOK, SocketInv, LoopInv, AcceptInv,
     EventsStayTrue, Ready, Reset, Activate, Running, Gone, serverVars, sockVars,
     clientVars, histVars
<1>6. ASSUME NEW c \in Clients, Abort(c)  PROVE EventsStayTrue'
  BY <1>6 DEF LoopTypeOK, SocketTypeOK, DataTypeOK, SocketInv, LoopInv, AcceptInv,
     EventsStayTrue, Ready, Abort, Without, Running, Gone, serverVars, sockVars,
     clientVars, histVars
<1>7. CASE StartLevel
  BY <1>7 DEF LoopTypeOK, SocketTypeOK, DataTypeOK, SocketInv, LoopInv, AcceptInv,
     EventsStayTrue, Ready, StartLevel, serverVars, sockVars, clientVars, histVars
<1>8. CASE StartEdge
  BY <1>8 DEF LoopTypeOK, SocketTypeOK, DataTypeOK, SocketInv, LoopInv, AcceptInv,
     EventsStayTrue, Ready, StartEdge, serverVars, sockVars, clientVars, histVars
<1>9. CASE Exit
  BY <1>9 DEF LoopTypeOK, SocketTypeOK, DataTypeOK, SocketInv, LoopInv, AcceptInv,
     EventsStayTrue, Ready, Exit, serverVars, sockVars, clientVars, histVars
<1>10. CASE WaitLevel
  BY <1>10 DEF LoopTypeOK, SocketTypeOK, DataTypeOK, SocketInv, LoopInv, AcceptInv,
     EventsStayTrue, Ready, WaitLevel, Ready, serverVars, sockVars, clientVars,
     histVars
<1>11. CASE WaitEdge
  BY <1>11 DEF LoopTypeOK, SocketTypeOK, DataTypeOK, SocketInv, LoopInv, AcceptInv,
     EventsStayTrue, Ready, WaitEdge, Ready, serverVars, sockVars, clientVars,
     histVars
<1>12. CASE Dispatch
  BY <1>12 DEF LoopTypeOK, SocketTypeOK, DataTypeOK, SocketInv, LoopInv, AcceptInv,
     EventsStayTrue, Ready, Dispatch, serverVars, sockVars, clientVars, histVars
<1>13. CASE AcceptHead
  BY <1>13 DEF LoopTypeOK, SocketTypeOK, DataTypeOK, SocketInv, LoopInv, AcceptInv,
     EventsStayTrue, Ready, AcceptHead, FreeFds, serverVars, sockVars, clientVars,
     histVars
<1>14. CASE AcceptError
  BY <1>14 DEF LoopTypeOK, SocketTypeOK, DataTypeOK, SocketInv, LoopInv, AcceptInv,
     EventsStayTrue, Ready, AcceptError, serverVars, sockVars, clientVars, histVars
<1>15. CASE AcceptedAll
  BY <1>15 DEF LoopTypeOK, SocketTypeOK, DataTypeOK, SocketInv, LoopInv, AcceptInv,
     EventsStayTrue, Ready, AcceptedAll, serverVars, sockVars, clientVars, histVars
<1>16. CASE RegisterOne
  BY <1>16 DEF LoopTypeOK, SocketTypeOK, DataTypeOK, SocketInv, LoopInv, AcceptInv,
     EventsStayTrue, Ready, RegisterOne, Register, CloseFd, serverVars, sockVars,
     clientVars, histVars
<1>17. CASE RegisterAll
  BY <1>17 DEF LoopTypeOK, SocketTypeOK, DataTypeOK, SocketInv, LoopInv, AcceptInv,
     EventsStayTrue, Ready, RegisterAll, Register, CloseFd, serverVars, sockVars,
     clientVars, histVars
<1>18. CASE ReadBytes
  BY <1>18 DEF LoopTypeOK, SocketTypeOK, DataTypeOK, SocketInv, LoopInv, AcceptInv,
     EventsStayTrue, Ready, ReadBytes, Smaller, serverVars, sockVars, clientVars,
     histVars
<1>19. CASE ReadEnd
  BY <1>19 DEF LoopTypeOK, SocketTypeOK, DataTypeOK, SocketInv, LoopInv, AcceptInv,
     EventsStayTrue, Ready, ReadEnd, CloseFd, serverVars, sockVars, clientVars,
     histVars
<1>20. CASE ReadAll
  BY <1>20 DEF LoopTypeOK, SocketTypeOK, DataTypeOK, SocketInv, LoopInv, AcceptInv,
     EventsStayTrue, Ready, ReadAll, serverVars, sockVars, clientVars, histVars
<1>21. CASE WriteAll
  BY <1>21 DEF LoopTypeOK, SocketTypeOK, DataTypeOK, SocketInv, LoopInv, AcceptInv,
     EventsStayTrue, Ready, WriteAll, Smaller, Space, Put, serverVars, sockVars,
     clientVars, histVars
<1>22. CASE WriteSome
  BY <1>22 DEF LoopTypeOK, SocketTypeOK, DataTypeOK, SocketInv, LoopInv, AcceptInv,
     EventsStayTrue, Ready, WriteSome, Smaller, Space, Put, serverVars, sockVars,
     clientVars, histVars
<1>23. CASE BrokenPipe
  BY <1>23 DEF LoopTypeOK, SocketTypeOK, DataTypeOK, SocketInv, LoopInv, AcceptInv,
     EventsStayTrue, Ready, BrokenPipe, serverVars, sockVars, clientVars, histVars
<1> QED
  BY <1>1, <1>2, <1>3, <1>4, <1>5, <1>6, <1>7, <1>8, <1>9, <1>10, <1>11, <1>12,
     <1>13, <1>14, <1>15, <1>16, <1>17, <1>18, <1>19, <1>20, <1>21, <1>22, <1>23,
     NextCases DEF Receive, vars, serverVars, sockVars, clientVars, histVars

\* IInv is inductive.
LEMMA Inductive == ASSUME IInv, [Next]_vars  PROVE IInv'
<1>1. TypeOK'  BY LoopTypeStep, SocketTypeStep, DataTypeStep DEF TypeOK
<1>2. SocketInv' /\ LoopInv' /\ BufferInv' /\ WindowInv' /\ AcceptInv'
  BY <1>1, SocketStep, LoopStep, BufferStep, WindowStep, AcceptStep
<1>3. EchoIsFaithful' /\ NothingForgotten' /\ EventsStayTrue'
  BY <1>1, <1>2, EchoStep, ForgottenStep, EventsStep
<1> QED  BY <1>1, <1>2, <1>3 DEF IInv

-----------------------------------------------------------------------------
\* The inductive invariant holds of both programs, whatever the clients do.
THEOREM Invariance == Spec => []IInv
<1>1. Init => IInv  BY InitInv
<1>2. IInv /\ [Next]_vars => IInv'  BY Inductive
<1> QED  BY <1>1, <1>2, PTL DEF Spec

\* Every variable keeps its type.
THEOREM TypeCorrect == Spec => []TypeOK
<1>1. IInv => TypeOK  BY DEF IInv
<1> QED  BY Invariance, <1>1, PTL

\* A client gets back its own bytes, in order, and all of them unless a write to it
\* was cut short: whatever descriptors are closed and handed out again in between.
THEOREM EchoFaithful == Spec => []EchoIsFaithful
<1>1. IInv => EchoIsFaithful  BY DEF IInv
<1> QED  BY Invariance, <1>1, PTL

\* Reading to the end is enough with events that are told once: no client with
\* something to read is ever forgotten, and no waiting one unless accept failed.
THEOREM NoneForgotten == Spec => []NothingForgotten
<1>1. IInv => NothingForgotten  BY DEF IInv
<1> QED  BY Invariance, <1>1, PTL

\* The blocking read never blocks, the blocking accept only after an abort.
THEOREM EventsTrue == Spec => []EventsStayTrue
<1>1. IInv => EventsStayTrue  BY DEF IInv
<1> QED  BY Invariance, <1>1, PTL
=============================================================================
