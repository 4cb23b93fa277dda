------------------------------- MODULE Buffer -------------------------------
(***************************************************************************)
(* Buffer: a vector of bytes with a read and a write index, filled by      *)
(* readv and emptied by write.  An index is the number of cells before it, *)
(* as in the code; cells of the vector are numbered from 1.                *)
(***************************************************************************)
EXTENDS Integers, Sequences

CONSTANTS
  CheapPrepend,  (* kCheapPrepend                                          *)
  InitialSize,   (* kInitialSize                                           *)
  ExtraSize,     (* sizeof(extrabuf)                                       *)
  MaxArrivals    (* bound: bytes that arrive in all                        *)

ASSUME BufferAssumption ==
  /\ CheapPrepend \in Nat /\ InitialSize \in Nat /\ CheapPrepend <= InitialSize
  /\ ExtraSize \in Nat \ {0} /\ MaxArrivals \in Nat

VARIABLES
  buffer,      (* buffer_; 0 in a cell that was never written              *)
  readIndex,   (* readIndex_                                               *)
  writeIndex,  (* writeIndex_                                              *)
  inbox,       (* in the socket, not read; a byte is its place of arrival  *)
  out,         (* what was written to the socket                           *)
  arrived      (* number of bytes that arrived                             *)

vars == <<buffer, readIndex, writeIndex, inbox, out, arrived>>

readableBytes == writeIndex - readIndex
writableBytes == Len(buffer) - writeIndex

TypeOK ==
  /\ buffer \in Seq(Nat) /\ inbox \in Seq(Nat) /\ out \in Seq(Nat) /\ arrived \in Nat
  /\ readIndex \in CheapPrepend .. writeIndex
  /\ writeIndex \in CheapPrepend .. Len(buffer)

Init == /\ buffer = [i \in 1 .. InitialSize |-> 0]
        /\ readIndex = CheapPrepend /\ writeIndex = CheapPrepend
        /\ inbox = <<>> /\ out = <<>> /\ arrived = 0

-----------------------------------------------------------------------------
Arrive == /\ arrived < MaxArrivals /\ arrived' = arrived + 1
          /\ inbox' = Append(inbox, arrived')
          /\ UNCHANGED <<buffer, readIndex, writeIndex, out>>

\* readv puts the first n bytes of data into the vector, from writeIndex on.
Filled(data, n) ==
  [i \in DOMAIN buffer |-> IF i - writeIndex \in 1 .. n THEN data[i - writeIndex]
                                                        ELSE buffer[i]]

\* What readv delivers: all there is, up to the size of both pieces.
Delivered == LET size == writableBytes + ExtraSize
             IN  IF Len(inbox) < size THEN Len(inbox) ELSE size

\* Mutant of ReadFits: one byte too many is taken to fit.
ReadFitsOffByOne ==
  /\ inbox # <<>> /\ Delivered <= writableBytes + 1
  /\ buffer' = Filled(inbox, Delivered) /\ writeIndex' = writeIndex + Delivered
  /\ inbox' = SubSeq(inbox, Delivered + 1, Len(inbox))
  /\ UNCHANGED <<readIndex, out, arrived>>

\* readFd, when the vector holds everything.
ReadFits ==
  /\ inbox # <<>> /\ Delivered <= writableBytes
  /\ buffer' = Filled(inbox, Delivered) /\ writeIndex' = writeIndex + Delivered
  /\ inbox' = SubSeq(inbox, Delivered + 1, Len(inbox))
  /\ UNCHANGED <<readIndex, out, arrived>>

\* append, with writeIndex_ at index: behind all the cells of the vector, used or
\* not.
AppendAt(cells, index, data) ==
  buffer' = cells \o data /\ writeIndex' = index + Len(data)

\* Mutant of ReadSpills: the write index is not moved to the end first.
ReadSpillsFromIndex ==
  /\ inbox # <<>> /\ Delivered > writableBytes
  /\ AppendAt(Filled(inbox, writableBytes), writeIndex,
              SubSeq(inbox, writableBytes + 1, Delivered))
  /\ inbox' = SubSeq(inbox, Delivered + 1, Len(inbox))
  /\ UNCHANGED <<readIndex, out, arrived>>

\* readFd, when a part went to the stack and is appended to the full vector.
ReadSpills ==
  /\ inbox # <<>> /\ Delivered > writableBytes
  /\ AppendAt(Filled(inbox, writableBytes), Len(buffer),
              SubSeq(inbox, writableBytes + 1, Delivered))
  /\ inbox' = SubSeq(inbox, Delivered + 1, Len(inbox))
  /\ UNCHANGED <<readIndex, out, arrived>>

\* peek, and retrieve of the first n readable bytes.
Peek(n) == SubSeq(buffer, readIndex + 1, readIndex + n)

Retrieve(n) == readIndex' = readIndex + n

\* writeFd: the socket takes any part of what is readable.
WriteFd ==
  \E n \in 1 .. readableBytes :
    /\ out' = out \o Peek(n) /\ Retrieve(n)
    /\ UNCHANGED <<buffer, writeIndex, inbox, arrived>>

Next == Arrive \/ ReadFits \/ ReadSpills \/ WriteFd

Spec == Init /\ [][Next]_vars

-----------------------------------------------------------------------------
\* Through readv into two pieces, overflow onto the stack and growth of the vector,
\* the readable bytes are a queue: no byte is lost, doubled, overtaken or made up.
Queue == INSTANCE ByteQueue WITH queue <- Peek(readableBytes)
ImplementsQueue == Queue!Spec

\* The room of what was read is never used again: the vector has a cell for each
\* byte that ever went through it.
KeepsEverything ==
  LET used == CheapPrepend + Len(out) + readableBytes
  IN  Len(buffer) = IF used > InitialSize THEN used ELSE InitialSize

\* The inductive invariant: no index is ever reset, so they count what went through.
IInv == /\ TypeOK /\ KeepsEverything
        /\ readIndex = CheapPrepend + Len(out)
=============================================================================
