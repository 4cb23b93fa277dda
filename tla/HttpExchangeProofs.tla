-------------------------- MODULE HttpExchangeProofs --------------------------
(***************************************************************************)
(* Proofs about one connection, for every set of inputs, every size of the *)
(* read buffer and of files, and every room in the socket.                 *)
(*                                                                         *)
(* ExIInv is inductive: what handleMessage holds, and what it has told the *)
(* client, depend only on how far it has come.                             *)
(***************************************************************************)
EXTENDS HttpExchange, HttpRequestProofs, TLAPS

\* The bounds are numbers, and the sizes of files are too.
LEMMA Bounds == /\ ReadSize \in Nat \ {0} /\ Room \in Nat \ {0} /\ Sizes \subseteq Nat
                /\ 0 \in Sizes /\ NoFile \notin Nat /\ NoFile \in Int
  BY HttpExchangeAssumption DEF HttpExchangeAssumption, Sizes, NoFile

\* A turn of the parser takes nothing from the client and forgets nothing it got.
LEMMA TurnKeepsInput == ASSUME Turn PROVE UNCHANGED <<rest, fed>>
  BY DEF Turn, ParseRequestLine, ParseHeaderLine, ParseBlankLine, AwaitLine, ParseBody,
     AwaitBody, Ignore, AcceptLine, Fail, Return

\* A new connection.
LEMMA ExInitInv == ExInit => ExIInv
<1> SUFFICES ASSUME ExInit PROVE ExIInv
  OBVIOUS
<1>1. rest \in Seq(Tokens) /\ fed = <<>> /\ fed \in Seq(Tokens)
  BY HttpRequestAssumption DEF HttpRequestAssumption, ExInit, Init
<1>2. Counts
  BY <1>1, Bounds DEF ExInit, Counts, Before
<1>3. AnswerFollowsPc
  BY DEF ExInit, AnswerFollowsPc, Before, After, NoAnswer
<1>4. FileFollowsPc /\ FileAsItWas /\ EndFollowsPc /\ PiecesFollowPc /\ OnePieceFollowsPc
  BY <1>1 DEF ExInit, FileFollowsPc, FileAsItWas, NoAnswer, EndFollowsPc, PiecesFollowPc,
     OnePieceFollowsPc, After, OnePiece
<1> QED BY <1>2, <1>3, <1>4 DEF ExIInv

\* Another piece arrives: the promise of OnePiece is off, unless the handler has not
\* read yet.
LEMMA SendPieceStep == ASSUME ExIInv, SendPiece PROVE ExIInv'
<1> USE DEF SendPiece, parser, vars, work, disk
<1>1. Counts'
  BY DEF ExIInv, Counts
<1>2. pieces \in Nat /\ pieces' = pieces + 1 /\ arrived' > 0
  BY DEF ExIInv, Counts
<1>3. AnswerFollowsPc' /\ FileFollowsPc' /\ FileAsItWas'
  BY DEF ExIInv, AnswerFollowsPc, FileFollowsPc, FileAsItWas
<1>4. EndFollowsPc'
  BY DEF ExIInv, EndFollowsPc, PiecesFollowPc
<1>5. PiecesFollowPc'
  BY <1>2 DEF ExIInv, PiecesFollowPc
<1>6. OnePieceFollowsPc'
  BY <1>2 DEF ExIInv, PiecesFollowPc, OnePieceFollowsPc, OnePiece, After
<1> QED BY <1>1, <1>3, <1>4, <1>5, <1>6 DEF ExIInv

\* The client ends its side, leaves or reads; the file changes.
LEMMA WorldStep ==
  ASSUME ExIInv, Finish \/ Leave \/ Receive \/ ReplaceFile \/ RewriteFile PROVE ExIInv'
<1> USE DEF Finish, Leave, Receive, ReplaceFile, RewriteFile, disk, parser, vars, work, wire
<1>1. Counts'
  BY DEF ExIInv, Counts
<1>2. UNCHANGED <<pc, answer, sent, ended, pieces, arrived, fed, fileOpen, size>>
  OBVIOUS
<1>3. client' # "gone" => client # "gone"
  OBVIOUS
<1>4. AnswerFollowsPc' /\ EndFollowsPc'
  BY <1>2 DEF ExIInv, AnswerFollowsPc, EndFollowsPc
<1>6. FileFollowsPc' /\ FileAsItWas'
  <2>1. CASE RewriteFile
    <3>1. /\ pc \in {"stat", "load"} /\ opened' \in had' /\ had \subseteq had'
          /\ answer.says # "file"
      BY <2>1 DEF ExIInv, AnswerFollowsPc, Before, NoAnswer
    <3> QED BY <1>2, <3>1 DEF ExIInv, FileFollowsPc, FileAsItWas
  <2>2. CASE ~ RewriteFile
    <3>1. UNCHANGED <<opened, had>>
      BY <2>2
    <3> QED BY <1>2, <3>1 DEF ExIInv, FileFollowsPc, FileAsItWas
  <2> QED BY <2>1, <2>2
<1>5. PiecesFollowPc' /\ OnePieceFollowsPc'
  BY <1>2, <1>3 DEF ExIInv, PiecesFollowPc, OnePieceFollowsPc, OnePiece, Smaller
<1> QED BY <1>1, <1>4, <1>5, <1>6 DEF ExIInv

\* The only read: one piece that fits is read whole.
LEMMA ReadStep == ASSUME ExIInv, Read PROVE ExIInv'
<1> DEFINE n == Smaller(arrived, ReadSize)
<1>1. /\ arrived \in Nat /\ arrived <= Len(rest) /\ arrived > 0
      /\ rest \in Seq(Tokens) /\ fed = <<>> /\ pieces \in Nat /\ pieces # 0
  BY DEF ExIInv, Counts, PiecesFollowPc, Read
<1>2. n \in 1 .. arrived /\ (arrived <= ReadSize => n = arrived) /\ n <= ReadSize
  BY <1>1, Bounds DEF Smaller
<1>3. /\ fed' = fed \o SubSeq(rest, 1, n) /\ rest' = SubSeq(rest, n + 1, Len(rest))
      /\ arrived' = arrived - n /\ pc = "read" /\ pc' = "parse"
      /\ UNCHANGED <<disk, fileOpen, size, answer, client, got, pieces, sent, ended>>
  BY DEF Read, Call, work
<1>4. /\ fed' \in Seq(Tokens) /\ Len(fed') = n
      /\ rest' \in Seq(Tokens) /\ Len(rest') = Len(rest) - n
  BY <1>1, <1>2, <1>3
<1>5. Counts'
  BY <1>1, <1>2, <1>3, <1>4 DEF ExIInv, Counts, Before, disk
<1>6. AnswerFollowsPc' /\ FileFollowsPc' /\ FileAsItWas' /\ EndFollowsPc'
  BY <1>3 DEF ExIInv, AnswerFollowsPc, FileFollowsPc, FileAsItWas, disk, EndFollowsPc,
     Before, After
<1>7. PiecesFollowPc'
  BY <1>1, <1>3 DEF PiecesFollowPc
<1>8. OnePieceFollowsPc'
  BY <1>1, <1>2, <1>3, <1>4, Bounds DEF OnePieceFollowsPc, OnePiece, After
<1> QED BY <1>5, <1>6, <1>7, <1>8 DEF ExIInv

\* Nothing to read: a client that sent one piece is gone.
LEMMA ReadNothingStep == ASSUME ExIInv, ReadNothing PROVE ExIInv'
<1> USE DEF ReadNothing, parser, vars, work, disk, wire
<1>1. Counts'
  BY DEF ExIInv, Counts, After
<1>2. AnswerFollowsPc' /\ FileFollowsPc' /\ FileAsItWas' /\ EndFollowsPc'
  BY DEF ExIInv, AnswerFollowsPc, FileFollowsPc, FileAsItWas, EndFollowsPc, Before, After
<1>3. PiecesFollowPc' /\ OnePieceFollowsPc'
  BY DEF ExIInv, Counts, PiecesFollowPc, OnePieceFollowsPc, OnePiece
<1> QED BY <1>1, <1>2, <1>3 DEF ExIInv

\* The parser and the routing.
LEMMA ParseStep == ASSUME ExIInv, Parse \/ Route PROVE ExIInv'
<1>1. UNCHANGED <<rest, fed>>
  BY TurnKeepsInput DEF Parse, Route, parser, vars
<1>2. /\ pc = "parse" /\ pc' \in {"parse", "query", "open"}
      /\ UNCHANGED <<work, wire, sent, ended>>
  BY DEF Parse, Route
<1> USE DEF work, disk, wire
<1>3. Counts'
  BY <1>1, <1>2 DEF ExIInv, Counts, Before
<1>4. AnswerFollowsPc' /\ FileFollowsPc' /\ FileAsItWas' /\ EndFollowsPc'
  BY <1>2 DEF ExIInv, AnswerFollowsPc, FileFollowsPc, FileAsItWas, EndFollowsPc, Before,
     After
<1>5. PiecesFollowPc' /\ OnePieceFollowsPc'
  BY <1>1, <1>2 DEF ExIInv, PiecesFollowPc, OnePieceFollowsPc, OnePiece, After
<1> QED BY <1>3, <1>4, <1>5 DEF ExIInv

\* A step of the handler between the read and the send that leaves the sizes and the
\* file as they should be, and has made its answer when it is about to send.
LEMMA WorkStep ==
  ASSUME ExIInv, UNCHANGED <<parser, wire, sent, ended, file>>,
         pc \in Before \ {"read"}, pc' \in (Before \ {"read"}) \cup {"send"},
         opened' \in Sizes, had' \in SUBSET Sizes, size' \in Sizes, FileFollowsPc', FileAsItWas',
         IF pc' = "send"
         THEN \E says, type : \E n \in Nat : answer' = Formatted(says, type, n)
         ELSE answer' = answer
  PROVE  ExIInv'
<1> USE DEF parser, vars, wire
<1>1. Counts' /\ EndFollowsPc'
  BY DEF ExIInv, Counts, EndFollowsPc, Before
<1>2. AnswerFollowsPc'
  <2>1. answer = NoAnswer /\ sent = 0
    BY DEF ExIInv, AnswerFollowsPc, Before, After
  <2>2. CASE pc' = "send"
    <3>1. PICK says, type : \E n \in Nat : answer' = Formatted(says, type, n)
      BY <2>2
    <3>2. PICK n \in Nat : answer' = Formatted(says, type, n)
      BY <3>1
    <3>3. answer'.announced = n /\ answer'.length = 1 + n
      BY <3>2 DEF Formatted
    <3>4. answer' # NoAnswer
      BY <3>3 DEF NoAnswer
    <3> QED BY <2>1, <2>2, <3>3, <3>4 DEF AnswerFollowsPc, Before, After
  <2>3. CASE pc' # "send"
    BY <2>1, <2>3 DEF AnswerFollowsPc, Before, After, NoAnswer
  <2> QED BY <2>2, <2>3
<1>3. PiecesFollowPc' /\ OnePieceFollowsPc'
  BY DEF ExIInv, PiecesFollowPc, OnePieceFollowsPc, OnePiece, Before, After
<1> QED BY <1>1, <1>2, <1>3 DEF ExIInv

\* The user service and the file.
LEMMA AnswerStep ==
  ASSUME ExIInv, Query \/ Open \/ Stat \/ StatFails \/ Load \/ LoadFails PROVE ExIInv'
<1>1. /\ size \in Sizes /\ file \in Sizes \cup {NoFile} /\ opened \in Sizes
      /\ had \in SUBSET Sizes /\ Sizes \subseteq Nat
  BY Bounds DEF ExIInv, Counts
<1>2. UNCHANGED <<parser, wire, sent, ended, file>>
  BY DEF Query, Open, Stat, StatFails, Load, LoadFails, disk
<1>3. pc \in Before \ {"read"} /\ pc' \in (Before \ {"read"}) \cup {"send"}
  BY DEF Query, Open, Stat, StatFails, Load, LoadFails, NotFound, Reply, Before
<1>4. /\ fileOpen => pc \in {"stat", "load"}
      /\ pc = "stat" => opened \in had
      /\ pc = "load" => size \in had
  BY DEF ExIInv, FileFollowsPc
<1>5. answer.says # "file"
  BY <1>3 DEF ExIInv, AnswerFollowsPc, NoAnswer
<1>6. /\ opened' \in Sizes /\ had' \in SUBSET Sizes /\ size' \in Sizes
      /\ FileFollowsPc' /\ FileAsItWas'
      /\ IF pc' = "send"
         THEN \E says, type : \E n \in Nat : answer' = Formatted(says, type, n)
         ELSE answer' = answer
  <2> USE DEF FileFollowsPc, FileAsItWas
  <2>1. CASE Query
    <3>1. /\ pc = "query" /\ pc' = "send" /\ UNCHANGED <<disk, fileOpen, size>>
          /\ \E says \in {"yes", "no"} : answer' = Formatted(says, "application/json", 1)
      BY <2>1 DEF Query, Reply
    <3>2. PICK says \in {"yes", "no"} : answer' = Formatted(says, "application/json", 1)
      BY <3>1
    <3>3. answer'.says # "file"
      BY <3>2 DEF Formatted
    <3>4. \E t, type : \E n \in Nat : answer' = Formatted(t, type, n)
      BY <3>2
    <3> QED BY <1>1, <1>4, <3>1, <3>3, <3>4 DEF disk
  <2>2. CASE Open
    <3>1. CASE NotFound /\ UNCHANGED <<opened, had>>
      BY <2>2, <3>1, <1>1 DEF Open, NotFound, Reply, Formatted
    <3>2. CASE /\ opened' \in (IF lines = <<>> THEN Sizes ELSE {file}) /\ had' = {opened'}
               /\ fileOpen' = TRUE /\ pc' = "stat" /\ UNCHANGED answer
               /\ ~ (file = NoFile /\ lines # <<>>)
      BY <2>2, <3>2, <1>1, <1>5 DEF Open
    <3> QED BY <2>2, <3>1, <3>2 DEF Open
  <2>3. CASE Stat
    BY <2>3, <1>1, <1>4, <1>5 DEF Stat, disk
  <2>4. CASE StatFails \/ LoadFails
    <3>1. /\ pc' = "send" /\ fileOpen' = FALSE /\ UNCHANGED <<disk, size>>
          /\ answer' = Formatted("404", "text/html", 1)
      BY <2>4 DEF StatFails, LoadFails, NotFound, Reply
    <3>2. answer'.says # "file"
      BY <3>1 DEF Formatted
    <3> QED BY <1>1, <3>1, <3>2 DEF disk
  <2>5. CASE Load
    <3>1. /\ pc = "load" /\ pc' = "send" /\ opened >= size /\ fileOpen' = FALSE
          /\ UNCHANGED <<disk, size>> /\ \E type : answer' = Formatted("file", type, size)
      BY <2>5 DEF Load, Reply
    <3>2. PICK type : answer' = Formatted("file", type, size)
      BY <3>1
    <3>3. answer'.announced = size
      BY <3>2 DEF Formatted
    <3>4. size \in Nat /\ \E t, u : \E n \in Nat : answer' = Formatted(t, u, n)
      BY <1>1, <3>2
    <3>5. size <= opened
      BY <1>1, <3>1
    <3> QED BY <1>1, <1>4, <3>1, <3>3, <3>4, <3>5 DEF disk
  <2> QED BY <2>1, <2>2, <2>3, <2>4, <2>5
<1> QED BY <1>2, <1>3, <1>6, WorkStep

\* The send, whose result is ignored.
LEMMA SendStep == ASSUME ExIInv, SendAnswer PROVE ExIInv'
<1> USE DEF SendAnswer, parser, vars, work, disk, wire
<1>1. /\ answer # NoAnswer /\ answer.announced \in Nat
      /\ answer.length = answer.announced + 1 /\ sent = 0
  BY DEF ExIInv, AnswerFollowsPc, After
<1>2. got \in 0 .. sent /\ sent' \in Nat /\ sent' <= answer.length
  BY <1>1, Bounds DEF ExIInv, Counts, Smaller
<1>3. Counts'
  BY <1>1, <1>2 DEF ExIInv, Counts, After
<1>4. AnswerFollowsPc'
  BY <1>1, <1>2 DEF AnswerFollowsPc, Before, After
<1>5. FileFollowsPc' /\ FileAsItWas' /\ EndFollowsPc'
  BY DEF ExIInv, FileFollowsPc, FileAsItWas, EndFollowsPc
<1>6. PiecesFollowPc'
  BY DEF ExIInv, PiecesFollowPc
<1>7. OnePieceFollowsPc'
  BY <1>1 DEF ExIInv, OnePieceFollowsPc, OnePiece, Smaller
<1> QED BY <1>3, <1>4, <1>5, <1>6, <1>7 DEF ExIInv

\* shutdown and close.
LEMMA EndStep == ASSUME ExIInv, ShutdownWrite \/ Close PROVE ExIInv'
<1> USE DEF ShutdownWrite, Close, parser, vars, work, disk, wire
<1>1. Counts'
  BY DEF ExIInv, Counts, After
<1>2. AnswerFollowsPc'
  BY DEF ExIInv, AnswerFollowsPc, Before, After
<1>3. FileFollowsPc' /\ FileAsItWas' /\ EndFollowsPc' /\ PiecesFollowPc'
  BY DEF ExIInv, FileFollowsPc, FileAsItWas, EndFollowsPc, PiecesFollowPc
<1>4. OnePieceFollowsPc'
  BY DEF ExIInv, Counts, EndFollowsPc, OnePieceFollowsPc, OnePiece, After, Smaller
<1> QED BY <1>1, <1>2, <1>3, <1>4 DEF ExIInv

\* A step of the connection.
LEMMA ExStep == ASSUME ExIInv, [ExNext]_exVars PROVE ExIInv'
<1>1. CASE UNCHANGED exVars
  BY <1>1 DEF exVars, parser, vars, work, disk, wire, ExIInv, Counts, AnswerFollowsPc,
     FileFollowsPc, FileAsItWas, EndFollowsPc, PiecesFollowPc, OnePieceFollowsPc, OnePiece,
     Smaller
<1>2. CASE ExNext
  BY <1>2, SendPieceStep, WorldStep, ReadStep, ReadNothingStep, ParseStep, AnswerStep,
     SendStep, EndStep DEF ExNext, Handler
<1> QED BY <1>1, <1>2

\* The invariant holds in every state of a connection.
THEOREM ExInvariant == ExSpec => []ExIInv
  BY ExStep, ExInitInv, PTL DEF ExSpec

\* No file stays open behind an answer, whatever fails and however the file changes.
THEOREM Released == ExSpec => []EverythingReleased
<1>1. ExIInv => EverythingReleased
  BY DEF ExIInv, FileFollowsPc, EverythingReleased
<1> QED BY <1>1, ExInvariant, PTL

\* However others write to the file, cut it, replace or remove it between open, fstat
\* and read, a body has a length that the file itself had meanwhile, and no more of it
\* than there was.
THEOREM FileServed == ExSpec => []FileAsItWas
<1>1. ExIInv => FileAsItWas
  BY DEF ExIInv
<1> QED BY <1>1, ExInvariant, PTL

\* A client that sends all it has in one piece that fits into one read is answered
\* whole, if the socket has the room.
THEOREM OnePieceServed == ExSpec => []OnePieceIsSafe
<1>1. ASSUME ExIInv PROVE OnePieceIsSafe
  <2>1. ASSUME pc = "done", OnePiece
        PROVE  /\ arrived = 0 /\ ended = "fin" /\ answer # NoAnswer
               /\ sent = Smaller(answer.length, Room)
    BY <1>1, <2>1 DEF ExIInv, OnePieceFollowsPc, After
  <2>2. answer # NoAnswer => answer.length \in Nat
    BY <1>1 DEF ExIInv, AnswerFollowsPc
  <2>3. ASSUME answer.length \in Nat, answer.length <= Room
        PROVE  Smaller(answer.length, Room) = answer.length
    BY <2>3, Bounds DEF Smaller
  <2> QED BY <2>1, <2>2, <2>3 DEF OnePieceIsSafe
<1> QED BY <1>1, ExInvariant, PTL

-----------------------------------------------------------------------------
(* The parser in the connection, and the way from the first line to the answer *)

\* The types of the files a line may ask for are types of files, and none is that of
\* an answer of the user service.
LEMMA TypesOfFiles ==
  ASSUME NEW l
  PROVE  TypesAsked(l) \subseteq FileTypes /\ "application/json" \notin FileTypes
<1>1. \A ext : ContentType(ext) \in FileTypes
  <2> SUFFICES ASSUME NEW ext PROVE ContentType(ext) \in FileTypes
    OBVIOUS
  <2>1. CASE ext \in DOMAIN ContentTypes
    BY <2>1 DEF FileTypes
  <2>2. CASE ext \notin DOMAIN ContentTypes
    <3>1. "other" \notin DOMAIN ContentTypes
      BY DEF ContentTypes
    <3>2. ContentType("other") = ContentType(ext)
      BY <2>2, <3>1 DEF ContentType
    <3> QED BY <3>2 DEF FileTypes
  <2> QED BY <2>1, <2>2
<1>2. TypesAsked(l) \subseteq FileTypes
  BY <1>1 DEF TypesAsked
<1>3. \A ext : ContentType(ext) # "application/json"
  BY DEF ContentType, ContentTypes
<1> QED BY <1>2, <1>3 DEF FileTypes

\* Between two calls of parse() the first line accepted is the first line of the input,
\* if that makes a request; the lines that go to the user service all do.
LEMMA FirstLine ==
  ASSUME IInv, ~ inCall
  PROVE  /\ lines # <<>> => Ends(fed) # <<>> /\ lines[1] = LineOf(fed, 1)
         /\ AsksApi <=> Ends(fed) # <<>> /\ IsApi(LineOf(fed, 1))
<1> DEFINE N == Len(Ends(fed))
<1>1. Len(lines) \in Nat /\ N \in Nat /\ Len(lines) <= N /\ (lines = <<>> <=> Len(lines) = 0)
  BY InvLengths
<1>2. Ends(fed) = <<>> <=> N = 0
  <2>1. N = Cardinality(Newlines(fed)) /\ \A k \in 1 .. N : Ends(fed)[k] \in Int
    BY <1>1, EndsFacts DEF IInv, TypeOK
  <2> DEFINE f(k) == CHOOSE i \in Newlines(fed) : Rank(Newlines(fed), i) = k
  <2> HIDE DEF N
  <2>2. Ends(fed) = [k \in 1 .. N |-> f(k)]
    BY <2>1 DEF Ends
  <2> HIDE DEF f
  <2>3. Ends(fed) \in Seq(Int)
    BY <1>1, <2>1, <2>2, SMT
  <2> USE DEF N
  <2> QED BY <2>3, SMT
<1>3. ASSUME lines # <<>>
      PROVE  Ends(fed) # <<>> /\ lines[1] = LineOf(fed, 1)
  <2>1. 1 \in 1 .. Len(lines) /\ N # 0
    BY <1>1, <1>3, SMT
  <2> QED BY <1>2, <2>1 DEF IInv, LinesAreInput
<1>4. ASSUME Ends(fed) # <<>>, IsApi(LineOf(fed, 1)) PROVE lines # <<>>
  <2>1. GoodRequestLine(LineOf(fed, 1))
    BY <1>4, HttpExchangeAssumption DEF HttpExchangeAssumption, IsApi, Asks, GoodRequestLine
  <2>2. GoodLine(fed, 1)
    BY <2>1 DEF GoodLine
  <2>3. Len(lines) = N \/ ~ GoodLine(fed, Len(lines) + 1)
    BY LinesAreGoodLines
  <2>4. Len(lines) = 0 => Len(lines) + 1 = 1
    OBVIOUS
  <2>5. Len(lines) # 0
    BY <1>2, <1>4, <2>2, <2>3, <2>4
  <2> QED BY <1>1, <2>5
<1> QED BY <1>3, <1>4 DEF AsksApi

\* The parser's invariant: the connection calls it with a piece of what arrived, and
\* leaves it alone otherwise.
LEMMA ParserStep == ASSUME IInv, ExIInv, [ExNext]_exVars PROVE IInv'
<1>1. CASE Read
  <2> DEFINE n == Smaller(arrived, ReadSize)
  <2>1. n \in 0 .. Len(rest)
    BY Bounds DEF ExIInv, Counts, Smaller
  <2>2. Call(n)
    BY <1>1 DEF Read
  <2> HIDE DEF n
  <2> QED BY <2>1, <2>2, CallStep
<1>2. CASE Parse
  BY <1>2, TurnStep DEF Parse
<1>3. ASSUME ~ Read, ~ Parse PROVE UNCHANGED vars
  BY <1>3 DEF ExNext, Handler, SendPiece, Finish, Leave, Receive, ReplaceFile, RewriteFile,
     disk, ReadNothing, Route, Query, Open, Stat, StatFails, Load, LoadFails, SendAnswer,
     ShutdownWrite, Close, exVars, parser
<1> QED BY <1>1, <1>2, <1>3, InvUnchanged

\* The answers there are.
LEMMA AnswerCases ==
  ASSUME [ExNext]_exVars
  PROVE  \/ /\ answer' = answer /\ (pc' = "query" => pc = "query" \/ Route)
            /\ (pc' \in {"open", "stat", "load"} => pc \in {"open", "stat", "load"} \/ Route)
            /\ (pc' = "send" => pc = "send")
         \/ /\ pc = "query" /\ pc' = "send" /\ UNCHANGED parser
            /\ answer'.says \in {"yes", "no"} /\ answer'.type = "application/json"
         \/ /\ pc \in {"open", "stat", "load"} /\ pc' = "send" /\ UNCHANGED parser
            /\ \/ answer'.says = "404" /\ answer'.type = "text/html"
               \/ /\ answer'.says = "file" /\ lines # <<>>
                  /\ answer'.type \in TypesAsked(lines[1])
<1>1. CASE SendPiece \/ Finish \/ Leave \/ Receive \/ ReplaceFile \/ RewriteFile \/ UNCHANGED exVars
  BY <1>1 DEF SendPiece, Finish, Leave, Receive, ReplaceFile, RewriteFile, disk, exVars,
     work
<1>2. CASE Read \/ ReadNothing \/ Parse \/ Route \/ SendAnswer \/ ShutdownWrite \/ Close
  BY <1>2 DEF Read, ReadNothing, Parse, Route, SendAnswer, ShutdownWrite, Close, work
<1>3. CASE Query
  BY <1>3 DEF Query, Reply, Formatted
<1>4. CASE Open \/ Stat \/ StatFails \/ LoadFails
  BY <1>4 DEF Open, Stat, StatFails, LoadFails, NotFound, Reply, Formatted
<1>5. CASE Load
  BY <1>5 DEF Load, Reply, Formatted
<1> QED BY <1>1, <1>2, <1>3, <1>4, <1>5 DEF ExNext, Handler

\* The types, after a step.
LEMMA ExTypeStep ==
  ASSUME ExTypeOK, ExIInv, ExIInv', IInv', [ExNext]_exVars PROVE ExTypeOK'
<1>1. asked' \in SUBSET Seq(Tokens)
  <2>1. asked' = asked \/ asked' = asked \cup {body}
    BY DEF ExNext, Handler, SendPiece, Finish, Leave, Receive, ReplaceFile, RewriteFile,
       disk, Read, ReadNothing, Parse, Route, Query, Open, Stat, StatFails, Load, LoadFails,
       SendAnswer, ShutdownWrite, Close, exVars, work
  <2>2. body \in Seq(Tokens) /\ asked \in SUBSET Seq(Tokens)
    BY DEF ExTypeOK, TypeOK
  <2> QED BY <2>1, <2>2
<1>2. /\ client' \in {"open", "fin", "gone"} /\ ended' \in {"more", "fin", "reset"}
      /\ fileOpen' \in BOOLEAN /\ opened' \in Sizes /\ had' \in SUBSET Sizes
  BY DEF ExTypeOK, ExNext, Handler, SendPiece, Finish, Leave, Receive, ReplaceFile,
     RewriteFile, disk, Read, ReadNothing, Parse, Route, Query, Open, Stat, StatFails, Load,
     LoadFails, NotFound, SendAnswer, ShutdownWrite, Close, exVars, work, wire
<1>3. /\ answer'.says \in {"nothing", "yes", "no", "file", "404"}
      /\ answer'.type \in FileTypes \cup {"none", "application/json"}
  <2>1. "text/html" \in FileTypes
    <3>1. ContentType("html") = "text/html" /\ "html" \in DOMAIN ContentTypes
      BY DEF ContentType, ContentTypes
    <3> QED BY <3>1 DEF FileTypes
  <2>2. lines # <<>> => TypesAsked(lines[1]) \subseteq FileTypes
    BY TypesOfFiles
  <2> QED BY <2>1, <2>2, AnswerCases DEF ExTypeOK
<1>4. /\ answer'.announced \in Nat /\ answer'.length \in Nat /\ sent' \in 0 .. answer'.length
  <2>1. \/ answer' = NoAnswer
        \/ answer'.announced \in Nat /\ answer'.length = answer'.announced + 1
    <3>1. AnswerFollowsPc'
      BY DEF ExIInv
    <3> QED BY <3>1 DEF AnswerFollowsPc, NoAnswer
  <2>2. sent' \in Nat /\ sent' <= answer'.length
    <3>1. AnswerFollowsPc' /\ Counts'
      BY DEF ExIInv
    <3> QED BY <3>1 DEF Counts, AnswerFollowsPc
  <2>3. answer'.announced \in Nat /\ answer'.length \in Nat
    BY <2>1 DEF NoAnswer
  <2> QED BY <2>2, <2>3
<1>5. /\ TypeOK' /\ pc' \in {"read", "parse", "query", "open", "stat", "load", "send",
                             "shutdown", "close", "done"}
      /\ arrived' \in 0 .. Len(rest') /\ file' \in Sizes \cup {NoFile} /\ size' \in Sizes
      /\ got' \in 0 .. sent' /\ pieces' \in Nat
  BY DEF IInv, ExIInv, Counts, Before, After
<1> QED BY <1>1, <1>2, <1>3, <1>4, <1>5 DEF ExTypeOK

\* What was asked for follows the first line, step by step.
LEMMA RouteStep ==
  ASSUME ExIInv, RouteFollowsLines, [ExNext]_exVars PROVE RouteFollowsLines'
<1>1. pc' # "parse" => ~ inCall'
  <2>1. CASE Read \/ Parse
    BY <2>1 DEF Read, Parse
  <2>2. CASE Route
    BY <2>2 DEF Route, parser, vars
  <2>3. ASSUME ~ Read, ~ Parse, ~ Route PROVE inCall' = inCall /\ (pc' # "parse" => pc # "parse")
    BY <2>3 DEF ExNext, Handler, SendPiece, Finish, Leave, Receive, ReplaceFile,
       RewriteFile, disk, ReadNothing, Query, Open, Stat, StatFails, Load, LoadFails,
       SendAnswer, ShutdownWrite, Close, exVars, parser, vars
  <2> QED BY <2>1, <2>2, <2>3 DEF RouteFollowsLines
<1>2. Read \/ Parse \/ lines' = lines
  BY DEF ExNext, Handler, SendPiece, Finish, Leave, Receive, ReplaceFile, RewriteFile, disk,
     ReadNothing, Route, Query, Open, Stat, StatFails, Load, LoadFails, SendAnswer,
     ShutdownWrite, Close, exVars, parser, vars
<1>3. CASE Read \/ Parse
  <2>1. pc' = "parse" /\ answer' = answer /\ answer = NoAnswer
    BY <1>3 DEF Read, Parse, work, ExIInv, AnswerFollowsPc, Before
  <2> QED BY <1>1, <2>1 DEF RouteFollowsLines
<1>4. CASE Route
  <2>1. /\ pc' = (IF AsksApi THEN "query" ELSE "open") /\ answer' = answer /\ answer = NoAnswer
        /\ lines' = lines
    BY <1>4 DEF Route, AsksApi, work, parser, vars, ExIInv, AnswerFollowsPc, Before
  <2> QED BY <1>1, <2>1 DEF RouteFollowsLines, AsksApi
<1>5. ASSUME lines' = lines, ~ Route PROVE RouteFollowsLines'
  <2>1. AsksApi' <=> AsksApi
    BY <1>5 DEF AsksApi
  <2>2. CASE answer' = answer /\ ~ (pc = "query" /\ pc' = "send")
             /\ ~ (pc \in {"open", "stat", "load"} /\ pc' = "send")
    <3>1. /\ pc' = "query" => pc = "query"
          /\ pc' \in {"open", "stat", "load"} => pc \in {"open", "stat", "load"}
      BY <1>5, <2>2, AnswerCases
    <3> QED BY <1>1, <1>5, <2>1, <2>2, <3>1 DEF RouteFollowsLines
  <2>3. CASE pc = "query" /\ pc' = "send"
    <3>1. AsksApi /\ answer'.says \in {"yes", "no"} /\ answer'.type = "application/json"
      BY <1>5, <2>3, AnswerCases DEF RouteFollowsLines
    <3> QED BY <1>1, <2>1, <2>3, <3>1 DEF RouteFollowsLines
  <2>4. CASE pc \in {"open", "stat", "load"} /\ pc' = "send"
    <3>1. /\ ~ AsksApi
          /\ \/ answer'.says = "404" /\ answer'.type = "text/html"
             \/ answer'.says = "file" /\ lines # <<>> /\ answer'.type \in TypesAsked(lines[1])
      BY <1>5, <2>4, AnswerCases DEF RouteFollowsLines
    <3>2. lines # <<>> /\ answer'.type \in TypesAsked(lines[1]) => answer'.type # "application/json"
      BY TypesOfFiles
    <3> QED BY <1>1, <1>5, <2>1, <2>4, <3>1, <3>2 DEF RouteFollowsLines
  <2> QED BY <2>2, <2>3, <2>4, AnswerCases
<1> QED BY <1>2, <1>3, <1>4, <1>5

\* The parser's invariant, and the types and the route that rest on it.
THEOREM ExParserInvariant == ExSpec => []ExParserInv
<1>1. ExInit => ExParserInv
  <2> SUFFICES ASSUME ExInit PROVE ExParserInv
    OBVIOUS
  <2>1. rest \in Seq(Tokens)
    BY HttpRequestAssumption DEF ExInit, Init, HttpRequestAssumption
  <2>2. IInv
    BY <2>1, FreshInv DEF ExInit, Init, Fresh
  <2>3. ExTypeOK
    BY <2>2, ExInitInv DEF ExInit, ExTypeOK, IInv, NoAnswer, ExIInv, Counts
  <2>4. RouteFollowsLines
    BY DEF ExInit, Init, RouteFollowsLines
  <2> QED BY <2>2, <2>3, <2>4 DEF ExParserInv
<1>2. ASSUME ExIInv, ExIInv', ExParserInv, [ExNext]_exVars PROVE ExParserInv'
  BY <1>2, ParserStep, ExTypeStep, RouteStep DEF ExParserInv
<1> QED BY <1>1, <1>2, ExInvariant, PTL DEF ExSpec

\* Every variable of the connection keeps its type.
THEOREM ExTypeCorrect == ExSpec => []ExTypeOK
<1>1. ExParserInv => ExTypeOK
  BY DEF ExParserInv
<1> QED BY <1>1, ExParserInvariant, PTL

\* The first line of what was read decides who answers and with what type: the rest of
\* the text, its errors and its cuts do not matter.
THEOREM FirstLineDecides == ExSpec => []AnsweredByFirstLine
<1>1. ASSUME ExIInv, ExParserInv PROVE AnsweredByFirstLine
  <2> SUFFICES ASSUME answer # NoAnswer
               PROVE  /\ answer.says \in {"yes", "no"} <=> Ends(fed) # <<>> /\ IsApi(LineOf(fed, 1))
                      /\ answer.says \in {"yes", "no"} <=> answer.type = "application/json"
                      /\ answer.says = "file" => answer.type \in TypesAsked(LineOf(fed, 1))
    BY DEF AnsweredByFirstLine
  <2>1. ~ inCall
    BY <1>1 DEF ExIInv, AnswerFollowsPc, Before, ExParserInv, RouteFollowsLines
  <2>2. IInv /\ RouteFollowsLines
    BY <1>1 DEF ExParserInv
  <2>3. /\ lines # <<>> => Ends(fed) # <<>> /\ lines[1] = LineOf(fed, 1)
        /\ AsksApi <=> Ends(fed) # <<>> /\ IsApi(LineOf(fed, 1))
    BY <2>1, <2>2, FirstLine
  <2> QED BY <2>2, <2>3 DEF RouteFollowsLines
<1> QED BY <1>1, ExInvariant, ExParserInvariant, PTL

-----------------------------------------------------------------------------
(* The handler comes to its end *)

\* While the parser is not running, and while it is.
LEMMA StepsLeftValue ==
  ASSUME ExIInv, IInv
  PROVE  /\ StepsLeft \in Nat
         /\ pc = "read" => StepsLeft = ReadSize + 9
         /\ pc = "parse" => /\ inCall => StepsLeft = Len(buffer) + 8
                            /\ ~ inCall => StepsLeft = 7
         /\ pc \notin {"read", "parse"} => StepsLeft = CallsLeft[pc]
<1>1. Len(buffer) \in Nat
  BY SMT DEF IInv, TypeOK
<1>2. CASE pc = "read"
  BY <1>2, Bounds DEF StepsLeft
<1>3. CASE pc = "parse"
  BY <1>1, <1>3 DEF StepsLeft, IInv, TypeOK
<1>4. CASE pc \notin {"read", "parse"}
  <2>1. StepsLeft = CallsLeft[pc]
    BY <1>4 DEF StepsLeft
  <2>2. CallsLeft[pc] \in Nat
    BY <1>4 DEF CallsLeft, ExIInv, Counts, Before, After
  <2> QED BY <1>4, <2>1, <2>2
<1> QED BY <1>2, <1>3, <1>4

\* The read fills an empty buffer.
LEMMA ReadFills ==
  ASSUME ExIInv, IInv, Read
  PROVE  Len(buffer') <= ReadSize
<1> DEFINE n == Smaller(arrived, ReadSize)
<1>1. /\ fed = <<>> /\ arrived \in 0 .. Len(rest) /\ rest \in Seq(Tokens)
      /\ buffer' = buffer \o SubSeq(rest, 1, n)
  BY DEF Read, Call, ExIInv, PiecesFollowPc, Counts
<1>2. n \in 0 .. Len(rest) /\ n <= ReadSize
  BY <1>1, Bounds DEF Smaller
<1>3. buffer = <<>>
  <2>1. /\ EndOf(fed, Taken) \in 0 .. Len(fed) /\ fed \in Seq(Tokens) /\ buffer \in Seq(Tokens)
        /\ buffer = SubSeq(fed, EndOf(fed, Taken) + 1, Len(fed))
    BY InvLengths DEF IInv, TypeOK, BufferIsRest
  <2>2. Len(buffer) = Len(fed) - EndOf(fed, Taken)
    BY <2>1, RestOf
  <2>3. Len(fed) = 0
    BY <1>1
  <2> QED BY <2>1, <2>2, <2>3, SMT
<1> HIDE DEF n
<1>4. Len(SubSeq(rest, 1, n)) = n /\ SubSeq(rest, 1, n) \in Seq(Tokens)
  BY <1>1, <1>2, SMT
<1>5. Len(<<>> \o SubSeq(rest, 1, n)) = n
  BY <1>4, SMT
<1> QED BY <1>1, <1>2, <1>3, <1>5

\* The steps left are counted down.
LEMMA StepsLeftStep ==
  ASSUME ExIInv, IInv, ExIInv', IInv', [ExNext]_exVars
  PROVE  IF Handler THEN StepsLeft' < StepsLeft ELSE StepsLeft' = StepsLeft
<1>1. ASSUME ~ Handler PROVE StepsLeft' = StepsLeft
  <2>1. UNCHANGED <<pc, inCall, buffer>>
    BY <1>1 DEF ExNext, SendPiece, Finish, Leave, Receive, ReplaceFile, RewriteFile, disk,
       exVars, parser, vars
  <2> QED BY <2>1 DEF StepsLeft
<1>2. (pc' = "parse" => StepsLeft' = 7 + (IF inCall' THEN Len(buffer') + 1 ELSE 0))
      /\ (pc' \notin {"read", "parse"} => StepsLeft' = CallsLeft[pc'])
  BY DEF StepsLeft, CallsLeft
<1>3. CASE Read
  <2>1. pc = "read" /\ pc' = "parse" /\ inCall' = TRUE /\ Len(buffer') <= ReadSize
    BY <1>3, ReadFills DEF Read, Call
  <2>2. StepsLeft' = 7 + (Len(buffer') + 1) /\ StepsLeft = ReadSize + 9
    BY <1>2, <2>1, StepsLeftValue
  <2>3. Len(buffer') \in Nat
    BY DEF IInv, TypeOK
  <2> QED BY <1>3, <2>1, <2>2, <2>3, Bounds DEF Handler
<1>4. CASE Parse
  <2>1. pc = "parse" /\ pc' = "parse" /\ Turn
    BY <1>4 DEF Parse
  <2>2. /\ inCall /\ Len(buffer) \in Nat
        /\ inCall' => Len(buffer') \in Nat /\ Len(buffer') < Len(buffer)
    BY <2>1, TurnTakesLine
  <2>3. StepsLeft = Len(buffer) + 8
    BY <2>1, <2>2, StepsLeftValue
  <2> QED BY <1>2, <1>4, <2>1, <2>2, <2>3 DEF Handler
<1>5. CASE Route
  <2>1. StepsLeft = 7 /\ pc' \in {"query", "open"}
    BY <1>5, StepsLeftValue DEF Route
  <2> QED BY <1>2, <1>5, <2>1 DEF Handler, CallsLeft
<1>6. CASE ReadNothing \/ Query \/ Open \/ Stat \/ StatFails \/ Load \/ LoadFails \/ SendAnswer
           \/ ShutdownWrite \/ Close
  <2>1. CASE ReadNothing
    BY <1>2, <2>1, StepsLeftValue, Bounds DEF ReadNothing, Handler, CallsLeft
  <2>2. CASE Query \/ Open \/ Stat \/ StatFails \/ Load \/ LoadFails
    BY <1>2, <2>2, StepsLeftValue DEF Query, Open, Stat, StatFails, Load, LoadFails,
       NotFound, Reply, Handler, CallsLeft
  <2>3. CASE SendAnswer \/ ShutdownWrite \/ Close
    BY <1>2, <2>3, StepsLeftValue DEF SendAnswer, ShutdownWrite, Close, Handler, CallsLeft
  <2> QED BY <1>6, <2>1, <2>2, <2>3
<1> QED BY <1>1, <1>3, <1>4, <1>5, <1>6 DEF Handler

\* The handler of a connection ends within ReadSize + 9 of its steps: the parser's loop
\* cannot go on for ever, and no other step leads back.
THEOREM HandlerEnds == ExSpec => HandlerIsBounded /\ [](StepsLeft \in 0 .. ReadSize + 9)
<1>1. ASSUME ExIInv, IInv, ExIInv', IInv', [ExNext]_exVars
      PROVE  [IF Handler THEN StepsLeft' < StepsLeft ELSE StepsLeft' = StepsLeft]_exVars
  BY <1>1, StepsLeftStep
<1>2. ExInit /\ ExIInv /\ IInv => StepsLeft \in 0 .. ReadSize + 9
  BY StepsLeftValue, Bounds DEF ExInit
<1>3. ASSUME ExIInv, IInv, ExIInv', IInv', [ExNext]_exVars, StepsLeft \in 0 .. ReadSize + 9,
             (StepsLeft \in Nat)'
      PROVE  (StepsLeft \in 0 .. ReadSize + 9)'
  <2>1. StepsLeft' < StepsLeft \/ StepsLeft' = StepsLeft
    BY <1>3, StepsLeftStep
  <2> QED BY <1>3, <2>1, Bounds
<1>4. ExIInv /\ IInv => StepsLeft \in Nat
  BY StepsLeftValue
<1>5. ExSpec => []IInv
  <2>1. ExParserInv => IInv
    BY DEF ExParserInv
  <2> QED BY <2>1, ExParserInvariant, PTL
<1> QED BY <1>1, <1>2, <1>3, <1>4, <1>5, ExInvariant, PTL DEF ExSpec, HandlerIsBounded
=============================================================================
