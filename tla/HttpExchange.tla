----------------------------- MODULE HttpExchange -----------------------------
(***************************************************************************)
(* One connection, from its first byte to its close: handleMessage reads   *)
(* once, parses once, asks the user service or loads a file, formats the   *)
(* answer with HttpResponse, sends once and closes.  The parser is that of *)
(* HttpRequest, turn by turn.                                              *)
(*                                                                         *)
(* One action is one system call or one turn of the parser.  Lengths stand *)
(* for texts: the head of an answer and a message have length 1, a file    *)
(* its size.  The descriptor is the handler's own throughout; what becomes *)
(* of a descriptor that a timer closes is in Reactor.                      *)
(***************************************************************************)
EXTENDS HttpRequest

CONSTANTS
  ApiLines,  (* the request lines POST /api/register and POST /api/login   *)
  Extension, (* of a request line: what follows the last dot of its path,  *)
             (* in lower case, / standing for /index.html                  *)
  ReadSize,  (* sizeof(buffer)                                             *)
  Room,      (* what the socket takes of an answer                         *)
  MaxFile    (* bound: size of a file                                      *)

NoFile == -1
Sizes  == 0 .. MaxFile

\* getContentType: what an extension stands for.
ContentTypes ==
  [html |-> "text/html", css |-> "text/css", js |-> "application/javascript",
   png |-> "image/png", jpg |-> "image/jpeg", jpeg |-> "image/jpeg",
   gif |-> "image/gif", ico |-> "image/x-icon"]

ContentType(ext) == IF ext \in DOMAIN ContentTypes THEN ContentTypes[ext] ELSE "text/plain"

FileTypes == {ContentType(ext) : ext \in DOMAIN ContentTypes \cup {"other"}}

ASSUME HttpExchangeAssumption ==
  /\ ApiLines \subseteq RequestLines /\ Extension \in [RequestLines -> STRING]
  /\ ReadSize \in Nat \ {0} /\ Room \in Nat \ {0} /\ MaxFile \in Nat

VARIABLES
  pc,        (* where handleMessage is                                     *)
  arrived,   (* how many characters of rest are in the socket              *)
  client,    (* the client's side: open, fin, gone (reset or crashed)      *)
  file,      (* size of the file of the path asked for, or NoFile          *)
  fileOpen,  (* loadFile has a file open                                   *)
  opened,    (* size of the file it opened last, whatever the path names   *)
  size,      (* st_size                                                    *)
  asked,     (* the bodies that reg and login were called for              *)
  answer,    (* what it says, its Content-Type, Content-Length and length  *)
  sent,      (* how much of it send took                                   *)
  got,       (* how much of it the client has read                         *)
  ended,     (* what the client can still read: more, fin (then the end),  *)
             (* reset (nothing)                                            *)
  pieces,    (* history: in how many pieces the client sent                *)
  had        (* history: the sizes of the file while loadFile had it open  *)

parser == vars
disk   == <<file, opened, had>>
work   == <<disk, fileOpen, size, asked, answer>>
wire   == <<arrived, client, got, pieces>>
exVars == <<parser, pc, work, wire, sent, ended>>

NoAnswer == [says |-> "nothing", type |-> "none", announced |-> 0, length |-> 0]

ExTypeOK ==
  /\ TypeOK
  /\ pc \in {"read", "parse", "query", "open", "stat", "load", "send", "shutdown",
             "close", "done"}
  /\ arrived \in 0 .. Len(rest) /\ client \in {"open", "fin", "gone"}
  /\ file \in Sizes \cup {NoFile} /\ fileOpen \in BOOLEAN /\ size \in Sizes
  /\ opened \in Sizes /\ had \in SUBSET Sizes /\ asked \in SUBSET Seq(Tokens)
  /\ answer.says \in {"nothing", "yes", "no", "file", "404"}
  /\ answer.type \in FileTypes \cup {"none", "application/json"}
  /\ answer.announced \in Nat /\ answer.length \in Nat
  /\ sent \in 0 .. answer.length /\ got \in 0 .. sent
  /\ ended \in {"more", "fin", "reset"} /\ pieces \in Nat

ExInit ==
  /\ Init /\ pc = "read" /\ arrived = 0 /\ client = "open"
  /\ file \in Sizes \cup {NoFile} /\ fileOpen = FALSE /\ size = 0
  /\ opened = 0 /\ had = {} /\ asked = {} /\ answer = NoAnswer
  /\ sent = 0 /\ got = 0 /\ ended = "more" /\ pieces = 0

-----------------------------------------------------------------------------
(* The client and the file system *)

\* Another piece of the request arrives; after the close it is answered by a reset.
SendPiece ==
  /\ client = "open" /\ arrived < Len(rest)
  /\ arrived' \in arrived + 1 .. Len(rest) /\ pieces' = pieces + 1
  /\ ended' = IF pc = "done" THEN "reset" ELSE ended
  /\ UNCHANGED <<parser, pc, work, client, got, sent>>

Finish == /\ client = "open" /\ client' = "fin"
          /\ UNCHANGED <<parser, pc, work, arrived, got, pieces, sent, ended>>

Leave == /\ client # "gone" /\ client' = "gone"
         /\ UNCHANGED <<parser, pc, work, arrived, got, pieces, sent, ended>>

Receive == /\ client # "gone" /\ ended # "reset" /\ got < sent /\ got' = got + 1
           /\ UNCHANGED <<parser, pc, work, arrived, client, pieces, sent, ended>>

\* Somebody removes the file, or gives its path to another one: a file that is open
\* outlives its name.
ReplaceFile ==
  /\ pc \in {"open", "stat", "load"} /\ file' \in Sizes \cup {NoFile}
  /\ UNCHANGED <<parser, pc, fileOpen, opened, had, size, asked, answer, wire, sent, ended>>

\* Somebody writes to the open file or cuts it, by the path asked for or another one.
RewriteFile ==
  /\ pc \in {"stat", "load"} /\ opened' \in Sizes /\ file' \in {file, opened'}
  /\ had' = had \cup {opened'}
  /\ UNCHANGED <<parser, pc, fileOpen, size, asked, answer, wire, sent, ended>>

-----------------------------------------------------------------------------
(* The request *)

Smaller(m, n) == IF m < n THEN m ELSE n

\* Mutant of Read: a character less than the buffer holds.
ReadShort ==
  /\ pc = "read" /\ arrived > 0
  /\ LET n == Smaller(arrived, ReadSize - 1)
     IN  Call(n) /\ arrived' = arrived - n
  /\ pc' = "parse"
  /\ UNCHANGED <<work, client, got, pieces, sent, ended>>

\* The only read of the connection takes what has arrived, as far as it fits.
Read ==
  /\ pc = "read" /\ arrived > 0
  /\ LET n == Smaller(arrived, ReadSize)
     IN  Call(n) /\ arrived' = arrived - n
  /\ pc' = "parse"
  /\ UNCHANGED <<work, client, got, pieces, sent, ended>>

\* End of stream, or an error: the connection is closed without an answer.
ReadNothing ==
  /\ pc = "read" /\ (client = "gone" \/ (client = "fin" /\ arrived = 0))
  /\ pc' = "done" /\ ended' = "fin"
  /\ UNCHANGED <<parser, work, wire, sent>>

\* A turn of the only call of parse, whose result is ignored.
Parse ==
  /\ pc = "parse" /\ Turn
  /\ UNCHANGED <<pc, work, wire, sent, ended>>

\* The first three words of the line are those of request: what is before them
\* would be part of the first word, but for white space.
Asks(l, request) == \E i \in DOMAIN l : l[i] = request /\ \A j \in 1 .. i - 1 : l[j] = "cr"

IsApi(l) == \E request \in ApiLines : Asks(l, request)

\* The types a file may have whose path is the second word of the line: any, if that
\* word is not the one of a request line.
TypesAsked(l) ==
  LET requests == {request \in RequestLines : Asks(l, request)}
  IN  IF requests = {} THEN FileTypes
      ELSE {ContentType(Extension[request]) : request \in requests}

\* Mutant of Route: only a request that was parsed to its end is an API call.
RouteIfDone ==
  /\ pc = "parse" /\ ~inCall
  /\ pc' = IF state = "done" /\ IsApi(lines[1]) THEN "query" ELSE "open"
  /\ UNCHANGED <<parser, work, wire, sent, ended>>

\* method() and path() are those of the request line, or empty without one.
Route ==
  /\ pc = "parse" /\ ~inCall
  /\ pc' = IF lines # <<>> /\ IsApi(lines[1]) THEN "query" ELSE "open"
  /\ UNCHANGED <<parser, work, wire, sent, ended>>

-----------------------------------------------------------------------------
(* The answer *)

\* toString: a head that announces the n characters of the body, and the body.
Formatted(says, type, n) ==
  [says |-> says, type |-> type, announced |-> n, length |-> 1 + n]

Reply(says, type, n) == answer' = Formatted(says, type, n) /\ pc' = "send"

\* reg or login is called with the fields of the body; the database decides.
Query ==
  /\ pc = "query" /\ asked' = asked \cup {body}
  /\ \E says \in {"yes", "no"} : Reply(says, "application/json", 1)
  /\ UNCHANGED <<parser, disk, fileOpen, size, wire, sent, ended>>

NotFound == Reply("404", "text/html", 1) /\ fileOpen' = FALSE

\* open of the file; without a path it is that of the directory, which succeeds.
Open ==
  /\ pc = "open"
  /\ IF file = NoFile /\ lines # <<>>
     THEN NotFound /\ UNCHANGED <<opened, had>>
     ELSE /\ opened' \in (IF lines = <<>> THEN Sizes ELSE {file}) /\ had' = {opened'}
          /\ fileOpen' = TRUE /\ pc' = "stat" /\ UNCHANGED answer
  /\ UNCHANGED <<parser, file, size, asked, wire, sent, ended>>

\* Mutant of StatFails: loadFile returns without close.
StatFailsLeaks ==
  /\ pc = "stat" /\ Reply("404", "text/html", 1)
  /\ UNCHANGED <<parser, disk, fileOpen, size, asked, wire, sent, ended>>

StatFails ==
  /\ pc = "stat" /\ NotFound
  /\ UNCHANGED <<parser, disk, size, asked, wire, sent, ended>>

\* Mutant of Stat: the size is asked for by name, and an error is not noticed.
StatByName ==
  /\ pc = "stat" /\ pc' = "load" /\ size' = file
  /\ UNCHANGED <<parser, disk, fileOpen, asked, answer, wire, sent, ended>>

\* fstat: the size of what is open.
Stat ==
  /\ pc = "stat" /\ pc' = "load" /\ size' = opened
  /\ UNCHANGED <<parser, disk, fileOpen, asked, answer, wire, sent, ended>>

\* Mutant of Load: the result of read is not compared with st_size.
LoadUnchecked ==
  /\ pc = "load" /\ lines # <<>>
  /\ fileOpen' = FALSE /\ \E type \in TypesAsked(lines[1]) : Reply("file", type, size)
  /\ UNCHANGED <<parser, disk, size, asked, wire, sent, ended>>

\* read returns as much as fstat said, and that is the body.
Load ==
  /\ pc = "load" /\ lines # <<>> /\ opened >= size
  /\ fileOpen' = FALSE /\ \E type \in TypesAsked(lines[1]) : Reply("file", type, size)
  /\ UNCHANGED <<parser, disk, size, asked, wire, sent, ended>>

\* An error, as for a directory, or less than fstat said.
LoadFails ==
  /\ pc = "load" /\ NotFound
  /\ UNCHANGED <<parser, disk, size, asked, wire, sent, ended>>

\* The socket does not block: it takes what it has room for, or reports that the
\* client is gone, and the result is ignored.
SendAnswer ==
  /\ pc = "send" /\ pc' = "shutdown"
  /\ \/ sent' = Smaller(answer.length, Room)
     \/ client = "gone" /\ sent' = 0
  /\ UNCHANGED <<parser, work, wire, ended>>

ShutdownWrite ==
  /\ pc = "shutdown" /\ pc' = "close" /\ ended' = "fin"
  /\ UNCHANGED <<parser, work, wire, sent>>

\* A socket closed with unread input in it resets the connection.
Close ==
  /\ pc = "close" /\ pc' = "done"
  /\ ended' = IF arrived > 0 THEN "reset" ELSE ended
  /\ UNCHANGED <<parser, work, wire, sent>>

-----------------------------------------------------------------------------
Handler == \/ Read \/ ReadNothing \/ Parse \/ Route \/ Query \/ Open \/ Stat \/ StatFails
           \/ Load \/ LoadFails \/ SendAnswer \/ ShutdownWrite \/ Close

ExNext == SendPiece \/ Finish \/ Leave \/ Receive \/ ReplaceFile \/ RewriteFile \/ Handler

ExSpec == ExInit /\ [][ExNext]_exVars

\* The handler's thread runs; clients and files do as they like.
FairExSpec == ExSpec /\ WF_exVars(Handler)

-----------------------------------------------------------------------------
\* The database is asked for exactly the requests whose first line is an API's and
\* arrived, whole, in the first piece, and a file is sent as one of the type that this
\* line asks for: the rest of the text, its errors and its cuts do not matter.
AnsweredByFirstLine ==
  answer # NoAnswer =>
    /\ answer.says \in {"yes", "no"} <=> Ends(fed) # <<>> /\ IsApi(LineOf(fed, 1))
    /\ answer.says \in {"yes", "no"} <=> answer.type = "application/json"
    /\ answer.says = "file" => answer.type \in TypesAsked(LineOf(fed, 1))

\* Whatever fails on the way, and however the file changes between open, fstat and
\* read, no file stays open behind an answer.
EverythingReleased ==
  pc \in {"send", "shutdown", "close", "done"} => ~fileOpen

\* However the file is written to, cut, replaced or removed between the three calls, a
\* body is as long as the file that was opened has been at some time since, and no
\* longer than it was when it was read: no answer is filled up with what nobody wrote,
\* and none has the length of another file.
FileAsItWas == answer.says = "file" => answer.announced \in had /\ answer.announced <= opened

\* The client sent one piece that fits into one read, and waits for the answer.
OnePiece == pieces = 1 /\ Len(fed) + arrived <= ReadSize /\ client # "gone"

\* The promise that is left to a client that sends everything it will ever send in
\* one piece that fits into the buffer: all of it is read, its connection is not
\* reset, and the answer is sent whole if the socket has room for it.
OnePieceIsSafe ==
  pc = "done" /\ OnePiece =>
    /\ arrived = 0 /\ ended = "fin"
    /\ answer.length <= Room => sent = answer.length /\ answer # NoAnswer

\* Once something has arrived, or the client is gone, the handler comes to its end:
\* the parser's loop ends whatever it is given.
HandlerReturns == (arrived > 0 \/ client # "open") ~> (pc = "done")

\* How many steps the handler has left at most: the system calls to come, and while it
\* parses a turn for each character of the buffer.
CallsLeft == [open |-> 6, stat |-> 5, load |-> 4, query |-> 4, send |-> 3, shutdown |-> 2,
              close |-> 1, done |-> 0]

StepsLeft == CASE pc = "read"  -> ReadSize + 9
               [] pc = "parse" -> 7 + (IF inCall THEN Len(buffer) + 1 ELSE 0)
               [] OTHER        -> CallsLeft[pc]

\* Whatever the client sends and the file system does meanwhile, each step of the
\* handler is one of those, and nobody else's step adds to them: it never takes more
\* than a fixed number of steps, however its only read was cut.
HandlerIsBounded ==
  [][IF Handler THEN StepsLeft' < StepsLeft ELSE StepsLeft' = StepsLeft]_exVars

\* EchoServer实现的代码说明.md:147: the body of a POST is parsed; a POST that arrives
\* whole in one read is asked for with its body.
Posts == {<<p, "nl", "len1", "nl", "nl", "b">> : p \in ApiLines}
PostHasBody == fed \in Posts => asked \subseteq {<<"b">>}

-----------------------------------------------------------------------------
(* The inductive invariant of the proofs *)

Before == {"read", "parse", "query", "open", "stat", "load"}    \* without an answer yet
After  == {"shutdown", "close", "done"}

Counts ==
  /\ rest \in Seq(Tokens) /\ fed \in Seq(Tokens) /\ arrived \in 0 .. Len(rest)
  /\ pc \in Before \cup {"send"} \cup After
  /\ file \in Sizes \cup {NoFile} /\ opened \in Sizes /\ had \in SUBSET Sizes /\ size \in Sizes
  /\ sent \in Nat /\ got \in 0 .. sent /\ pieces \in Nat

\* An answer announces what follows its head, and is made once.
AnswerFollowsPc ==
  /\ pc \in Before => answer = NoAnswer
  /\ pc \in {"send", "shutdown", "close"} => answer # NoAnswer
  /\ \/ answer = NoAnswer
     \/ answer.announced \in Nat /\ answer.length = answer.announced + 1
  /\ pc \notin After => sent = 0
  /\ sent <= answer.length

FileFollowsPc == /\ fileOpen => pc \in {"stat", "load"}
                 /\ pc = "stat" => opened \in had
                 /\ pc = "load" => size \in had

EndFollowsPc == /\ pc \notin {"close", "done"} => ended = "more"
                /\ pc = "close" => ended = "fin"

\* What is in the socket depends on the pieces that came and on whether the only read
\* was before or after them.
PiecesFollowPc ==
  /\ pc = "read" => fed = <<>> /\ (pieces = 0 <=> arrived = 0)
  /\ pieces = 0 => arrived = 0
  /\ pc # "read" /\ pieces = 0 => client # "open"

OnePieceFollowsPc ==
  /\ OnePiece /\ pc # "read" => arrived = 0
  /\ OnePiece /\ pc = "done" => ended = "fin"
  /\ OnePiece /\ pc \in After => answer # NoAnswer /\ sent = Smaller(answer.length, Room)

\* The request is routed by the first line that was parsed, and the answer says so.
AsksApi == lines # <<>> /\ IsApi(lines[1])

RouteFollowsLines ==
  /\ pc # "parse" => ~inCall
  /\ pc = "query" => AsksApi
  /\ pc \in {"open", "stat", "load"} => ~AsksApi
  /\ answer # NoAnswer =>
       /\ answer.says \in {"yes", "no"} <=> AsksApi
       /\ answer.says \in {"yes", "no"} <=> answer.type = "application/json"
       /\ answer.says = "file" => lines # <<>> /\ answer.type \in TypesAsked(lines[1])

ExIInv == /\ Counts /\ AnswerFollowsPc /\ FileFollowsPc /\ FileAsItWas /\ EndFollowsPc
          /\ PiecesFollowPc /\ OnePieceFollowsPc

\* With the parser's own invariant.
ExParserInv == IInv /\ ExTypeOK /\ RouteFollowsLines
=============================================================================
