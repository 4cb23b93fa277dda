------------------------------ MODULE HttpRequest ------------------------------
(***************************************************************************)
(* HttpRequest: the incremental parser, fed with pieces of the input of any*)
(* size, cut anywhere.  One action is the entry of parse() or one turn of  *)
(* its loop.                                                               *)
(*                                                                         *)
(* The input is a sequence of tokens: "nl" and "cr" are the characters of  *)
(* that name, a request line a text of three words, "len0".. a             *)
(* Content-Length header with its value, "hdr" any other text with a colon,*)
(* "junk" a text without a colon, "b" another character.  Only request     *)
(* lines and "cr" have white space.  The text before pos is dropped from   *)
(* the buffer at once: nobody looks at it again.                           *)
(***************************************************************************)
EXTENDS Integers, Sequences, SequencesExt, FiniteSetsExt

CONSTANTS
  RequestLines,  (* texts of three words                                   *)
  Inputs         (* the inputs a client may send                           *)

Lengths == [len0 |-> 0, len1 |-> 1, len2 |-> 2]
Others  == {"hdr", "junk", "cr", "nl", "b"} \cup DOMAIN Lengths
Tokens  == RequestLines \cup Others

ASSUME HttpRequestAssumption ==
  RequestLines \cap Others = {} /\ Inputs \subseteq Seq(Tokens)

VARIABLES
  rest,    (* what the client has yet to send                              *)
  fed,     (* history: what parse() was given since the last reset()       *)
  inCall,  (* parse() is running                                           *)
  buffer,  (* buffer_ from pos on                                          *)
  state,   (* state_                                                       *)
  lines,   (* the request line and the header lines accepted               *)
  body     (* body_                                                        *)

vars == <<rest, fed, inCall, buffer, state, lines, body>>

Line == Seq(Tokens \ {"nl"})

TypeOK ==
  /\ rest \in Seq(Tokens) /\ fed \in Seq(Tokens) /\ inCall \in BOOLEAN
  /\ buffer \in Seq(Tokens) /\ body \in Seq(Tokens) /\ lines \in Seq(Line)
  /\ state \in {"requestLine", "header", "body", "done", "error"}

Init == /\ rest \in Inputs /\ fed = <<>> /\ inCall = FALSE
        /\ buffer = <<>> /\ state = "requestLine" /\ lines = <<>> /\ body = <<>>

-----------------------------------------------------------------------------
(* What a line says *)

\* Where the words of a line start, as far as carriage returns part them.
WordStarts(l) == {i \in DOMAIN l : l[i] # "cr" /\ (i = 1 \/ l[i - 1] = "cr")}

\* parseRequestLine finds three words, between any white space.
GoodRequestLine(l) ==
  (\E i \in DOMAIN l : l[i] \in RequestLines) \/ Cardinality(WordStarts(l)) >= 3

\* parseHeaderLine finds a colon.
GoodHeaderLine(l) == \E i \in DOMAIN l : l[i] \in {"hdr"} \cup DOMAIN Lengths

\* Its key is content-length, and its value the number before any other text.
DeclaresLength(l) == l # <<>> /\ l[1] \in DOMAIN Lengths

\* getContentLength: the header line that came last has overwritten the others.
ContentLength(ls) ==
  LET declaring == {i \in 2 .. Len(ls) : DeclaresLength(ls[i])}
  IN  IF declaring = {} THEN 0 ELSE Lengths[ls[Max(declaring)][1]]

-----------------------------------------------------------------------------
(* parse() *)

\* parse() is called with the next n characters.
Call(n) ==
  /\ ~inCall /\ inCall' = TRUE
  /\ buffer' = buffer \o SubSeq(rest, 1, n) /\ fed' = fed \o SubSeq(rest, 1, n)
  /\ rest' = SubSeq(rest, n + 1, Len(rest))
  /\ UNCHANGED <<state, lines, body>>

HasLine == \E i \in DOMAIN buffer : buffer[i] = "nl"

LineEnd == Min({i \in DOMAIN buffer : buffer[i] = "nl"})

\* Mutant of CurrentLine: substr takes the end of the line too.
CurrentLineWithEnd == SubSeq(buffer, 1, LineEnd)

CurrentLine == SubSeq(buffer, 1, LineEnd - 1)

AfterLine == SubSeq(buffer, LineEnd + 1, Len(buffer))

Parsing(s) == inCall /\ state = s

AcceptLine(next) ==
  /\ lines' = Append(lines, CurrentLine) /\ buffer' = AfterLine /\ state' = next
  /\ UNCHANGED <<rest, fed, inCall, body>>

Fail == /\ state' = "error" /\ inCall' = FALSE
        /\ UNCHANGED <<rest, fed, buffer, lines, body>>

Return == inCall' = FALSE /\ UNCHANGED <<rest, fed, buffer, state, lines, body>>

ParseRequestLine ==
  /\ Parsing("requestLine") /\ HasLine
  /\ IF GoodRequestLine(CurrentLine) THEN AcceptLine("header") ELSE Fail

ParseHeaderLine ==
  /\ Parsing("header") /\ HasLine /\ CurrentLine # <<>>
  /\ IF GoodHeaderLine(CurrentLine) THEN AcceptLine("header") ELSE Fail

\* An empty line ends the headers, and this call of parse().
ParseBlankLine ==
  /\ Parsing("header") /\ HasLine /\ CurrentLine = <<>>
  /\ state' = "body" /\ buffer' = AfterLine /\ inCall' = FALSE
  /\ UNCHANGED <<rest, fed, lines, body>>

\* Mutant of AwaitLine: the piece of a line is dropped with the text before it.
AwaitLineDropsIt ==
  /\ state \in {"requestLine", "header"} /\ inCall /\ ~HasLine
  /\ inCall' = FALSE /\ buffer' = <<>>
  /\ UNCHANGED <<rest, fed, state, lines, body>>

\* Mutant of AwaitLine: the loop looks for the line again.
AwaitLineAgain ==
  /\ state \in {"requestLine", "header"} /\ inCall /\ ~HasLine
  /\ UNCHANGED vars

AwaitLine ==
  /\ state \in {"requestLine", "header"} /\ inCall /\ ~HasLine
  /\ Return

BodyArrived == Len(buffer) >= ContentLength(lines)

ParseBody ==
  /\ Parsing("body") /\ BodyArrived
  /\ body' = SubSeq(buffer, 1, ContentLength(lines))
  /\ state' = "done" /\ inCall' = FALSE
  /\ UNCHANGED <<rest, fed, buffer, lines>>

AwaitBody == Parsing("body") /\ ~BodyArrived /\ Return

\* A finished parser takes no notice of what it is given.
Ignore == inCall /\ state \in {"done", "error"} /\ Return

Reset ==
  /\ ~inCall /\ fed' = <<>>
  /\ buffer' = <<>> /\ state' = "requestLine" /\ lines' = <<>> /\ body' = <<>>
  /\ UNCHANGED <<rest, inCall>>

\* A turn of the loop.
Turn == \/ ParseRequestLine \/ ParseHeaderLine \/ ParseBlankLine \/ AwaitLine
        \/ ParseBody \/ AwaitBody \/ Ignore

Next == Turn \/ Reset \/ \E n \in 1 .. Len(rest) : Call(n)

Spec == Init /\ [][Next]_vars

-----------------------------------------------------------------------------
(* The same input, looked at as a whole *)

Newlines(s) == {i \in DOMAIN s : s[i] = "nl"}

\* How many of the numbers in S are not above i.
Rank(S, i) == Cardinality({j \in S : j <= i})

\* Where the lines end, in order.
Ends(s) ==
  [k \in 1 .. Cardinality(Newlines(s)) |-> CHOOSE i \in Newlines(s) : Rank(Newlines(s), i) = k]

\* Where line k ends, line 0 being what is before the input.
EndOf(s, k) == IF k = 0 THEN 0 ELSE Ends(s)[k]

LineOf(s, k) == SubSeq(s, EndOf(s, k - 1) + 1, EndOf(s, k) - 1)

GoodLine(s, k) ==
  IF k = 1 THEN GoodRequestLine(LineOf(s, 1)) ELSE GoodHeaderLine(LineOf(s, k))

\* How many lines from the first on make a request line and header lines.
GoodLines(s) == Max({n \in 0 .. Len(Ends(s)) : \A k \in 1 .. n : GoodLine(s, k)})

StateOf(s) ==
  LET n == GoodLines(s)
  IN  IF n = Len(Ends(s))                       THEN IF n = 0 THEN "requestLine" ELSE "header"
      ELSE IF n > 0 /\ LineOf(s, n + 1) = <<>>  THEN "body"
      ELSE                                           "error"

\* The body of a finished request: what came after the empty line, as long as the
\* last Content-Length said.
DoneHasBody ==
  state = "done" =>
    LET from == EndOf(fed, Len(lines) + 1)
    IN  /\ from + ContentLength(lines) <= Len(fed)
        /\ body = SubSeq(fed, from + 1, from + ContentLength(lines))

\* However the input was cut, the parser has accepted the lines that the whole
\* of it has, and is where the whole of it ends; only whether the body was
\* looked at depends on the cuts.  A request that is done has all of its body
\* and nothing else.
ParsedAsWhole ==
  ~inCall =>
    /\ lines = [k \in 1 .. GoodLines(fed) |-> LineOf(fed, k)]
    /\ StateOf(fed) = IF state = "done" THEN "body" ELSE state
    /\ DoneHasBody

\* Each turn of the loop takes a line off the buffer or is the last one: parse()
\* returns whatever it is given.
EachTurnCounts == [][Turn => ~inCall' \/ Len(buffer') < Len(buffer)]_vars

-----------------------------------------------------------------------------
(* The inductive invariant of the proofs: the parser at each turn of its loop *)

\* The lines taken off the input: those accepted, and the empty one.
Taken == Len(lines) + IF state \in {"body", "done"} THEN 1 ELSE 0

\* The buffer is what is left of the input after them.
BufferIsRest ==
  /\ Taken <= Len(Ends(fed))
  /\ buffer = SubSeq(fed, EndOf(fed, Taken) + 1, Len(fed))

LinesAreInput ==
  \A k \in 1 .. Len(lines) : lines[k] = LineOf(fed, k) /\ GoodLine(fed, k)

\* The state says what came after the lines accepted: nothing that is a line yet, the
\* empty line, or a line that is neither good nor, among the headers, empty.
StateFollowsLines ==
  /\ state = "requestLine" => lines = <<>>
  /\ state \in {"header", "body", "done"} => lines # <<>>
  /\ state \in {"body", "done"} => LineOf(fed, Len(lines) + 1) = <<>>
  /\ state = "error" => /\ Len(lines) < Len(Ends(fed))
                        /\ ~GoodLine(fed, Len(lines) + 1)
                        /\ lines # <<>> => LineOf(fed, Len(lines) + 1) # <<>>

\* parse() returns from these states only when no line is left in the buffer.
AllLinesTaken ==
  ~inCall /\ state \in {"requestLine", "header"} => Taken = Len(Ends(fed))

IInv == /\ TypeOK /\ BufferIsRest /\ LinesAreInput /\ StateFollowsLines
        /\ AllLinesTaken /\ DoneHasBody
=============================================================================
