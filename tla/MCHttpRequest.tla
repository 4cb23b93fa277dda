----------------------------- MODULE MCHttpRequest ----------------------------
(* The instances of HttpRequest that TLC checks. *)
EXTENDS HttpRequest

CONSTANT MaxAny, MaxHeaders, MaxBody

\* Any text at all, up to MaxAny tokens, of the tokens that differ in effect.
AnyText == BoundedSeq(Tokens \ {"len0", "len2"}, MaxAny)

\* Requests with up to MaxHeaders headers and MaxBody tokens after them.
HeaderTokens == {"hdr"} \cup DOMAIN Lengths
Headers(hs) == [i \in 1 .. 2 * Len(hs) |-> IF i % 2 = 1 THEN hs[(i + 1) \div 2] ELSE "nl"]
Requests == {<<"rl", "nl">> \o Headers(hs) \o <<"nl">> \o b :
               hs \in BoundedSeq(HeaderTokens, MaxHeaders),
               b \in BoundedSeq({"b", "nl"}, MaxBody)}

\* First lines with up to three words parted by carriage returns.
Words == {"b", "hdr", "cr"}
PartedWords == {<<u, "cr", v, "cr", w, "nl">> \o t :
                  u \in Words, v \in Words, w \in Words, t \in {<<>>, <<"len1", "nl", "nl", "b">>}}

MCInputs == AnyText \cup Requests \cup PartedWords
=============================================================================
