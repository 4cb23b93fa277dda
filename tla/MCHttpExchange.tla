---------------------------- MODULE MCHttpExchange ----------------------------
(* The instances of HttpExchange that TLC checks. *)
EXTENDS HttpExchange

MCExtension == [post |-> "none", get |-> "css"]

\* Whole and broken requests, to an API and to files; the longest do not fit into
\* one read.
MCInputs ==
  Posts \cup
  {<<"get", "nl", "hdr", "nl", "nl">>, <<"junk", "nl">>, <<"b", "cr", "b", "cr", "b", "nl">>,
   <<"cr", "post", "cr", "nl", "len1", "cr", "nl", "cr", "nl", "b">>,
   <<"b", "post", "nl", "nl">>, <<"post", "nl", "junk", "nl", "len1", "nl">>,
   <<"post", "nl", "hdr", "nl", "len2", "nl", "nl", "b", "b">>}
=============================================================================
