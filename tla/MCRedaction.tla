---------------------------- MODULE MCRedaction -----------------------------
(* Redaction on small instances: payloads are put together from pieces.     *)
EXTENDS Redaction

CONSTANTS Pieces,    \* what payloads consist of
          MaxPieces  \* bound: how many pieces a payload has

Join(pieces) == Seqs!FlattenSeq(pieces)

Github == <<"ghp", "_", "r">>
Slack  == <<"xox", "-", "r">>
Jwt    == <<"eyJ", "r", ".", "eyJ", "r", ".", "r">>
Random == <<"r", "r">>

(* Tokens, a random run, a keyword, what may set them apart or join them,   *)
(* and the characters of placeholders                                       *)
AllPieces ==
  {Github, Slack, Jwt, Random} \cup
  {<<c>> : c \in {" password=", "_", "-", "+", " ", "1", "G"}}

(* Two tokens and a hyphen *)
Hyphenated == {Github, Slack, <<"-">>}

(* A token and a random run set apart *)
Apart == {Github, Random, <<" ">>}

Payloads1 == UNION {{Join(w) : w \in [1 .. n -> Pieces]} : n \in 1 .. MaxPieces}

(* A fresh session, and one in which two tokens are already named: with the *)
(* first in it the payload's tokens come to share a name or follow on       *)
SessionsBefore == {<<>>, <<Github>>, <<Slack \o <<"1">>, Github>>}
=============================================================================
