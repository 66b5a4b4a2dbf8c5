------------------------------- MODULE MCHost -------------------------------
(* Host for TLC: a message of each kind, with bodies of one and two bytes  *)
(* so that a body can arrive in pieces and be cut, and one that is over    *)
(* the limit.                                                              *)
EXTENDS Host

CONSTANTS hello, sign, pair, junk, huge

MCMessages == {hello, sign, pair, junk, huge}
MCSize == [m \in MCMessages |->
             CASE m \in {hello, junk} -> 2 [] m \in {sign, pair} -> 1 [] m = huge -> 3]
MCKind == [m \in MCMessages |->
             CASE m = hello -> "card" [] m \in {sign, huge} -> "sign"
               [] m = pair -> "plain" [] m = junk -> "undecodable"]
=============================================================================
