------------------------------ MODULE MCListing ------------------------------
(* Listing for TLC: a signing card whose certificates fill a page exactly, *)
(* one that numbers its objects alike and has a longer list with gaps, and *)
(* a token that was never initialised.                                     *)
EXTENDS Listing

CONSTANTS own, other, blank, key, ca

MCCards == {own, other, blank}

Holding(i, d) == [id |-> i, der |-> d]

MCObjects == [c \in MCCards |->
  CASE c = own ->
         [public_key |-> <<Holding(key, FALSE)>>,
          certificate |-> <<Holding(key, TRUE), Holding(ca, TRUE)>>]
    [] c = other ->
         [public_key |-> <<Holding(ca, FALSE), Holding(NoId, FALSE)>>,
          certificate |-> <<Holding(key, TRUE), Holding(NoId, FALSE), Holding(NoId, TRUE)>>]
    [] c = blank -> [public_key |-> <<>>, certificate |-> <<>>]]
=============================================================================
