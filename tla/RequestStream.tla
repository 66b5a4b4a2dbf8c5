---------------------------- MODULE RequestStream ----------------------------
(***************************************************************************)
(* What main.swift promises the extension: the requests on stdin are taken *)
(* whole, in the order they were sent, one at a time; each one taken is    *)
(* answered at most once, before the next is taken; one that does not      *)
(* decode may be dropped, and the process may end at any moment.  Nothing  *)
(* here speaks of bytes: that a pipe delivers them in pieces and may end   *)
(* in the middle of a message must not show.                               *)
(***************************************************************************)
EXTENDS Naturals, Sequences

CONSTANTS Messages, Decodable, NoMessage

VARIABLES
  sent,      \* the messages sent whole, in order
  taken,     \* how many of them have been taken off the stream
  current,   \* the request being handled
  answered   \* the requests answered, in order

vars == <<sent, taken, current, answered>>

Init ==
  /\ sent = <<>>
  /\ taken = 0
  /\ current = NoMessage
  /\ answered = <<>>

Send(m) ==
  /\ sent' = Append(sent, m)
  /\ UNCHANGED <<taken, current, answered>>

Drop ==
  /\ current = NoMessage /\ taken < Len(sent)
  /\ sent[taken + 1] \notin Decodable
  /\ taken' = taken + 1
  /\ UNCHANGED <<sent, current, answered>>

Take ==
  /\ current = NoMessage /\ taken < Len(sent)
  /\ sent[taken + 1] \in Decodable
  /\ taken' = taken + 1
  /\ current' = sent[taken + 1]
  /\ UNCHANGED <<sent, answered>>

Answer ==
  /\ current # NoMessage
  /\ answered' = Append(answered, current)
  /\ current' = NoMessage
  /\ UNCHANGED <<sent, taken>>

(* The process ends, and with it the request it was handling.              *)
Abandon ==
  /\ current # NoMessage
  /\ current' = NoMessage
  /\ UNCHANGED <<sent, taken, answered>>

Next == (\E m \in Messages : Send(m)) \/ Drop \/ Take \/ Answer \/ Abandon

Spec == Init /\ [][Next]_vars
=============================================================================
