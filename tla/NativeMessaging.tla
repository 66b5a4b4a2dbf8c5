--------------------------- MODULE NativeMessaging ---------------------------
(***************************************************************************)
(* The host's end of native messaging (NativeMessaging.read): a 4-byte     *)
(* length, then that many bytes, from a pipe that hands over what it has   *)
(* and may end anywhere.                                                   *)
(*                                                                         *)
(* Bytes are positions in the stream.  A frame is known by the position it *)
(* begins at; four bytes say a message's length if they are the first four *)
(* of its frame, and might say anything at any other place.                *)
(***************************************************************************)
EXTENDS Naturals, Sequences

CONSTANTS
  Messages,
  Size,              \* Size[m]: the bytes of m without its length
  MaxMessageBytes,   \* what read() accepts (1 MB in the code)
  MaxSent            \* bound: the messages of one port

ASSUME SizeAssumption == Size \in [Messages -> Nat]
ASSUME LimitAssumption == MaxMessageBytes \in Nat /\ MaxSent \in Nat

VARIABLES
  sent,     \* the messages the browser has written, the last one perhaps cut
  begins,   \* begins[i]: where the frame of sent[i] begins
  written,  \* bytes in the pipe since it was opened
  closed,   \* the browser has closed its end
  part,     \* what read() is in: "header" or "body"
  start,    \* where the buffer of readExactly begins in the stream
  need,     \* how many bytes it was asked for
  got       \* how many it has

pipe   == <<sent, begins, written, closed>>
buffer == <<part, start, need, got>>

HeaderBytes == 4

EndOf(i)    == begins[i] + HeaderBytes + Size[sent[i]]
IsWhole(i)  == EndOf(i) <= written

StreamTypeOK ==
  /\ sent \in Seq(Messages)
  /\ begins \in Seq(Nat) /\ Len(begins) = Len(sent)
  /\ written \in Nat
  /\ closed \in BOOLEAN
  /\ part \in {"header", "body"}
  /\ start \in Nat /\ need \in Nat /\ got \in 0..need

StreamInit ==
  /\ sent = <<>> /\ begins = <<>> /\ written = 0 /\ closed = FALSE
  /\ part = "header" /\ start = 0 /\ need = HeaderBytes /\ got = 0

(***************************************************************************)
(* The browser's end.                                                      *)
(***************************************************************************)
Begin(m) ==
  /\ ~closed /\ Len(sent) < MaxSent
  /\ sent' = Append(sent, m)
  /\ begins' = Append(begins, written)
  /\ UNCHANGED buffer

Send(m) ==
  /\ Begin(m)
  /\ written' = written + HeaderBytes + Size[m]
  /\ UNCHANGED closed

(* The browser dies in the middle of a write.                              *)
SendCut(m) ==
  /\ Begin(m)
  /\ \E n \in 0..HeaderBytes + Size[m] - 1 : written' = written + n
  /\ closed' = TRUE

HangUp ==
  /\ ~closed
  /\ closed' = TRUE
  /\ UNCHANGED <<sent, begins, written, buffer>>

(***************************************************************************)
(* readExactly: a pipe read returns what it has, not what was asked for.   *)
(***************************************************************************)
Chunk ==
  /\ got < need /\ start + got < written
  /\ \E n \in 1..need - got :
       start + got + n <= written /\ got' = got + n
  /\ UNCHANGED <<pipe, part, start, need>>

(* Mutant: one read is taken for all of it.                                *)
CompleteEarly == got > 0

Complete == got = need

(* Mutant: an empty read is retried.                                       *)
ShortNever == FALSE

(* The stream has ended and the count is not met.                          *)
Short == got < need /\ start + got = written /\ closed

(***************************************************************************)
(* read(), between two calls of readExactly.                               *)
(***************************************************************************)
(* What the four bytes at position p may say.                              *)
SaysLength(p, n) ==
  \A i \in DOMAIN sent : begins[i] = p => n = Size[sent[i]]

Acceptable(n) == n > 0 /\ n <= MaxMessageBytes

ReadPart(which, count) ==
  /\ part' = which
  /\ start' = start + got
  /\ need' = count
  /\ got' = 0
  /\ UNCHANGED pipe

HeaderRead(n) ==
  /\ part = "header" /\ Complete /\ SaysLength(start, n)

(* The bytes in the buffer are those of the i-th message, and all of them: *)
(* only then is there a message in them that can decode.                   *)
Holds(i) ==
  /\ part = "body" /\ got = Size[sent[i]]
  /\ start = begins[i] + HeaderBytes
=============================================================================
