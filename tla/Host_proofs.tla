----------------------------- MODULE Host_proofs -----------------------------
(***************************************************************************)
(* Proofs about Host, for any messages, limits and number of requests.     *)
(*                                                                         *)
(* Frames says where the frames are in the pipe, InStep that read() is at  *)
(* the one it takes itself to be at: on the two rests that the requests    *)
(* are taken whole and in order.  LibraryInv says at each point of the     *)
(* process what it knows of the library behind it.                         *)
(***************************************************************************)
EXTENDS Host, SequenceTheorems, TLAPS

(* Each frame begins where the one before it ends, and only the last can   *)
(* be cut, by the end of the stream.                                       *)
Frames ==
  /\ sent = <<>> => written = 0
  /\ \A i \in DOMAIN sent :
       /\ begins[i] <= written
       /\ i < Len(sent) => begins[i + 1] = EndOf(i)
       /\ i = 1 => begins[i] = 0
       /\ i = Len(sent) => written <= EndOf(i)
       /\ i < Len(sent) \/ ~closed => EndOf(i) <= written
  /\ \A i, j \in DOMAIN sent : i < j => EndOf(i) <= begins[j]

FrameAt(k) == IF k <= Len(sent) THEN begins[k] ELSE written

AtCut == closed /\ start = written /\ taken = Len(WholeMessages)

InStep ==
  /\ start + got <= written
  /\ part = "header" => need = HeaderBytes /\ (start = FrameAt(taken + 1) \/ AtCut)
  /\ part = "body" =>
       /\ taken < Len(sent)
       /\ start = begins[taken + 1] + HeaderBytes
       /\ need = Size[sent[taken + 1]]

StreamInv == StreamTypeOK /\ taken \in 0..Len(sent) /\ Frames /\ InStep

LoopInv ==
  /\ pc \in {"read", "finalize", "deinit", "dlclose", "_exit", "hung"}
              \cup Serving \cup Ended
  /\ request \in Messages \cup {NoMessage}
  /\ answered \in Seq(Messages)
  /\ leaving \in BOOLEAN
  /\ leaving => request = NoMessage
  /\ pc = "read" => request = NoMessage /\ ~leaving
  /\ pc \in Serving => request \in Messages /\ ~leaving
  /\ pc = "finalize" => leaving
  /\ pc \in {"deinit", "dlclose"} /\ ~leaving => request \in Messages

LibraryInv ==
  /\ service \in BOOLEAN /\ active \in BOOLEAN
  /\ mapped \in Nat /\ refused \in Nat
  /\ pc \in Serving \cup {"read", "finalize"} => (active <=> service) /\ (service => mapped > 0)
  /\ pc \in Getting => ~service
  /\ pc \in Getting \ {"dlopen"} => mapped > 0
  /\ pc = "deinit" =>
       IF leaving THEN service /\ mapped > 0 /\ (active => refused > 0)
                  ELSE ~service /\ ~active
  /\ pc = "dlclose" => ~service /\ (active => leaving /\ refused > 1)
  /\ pc \in {"_exit", "exited", "hung"} => ~service /\ (active => refused > 1)
  /\ pc = "hung" => active
  /\ pc \in {"crashed", "killed"} => (service => active /\ mapped > 0)

Unmoved == UNCHANGED <<pipe, buffer, taken>>

-----------------------------------------------------------------------------
LEMMA UnmovedStream == ASSUME StreamInv, Unmoved PROVE StreamInv'
BY DEF StreamInv, Unmoved, StreamTypeOK, Frames, InStep, FrameAt, AtCut, EndOf,
       WholeMessages, IsWhole, pipe, buffer

LEMMA ReceiveStream == ASSUME StreamInv, Receive PROVE StreamInv'
<1> USE DEF StreamInv, StreamTypeOK, InStep, Receive, Chunk, pipe, loop
<1>1. StreamTypeOK' /\ taken' = taken
  OBVIOUS
<1>2. Frames'
  BY DEF Frames, EndOf
<1>3. AtCut => got' = got
  BY DEF AtCut
<1>4. InStep'
  BY <1>3 DEF FrameAt, AtCut, WholeMessages, EndOf, IsWhole
<1> QED BY <1>1, <1>2, <1>4

(* A complete length is the length of the frame that is due.               *)
LEMMA HeaderIsDue ==
  ASSUME StreamInv, NEW n \in Nat, HeaderRead(n)
  PROVE  taken < Len(sent) /\ start = begins[taken + 1] /\ n = Size[sent[taken + 1]]
<1> USE DEF StreamInv, StreamTypeOK, InStep, HeaderRead, Complete, HeaderBytes
<1>1. start + HeaderBytes <= written
  OBVIOUS
<1>2. start = FrameAt(taken + 1)
  BY <1>1 DEF AtCut
<1>3. taken < Len(sent) /\ start = begins[taken + 1]
  <2>1. start + 4 <= written /\ start \in Nat /\ written \in Nat
    BY <1>1
  <2>2. taken \in Nat /\ Len(sent) \in Nat
    OBVIOUS
  <2>3. start # written
    BY ONLY <2>1
  <2>4. taken + 1 <= Len(sent)
    BY ONLY <1>2, <2>3 DEF FrameAt
  <2>5. taken < Len(sent)
    BY ONLY <2>2, <2>4
  <2> QED BY ONLY <1>2, <2>4, <2>5 DEF FrameAt
<1>4. SaysLength(start, n)
  OBVIOUS
<1>5. taken + 1 \in DOMAIN sent
  BY <1>3
<1> QED BY ONLY <1>3, <1>4, <1>5 DEF SaysLength

LEMMA ReadHeaderStream == ASSUME StreamInv, ReadHeader PROVE StreamInv'
<1>1. PICK n \in 0..MaxMessageBytes + 1 :
        /\ HeaderRead(n)
        /\ \/ Acceptable(n) /\ ReadPart("body", n) /\ UNCHANGED <<loop, library>>
           \/ ~Acceptable(n) /\ UNCHANGED <<pipe, buffer>> /\ Leave
  BY DEF ReadHeader
<1>2. n \in Nat
  BY LimitAssumption
<1>3. CASE ReadPart("body", n) /\ UNCHANGED loop
  <2> USE <1>1, <1>2, <1>3, HeaderIsDue
      DEF StreamInv, StreamTypeOK, ReadPart, pipe, loop, HeaderRead, Complete
  <2>1. StreamTypeOK' /\ taken' = taken
    BY DEF InStep
  <2>2. Frames'
    BY DEF Frames, EndOf
  <2>3. InStep'
    BY DEF InStep, HeaderBytes
  <2> QED BY <2>1, <2>2, <2>3
<1>4. CASE UNCHANGED <<pipe, buffer>> /\ Leave
  BY <1>4, UnmovedStream DEF Leave, Unmoved, pipe, buffer
<1> QED BY <1>1, <1>3, <1>4

LEMMA FrameTypes ==
  ASSUME StreamInv
  PROVE  /\ DOMAIN sent = 1..Len(sent) /\ Len(sent) \in Nat
         /\ \A i \in 1..Len(sent) :
              /\ begins[i] \in Nat /\ Size[sent[i]] \in Nat
              /\ EndOf(i) = begins[i] + 4 + Size[sent[i]] /\ EndOf(i) \in Nat
<1> USE DEF StreamInv, StreamTypeOK
<1>1. DOMAIN sent = 1..Len(sent) /\ Len(sent) \in Nat
  OBVIOUS
<1>2. ASSUME NEW i \in 1..Len(sent)
      PROVE  begins[i] \in Nat /\ Size[sent[i]] \in Nat
  <2>1. sent[i] \in Messages /\ begins[i] \in Nat
    OBVIOUS
  <2> QED BY <2>1, SizeAssumption
<1> QED BY <1>1, <1>2 DEF EndOf, HeaderBytes

(* The buffer holds the frame that is due or none.                         *)
LEMMA HeldIsDue ==
  ASSUME StreamInv, NEW i \in DOMAIN sent, Holds(i)
  PROVE  i = taken + 1 /\ Complete
<1>1. /\ taken < Len(sent) /\ taken \in Nat
      /\ start = begins[taken + 1] + 4 /\ start = begins[i] + 4
      /\ need = Size[sent[taken + 1]] /\ got = Size[sent[i]]
  BY DEF StreamInv, InStep, Holds, HeaderBytes
<1>2. i \in 1..Len(sent) /\ taken + 1 \in 1..Len(sent)
  BY <1>1, FrameTypes
<1>3. \A k \in {i, taken + 1} :
        k \in DOMAIN sent /\ begins[k] \in Nat /\ EndOf(k) \in Nat /\ begins[k] < EndOf(k)
  BY <1>2, FrameTypes, SMTT(30)
<1>4. begins[i] = begins[taken + 1]
  BY <1>1, <1>3
<1>5. \A j, k \in DOMAIN sent : j < k => EndOf(j) <= begins[k]
  BY DEF StreamInv, Frames
<1>6. ~(i < taken + 1)
  <2>1. i < taken + 1 => EndOf(i) <= begins[taken + 1]
    BY <1>3, <1>5
  <2> QED BY <1>3, <1>4, <2>1
<1>7. ~(taken + 1 < i)
  <2>1. taken + 1 < i => EndOf(taken + 1) <= begins[i]
    BY <1>3, <1>5
  <2> QED BY <1>3, <1>4, <2>1
<1>8. i = taken + 1
  BY <1>1, <1>2, <1>6, <1>7
<1> QED BY <1>1, <1>8 DEF Complete

(* What a body leaves behind, whole or cut.                                *)
LEMMA BodyStream ==
  ASSUME StreamInv, part = "body", Complete \/ (Short /\ got > 0),
         ReadPart("header", HeaderBytes),
         taken' = IF Complete THEN taken + 1 ELSE taken
  PROVE  StreamInv'
<1>1. /\ taken < Len(sent) /\ taken \in Nat /\ Len(sent) \in Nat
      /\ taken + 1 \in 1..Len(sent) /\ DOMAIN sent = 1..Len(sent)
      /\ begins[taken + 1] \in Nat /\ Size[sent[taken + 1]] \in Nat
      /\ EndOf(taken + 1) = begins[taken + 1] + 4 + Size[sent[taken + 1]]
      /\ EndOf(taken + 1) \in Nat
      /\ start = begins[taken + 1] + 4
      /\ need = Size[sent[taken + 1]]
      /\ got \in 0..need /\ written \in Nat /\ start + got <= written
  <2>1. /\ taken < Len(sent) /\ taken \in Nat
        /\ start = begins[taken + 1] + 4 /\ need = Size[sent[taken + 1]]
        /\ got \in 0..need /\ written \in Nat /\ start + got <= written
    BY DEF StreamInv, StreamTypeOK, InStep, HeaderBytes
  <2>2. taken + 1 \in 1..Len(sent)
    BY <2>1, FrameTypes
  <2> QED BY <2>1, <2>2, FrameTypes
<1>2. /\ part' = "header" /\ start' = start + got /\ need' = 4 /\ got' = 0
      /\ UNCHANGED <<sent, begins, written, closed>>
  BY DEF ReadPart, HeaderBytes, pipe
<1>3. StreamTypeOK' /\ taken' \in 0..Len(sent')
  <2>1. taken' \in 0..Len(sent')
    BY <1>1, <1>2, SMTT(30)
  <2>2. start' \in Nat /\ need' \in Nat /\ got' \in 0..need'
    <3>1. begins[taken + 1] \in Nat /\ start = begins[taken + 1] + 4
      BY <1>1
    <3>2. got \in Nat
      BY <1>1
    <3>3. start' = start + got /\ need' = 4 /\ got' = 0
      BY <1>2
    <3> QED BY ONLY <3>1, <3>2, <3>3
  <2>3. /\ sent \in Seq(Messages) /\ begins \in Seq(Nat) /\ Len(begins) = Len(sent)
        /\ written \in Nat /\ closed \in BOOLEAN
    BY DEF StreamInv, StreamTypeOK
  <2> QED BY <1>2, <2>1, <2>2, <2>3, SMTT(30) DEF StreamTypeOK
<1>4. Frames'
  BY <1>2 DEF StreamInv, Frames, EndOf
<1>5. start' + got' <= written'
  BY <1>1, <1>2
<1>6. CASE Complete
  <2>1. start' = EndOf(taken + 1) /\ taken' = taken + 1
    BY <1>1, <1>2, <1>6 DEF Complete
  <2>2. CASE taken + 1 < Len(sent)
    <3>1. begins[taken + 1 + 1] = EndOf(taken + 1)
      BY <1>1, <2>2 DEF StreamInv, Frames
    <3>2. FrameAt(taken + 1)' = begins[taken + 1 + 1]
      BY <1>1, <1>2, <2>1, <2>2 DEF FrameAt
    <3> QED BY <1>2, <1>3, <1>4, <1>5, <2>1, <3>1, <3>2
         DEF StreamInv, InStep, HeaderBytes, FrameAt
  <2>3. CASE taken + 1 = Len(sent)
    <3>1. written <= EndOf(taken + 1)
      BY <1>1, <2>3 DEF StreamInv, Frames
    <3>2. start' = written
      BY <1>1, <1>2, <1>6, <3>1 DEF Complete
    <3>3. start' = FrameAt(taken + 1)'
      BY <1>1, <1>2, <2>1, <2>3, <3>2 DEF FrameAt
    <3> QED BY <1>2, <1>3, <1>4, <1>5, <3>3 DEF StreamInv, InStep, HeaderBytes, FrameAt
  <2>4. taken \in Nat /\ Len(sent) \in Nat /\ taken < Len(sent)
    BY <1>1
  <2>5. taken + 1 < Len(sent) \/ taken + 1 = Len(sent)
    BY <2>4
  <2> QED BY <2>2, <2>3, <2>5
<1>7. CASE Short /\ ~Complete
  <2>1. closed /\ start' = written /\ written < EndOf(taken + 1) /\ taken' = taken
    BY <1>1, <1>2, <1>7, SMTT(30) DEF Short
  <2>2. taken + 1 = Len(sent)
    <3>1. taken + 1 < Len(sent) => EndOf(taken + 1) <= written
      BY <1>1 DEF StreamInv, Frames
    <3>2. EndOf(taken + 1) \in Nat /\ written \in Nat /\ written < EndOf(taken + 1)
      BY <1>1, <2>1
    <3>3. ~(taken + 1 < Len(sent))
      BY <3>1, <3>2
    <3>4. taken \in Nat /\ Len(sent) \in Nat /\ taken < Len(sent)
      BY <1>1
    <3> QED BY <3>3, <3>4
  <2>3. sent # <<>> /\ ~IsWhole(Len(sent))
    BY <1>1, <2>1, <2>2 DEF IsWhole
  <2>4. WholeMessages = SubSeq(sent, 1, Len(sent) - 1)
    BY <2>3 DEF WholeMessages
  <2>5. Len(WholeMessages) = taken
    BY <1>1, <2>2, <2>4 DEF StreamInv, StreamTypeOK
  <2>6. WholeMessages' = WholeMessages
    BY <1>2 DEF WholeMessages, IsWhole, EndOf
  <2>7. AtCut'
    BY <1>2, <2>1, <2>5, <2>6 DEF AtCut
  <2> QED BY <1>2, <1>3, <1>4, <1>5, <2>7 DEF StreamInv, InStep, HeaderBytes
<1> QED BY <1>6, <1>7

LEMMA ReadBodyTakes ==
  ASSUME StreamInv, ReadBody PROVE taken' = IF Complete THEN taken + 1 ELSE taken
<1>1. CASE Complete
  <2>1. taken < Len(sent) /\ taken \in Nat
    BY DEF StreamInv, InStep, ReadBody
  <2>2. taken + 1 \in DOMAIN sent /\ Holds(taken + 1)
    BY <1>1, <2>1, FrameTypes DEF StreamInv, InStep, Complete, Holds, ReadBody
  <2> QED BY <1>1, <2>2 DEF ReadBody
<1>2. CASE ~Complete
  BY <1>2, HeldIsDue DEF ReadBody
<1> QED BY <1>1, <1>2

LEMMA ReadBodyStream == ASSUME StreamInv, ReadBody PROVE StreamInv'
BY ReadBodyTakes, BodyStream DEF ReadBody

(* The browser writes behind everything that is there.                     *)
LEMMA BrowserStream ==
  ASSUME StreamInv, ~closed, NEW m \in Messages, Begin(m), UNCHANGED taken,
         written' \in written..written + HeaderBytes + Size[m],
         closed' \in BOOLEAN,
         ~closed' => written' = written + HeaderBytes + Size[m]
  PROVE  StreamInv'
<1> PICK n \in Nat : n = Len(sent)
  BY FrameTypes
<1>1. Size[m] \in Nat /\ written \in Nat /\ n \in Nat /\ Len(begins) = n
  BY SizeAssumption DEF StreamInv, StreamTypeOK
<1>2. sent' = Append(sent, m) /\ begins' = Append(begins, written)
  BY DEF Begin
<1>3. sent' \in Seq(Messages) /\ begins' \in Seq(Nat) /\ Len(begins') = Len(sent')
  BY <1>1, <1>2 DEF StreamInv, StreamTypeOK
<1>4. Len(sent') = n + 1 /\ DOMAIN sent' = 1..n + 1 /\ DOMAIN sent = 1..n
  BY <1>1, <1>2, FrameTypes DEF StreamInv, StreamTypeOK
<1>5. sent'[n + 1] = m /\ begins'[n + 1] = written
  BY <1>1, <1>2 DEF StreamInv, StreamTypeOK
<1>6. \A i \in 1..n : sent'[i] = sent[i] /\ begins'[i] = begins[i]
  BY <1>1, <1>2 DEF StreamInv, StreamTypeOK
<1>7. EndOf(n + 1)' = written + 4 + Size[m]
  BY <1>5 DEF EndOf, HeaderBytes
<1>8. \A i \in 1..n : EndOf(i)' = EndOf(i)
  BY <1>6 DEF EndOf
<1>9. \A i \in 1..n : begins[i] <= written /\ EndOf(i) <= written
                      /\ begins[i] \in Nat /\ EndOf(i) \in Nat
  BY <1>4, FrameTypes DEF StreamInv, Frames
<1>10. written' \in Nat /\ written <= written' /\ written' <= written + 4 + Size[m]
  BY <1>1 DEF HeaderBytes
<1>11. StreamTypeOK' /\ taken' \in 0..Len(sent')
  <2>1. taken' \in 0..n + 1
    BY <1>1 DEF StreamInv
  <2> QED BY <1>3, <1>4, <1>10, <2>1 DEF StreamInv, StreamTypeOK, Begin, buffer
<1>12. Frames'
  <2>1. ASSUME NEW i \in 1..n + 1
        PROVE  /\ begins'[i] <= written'
               /\ i < Len(sent') => begins'[i + 1] = EndOf(i)'
               /\ i = 1 => begins'[i] = 0
               /\ i = Len(sent') => written' <= EndOf(i)'
               /\ i < Len(sent') \/ ~closed' => EndOf(i)' <= written'
    <3>1. CASE i = n + 1
      <4>1. i = 1 => written = 0
        BY <1>1, <3>1 DEF StreamInv, StreamTypeOK, Frames
      <4> QED BY <1>1, <1>4, <1>5, <1>7, <1>10, <3>1, <4>1 DEF HeaderBytes
    <3>2. CASE i \in 1..n /\ i = n
      <4>1. written = EndOf(i)
        BY <1>1, <1>4, <1>9, <3>2 DEF StreamInv, StreamTypeOK, Frames
      <4>2. i = 1 => begins[i] = 0
        BY <1>4, <3>2 DEF StreamInv, Frames
      <4> QED BY <1>1, <1>4, <1>5, <1>6, <1>8, <1>9, <1>10, <3>2, <4>1, <4>2, SMTT(30)
    <3>3. CASE i \in 1..n /\ i < n
      <4>1. begins[i + 1] = EndOf(i) /\ (i = 1 => begins[i] = 0)
        BY <1>1, <1>4, <3>3 DEF StreamInv, Frames
      <4>2. i + 1 \in 1..n
        BY <1>1, <3>3
      <4>3. /\ begins'[i] = begins[i] /\ begins'[i + 1] = begins[i + 1] /\ EndOf(i)' = EndOf(i)
            /\ begins[i] \in Nat /\ EndOf(i) \in Nat /\ begins[i] <= written /\ EndOf(i) <= written
        BY <1>6, <1>8, <1>9, <3>3, <4>2
      <4> QED BY <1>1, <1>4, <1>10, <3>3, <4>1, <4>3
    <3> QED BY <1>1, <3>1, <3>2, <3>3
  <2>2. ASSUME NEW i \in 1..n + 1, NEW j \in 1..n + 1, i < j
        PROVE  EndOf(i)' <= begins'[j]
    <3>1. i \in 1..n
      BY <1>1, <2>2
    <3>2. CASE j = n + 1
      BY <1>5, <1>8, <1>9, <3>1, <3>2
    <3>3. CASE j \in 1..n
      BY <1>4, <1>6, <1>8, <2>2, <3>1, <3>3 DEF StreamInv, Frames
    <3> QED BY <1>1, <3>2, <3>3
  <2>3. sent' # <<>>
    BY <1>1, <1>4
  <2> QED BY <1>4, <2>1, <2>2, <2>3 DEF Frames
<1>13. InStep'
  <2>1. start' + got' <= written' /\ UNCHANGED <<part, start, need, got, taken>>
    BY <1>1, <1>10 DEF StreamInv, StreamTypeOK, InStep, Begin, buffer
  <2>2. ASSUME part = "header"
        PROVE  need = HeaderBytes /\ start = FrameAt(taken + 1)'
    <3>1. need = HeaderBytes /\ start = FrameAt(taken + 1) /\ taken \in 0..n
      BY <2>2 DEF StreamInv, InStep, AtCut
    <3>2. CASE taken + 1 <= n
      BY <1>1, <1>4, <1>6, <2>1, <3>1, <3>2 DEF FrameAt
    <3>3. CASE taken = n
      BY <1>1, <1>4, <1>5, <2>1, <3>1, <3>3 DEF FrameAt
    <3> QED BY <1>1, <3>1, <3>2, <3>3
  <2>3. ASSUME part = "body"
        PROVE  /\ taken < n + 1
               /\ start = begins'[taken + 1] + HeaderBytes
               /\ need = Size[sent'[taken + 1]]
    <3>1. taken \in Nat /\ taken < n /\ taken + 1 \in 1..n
      BY <1>1, <2>3 DEF StreamInv, InStep
    <3> QED BY <1>1, <1>6, <2>3, <3>1 DEF StreamInv, InStep
  <2> QED BY <1>4, <2>1, <2>2, <2>3 DEF InStep, FrameAt
<1> QED BY <1>11, <1>12, <1>13 DEF StreamInv

LEMMA EndOfStreamUnmoved == ASSUME EndOfStream PROVE Unmoved
BY DEF EndOfStream, Leave, Unmoved, pipe, buffer

LEMMA SendStream ==
  ASSUME StreamInv, NEW m \in Messages, Send(m) \/ SendCut(m), UNCHANGED taken
  PROVE  StreamInv'
<1>1. Size[m] \in Nat /\ written \in Nat /\ closed = FALSE /\ Begin(m)
  BY SizeAssumption DEF StreamInv, StreamTypeOK, Send, SendCut, Begin
<1>2. closed' \in BOOLEAN /\ (~closed' => written' = written + HeaderBytes + Size[m])
  BY <1>1 DEF Send, SendCut
<1>3. written' \in written..written + HeaderBytes + Size[m]
  <2>1. CASE Send(m)
    BY <1>1, <2>1 DEF Send, HeaderBytes
  <2>2. CASE SendCut(m)
    BY <1>1, <2>2 DEF SendCut, HeaderBytes
  <2> QED BY <2>1, <2>2
<1> QED BY <1>1, <1>2, <1>3, BrowserStream

LEMMA HangUpStream == ASSUME StreamInv, HangUp, UNCHANGED taken PROVE StreamInv'
<1> USE DEF StreamInv, StreamTypeOK, HangUp, buffer
<1>1. Frames'
  BY DEF Frames, EndOf
<1> QED BY <1>1 DEF InStep, FrameAt, AtCut

LEMMA StreamNext == ASSUME StreamInv, [Next]_vars PROVE StreamInv'
<1> USE DEF Unmoved
<1>1. CASE Receive \/ ReadHeader \/ ReadBody
  BY <1>1, ReceiveStream, ReadHeaderStream, ReadBodyStream
<1>2. CASE EndOfStream
  BY <1>2, EndOfStreamUnmoved, UnmovedStream
<1>3. CASE Handle \/ Serve \/ Person
  BY <1>3, UnmovedStream DEF Handle, Serve, Person
<1>4. CASE Reply
  BY <1>4, UnmovedStream DEF Reply, Leave
<1>5. CASE Dlopen \/ Dlsym \/ GetFunctionList \/ Initialize
  BY <1>5, UnmovedStream DEF Dlopen, Dlsym, GetFunctionList, Initialize, Step
<1>6. CASE Finalize \/ Deinit \/ Dlclose \/ Exit
  BY <1>6, UnmovedStream DEF Finalize, Deinit, Dlclose, Exit, Step
<1>7. CASE Kill
  BY <1>7, UnmovedStream DEF Kill
<1>8. CASE Browser
  BY <1>8, SendStream, HangUpStream DEF Browser, loop
<1>9. CASE UNCHANGED vars
  BY <1>9, UnmovedStream DEF vars, pipe, buffer
<1> QED BY <1>1, <1>2, <1>3, <1>4, <1>5, <1>6, <1>7, <1>8, <1>9 DEF Next, Run

-----------------------------------------------------------------------------
LEMMA LeaveLoop == ASSUME LoopInv, Leave PROVE LoopInv'
<1>1. /\ leaving' = TRUE /\ request' = NoMessage /\ pc' = "finalize"
      /\ answered' = answered /\ answered \in Seq(Messages)
  BY DEF Leave, Goto, LoopInv
<1> QED BY <1>1 DEF LoopInv, Serving, Getting, Ended

LEMMA LoopNext == ASSUME StreamInv, LoopInv, [Next]_vars PROVE LoopInv'
<1> USE DEF LoopInv, Goto, Serving, Getting, Ended
<1>1. CASE Receive
  BY <1>1 DEF Receive, loop
<1>2. CASE ReadHeader \/ EndOfStream
  <2>1. CASE Leave
    BY <2>1, LeaveLoop
  <2>2. CASE ~Leave
    BY <1>2, <2>2 DEF ReadHeader, EndOfStream, loop
  <2> QED BY <2>1, <2>2
<1>3. CASE ReadBody
  <2>1. \A i \in DOMAIN sent : sent[i] \in Messages
    BY FrameTypes DEF StreamInv, StreamTypeOK
  <2> QED BY <1>3, <2>1 DEF ReadBody
<1>4. CASE Handle \/ Serve \/ Person
  BY <1>4 DEF Handle, Serve, Person
<1>5. CASE Reply
  <2>1. CASE Leave
    BY <2>1, LeaveLoop
  <2>2. CASE ~Leave
    BY <1>5, <2>2 DEF Reply
  <2> QED BY <2>1, <2>2
<1>6. CASE Dlopen \/ Dlsym \/ GetFunctionList
  BY <1>6 DEF Dlopen, Dlsym, GetFunctionList, Step
<1>7. CASE Initialize
  BY <1>7 DEF Initialize, Step, Served
<1>8. CASE Finalize \/ Deinit
  BY <1>8 DEF Finalize, Deinit, CallFinalize, Step
<1>9. CASE Dlclose \/ Exit
  BY <1>9 DEF Dlclose, Exit, Step
<1>10. CASE Kill
  BY <1>10 DEF Kill
<1>11. CASE Browser \/ UNCHANGED vars
  BY <1>11 DEF Browser, loop, vars
<1> QED BY <1>1, <1>2, <1>3, <1>4, <1>5, <1>6, <1>7, <1>8, <1>9, <1>10, <1>11
     DEF Next, Run

LEMMA Finalizing ==
  ASSUME NEW next \in {"deinit", "dlclose"}, CallFinalize(next), active \in BOOLEAN, mapped \in Nat
  PROVE  /\ mapped' = mapped
         /\ \/ active' = FALSE /\ refused' = refused /\ pc' = next
            \/ active = TRUE /\ active' = TRUE /\ refused' = refused + 1 /\ pc' = next
            \/ mapped = 0 /\ active' = active /\ refused' = refused /\ pc' \in {next, "crashed"}
<1>1. CASE mapped > 0 /\ active' = FALSE /\ Goto(next) /\ UNCHANGED refused
  BY <1>1 DEF CallFinalize, Goto
<1>2. CASE active /\ refused' = refused + 1 /\ Goto(next) /\ UNCHANGED active
  BY <1>2 DEF CallFinalize, Goto
<1>3. CASE mapped = 0 /\ (Goto(next) \/ Goto("crashed")) /\ UNCHANGED <<active, refused>>
  BY <1>3 DEF CallFinalize, Goto
<1> QED BY <1>1, <1>2, <1>3 DEF CallFinalize

LEMMA FinalizeLibrary == ASSUME LoopInv, LibraryInv, Finalize PROVE LibraryInv'
<1>1. /\ pc = "finalize" /\ leaving = TRUE /\ leaving' = TRUE /\ service' = service
      /\ (active <=> service) /\ (service => mapped > 0)
      /\ service \in BOOLEAN /\ active \in BOOLEAN /\ mapped \in Nat /\ refused \in Nat
  BY DEF Finalize, Step, LoopInv, LibraryInv
<1>2. CASE service /\ CallFinalize("deinit")
  <2>1. service = TRUE /\ active = TRUE /\ mapped > 0 /\ service' = TRUE
    BY <1>1, <1>2
  <2>2. /\ pc' = "deinit" /\ mapped' = mapped
        /\ \/ active' = FALSE /\ refused' = refused
           \/ active' = TRUE /\ refused' = refused + 1
    <3>1. mapped # 0
      BY <1>1, <2>1
    <3> QED BY <1>1, <1>2, <3>1, Finalizing, Zenon
  <2>3. refused \in Nat /\ refused + 1 \in Nat /\ refused + 1 > 0
    BY <1>1
  <2>4. active' \in BOOLEAN /\ refused' \in Nat /\ (active' => refused' > 0)
    BY <2>2, <2>3, Zenon
  <2> QED BY <1>1, <2>1, <2>2, <2>4 DEF LibraryInv, Serving, Getting
<1>3. CASE ~service /\ Goto("_exit") /\ UNCHANGED <<mapped, active, refused>>
  BY <1>1, <1>3 DEF Goto, LibraryInv, Serving, Getting
<1> QED BY <1>1, <1>2, <1>3 DEF Finalize

LEMMA DeinitLibrary == ASSUME LoopInv, LibraryInv, Deinit PROVE LibraryInv'
<1>1. /\ pc = "deinit" /\ CallFinalize("dlclose") /\ service' = FALSE
      /\ leaving' = leaving /\ leaving \in BOOLEAN
      /\ leaving = TRUE => mapped > 0 /\ (active => refused > 0)
      /\ leaving = FALSE => active = FALSE
      /\ active \in BOOLEAN /\ mapped \in Nat /\ refused \in Nat
  BY DEF Deinit, Step, LoopInv, LibraryInv
<1>2. CASE leaving = FALSE
  <2>1. /\ active' = FALSE /\ refused' = refused /\ mapped' = mapped
        /\ pc' \in {"dlclose", "crashed"}
    BY <1>1, <1>2, Finalizing
  <2> QED BY <1>1, <1>2, <2>1 DEF LibraryInv, Serving, Getting
<1>3. CASE leaving = TRUE
  <2>1. /\ pc' = "dlclose" /\ mapped' = mapped
        /\ \/ active' = FALSE /\ refused' = refused
           \/ active = TRUE /\ active' = TRUE /\ refused' = refused + 1
    <3>1. mapped # 0
      BY <1>1, <1>3
    <3> QED BY <1>1, <3>1, Finalizing, Zenon
  <2>2. refused \in Nat /\ refused + 1 \in Nat /\ (refused > 0 => refused + 1 > 1)
    BY <1>1
  <2>3. active = TRUE => refused > 0
    BY <1>1, <1>3, Zenon
  <2>4. active' \in BOOLEAN /\ refused' \in Nat /\ (active' => refused' > 1)
    BY <2>1, <2>2, <2>3, Zenon
  <2> QED BY <1>1, <1>3, <2>1, <2>4 DEF LibraryInv, Serving, Getting
<1> QED BY <1>1, <1>2, <1>3

LEMMA LibraryNext == ASSUME LoopInv, LibraryInv, [Next]_vars PROVE LibraryInv'
<1> USE DEF LibraryInv, Goto, Serving, Getting, Ended
<1>1. CASE Receive
  BY <1>1 DEF Receive, loop, library
<1>2. CASE ReadHeader \/ EndOfStream
  BY <1>2 DEF ReadHeader, EndOfStream, Leave, loop, library
<1>3. CASE ReadBody
  BY <1>3 DEF ReadBody, library
<1>4. CASE Handle \/ Serve \/ Person
  BY <1>4 DEF Handle, Serve, Person, library
<1>5. CASE Reply
  BY <1>5 DEF Reply, Leave, library
<1>6. CASE Dlopen \/ Dlsym \/ GetFunctionList
  BY <1>6 DEF Dlopen, Dlsym, GetFunctionList, Step
<1>7. CASE Initialize
  <2>1. /\ pc = "initialize" /\ ~service /\ ~active /\ mapped \in Nat /\ mapped > 0
        /\ leaving = FALSE /\ UNCHANGED <<leaving, refused>> /\ refused \in Nat
        /\ service = FALSE /\ active = FALSE
    BY <1>7 DEF Initialize, Step, LoopInv
  <2>2. CASE active' = TRUE /\ service' = TRUE /\ Goto(Served) /\ UNCHANGED mapped
    BY <2>1, <2>2 DEF Served
  <2>3. CASE mapped' = mapped - 1 /\ Goto("deinit") /\ UNCHANGED <<service, active>>
    BY <2>1, <2>3
  <2> QED BY <1>7, <2>2, <2>3 DEF Initialize
<1>8. CASE Finalize \/ Deinit
  BY <1>8, FinalizeLibrary, DeinitLibrary
<1>10. CASE Dlclose
  BY <1>10 DEF Dlclose, Step, LoopInv
<1>11. CASE Exit
  BY <1>11 DEF Exit, Step, library
<1>12. CASE Kill
  BY <1>12 DEF Kill
<1>13. CASE Browser \/ UNCHANGED vars
  BY <1>13 DEF Browser, loop, library, vars
<1> QED BY <1>1, <1>2, <1>3, <1>4, <1>5, <1>6, <1>7, <1>8, <1>10, <1>11,
           <1>12, <1>13 DEF Next, Run

-----------------------------------------------------------------------------
Inv == StreamInv /\ LoopInv /\ LibraryInv

LEMMA InitInv == Init => Inv
<1> SUFFICES ASSUME Init PROVE Inv
  OBVIOUS
<1> USE DEF Init, StreamInit, HeaderBytes
<1>0. <<>> \in Seq(Messages) /\ <<>> \in Seq(Nat)
  BY EmptySeq
<1>1. StreamInv
  <2>1. Len(<<>>) = 0 /\ Len(sent) = 0 /\ Len(begins) = 0 /\ got \in 0..need
    OBVIOUS
  <2>2. StreamTypeOK /\ taken \in 0..Len(sent)
    <3>1. closed \in BOOLEAN
      BY Zenon
    <3> QED BY <1>0, <2>1, <3>1 DEF StreamTypeOK
  <2> QED BY <2>1, <2>2 DEF StreamInv, Frames, InStep, FrameAt
<1>2. LoopInv
  BY <1>0 DEF LoopInv, Serving, Getting
<1>3. LibraryInv
  BY DEF LibraryInv, Serving, Getting, Ended
<1> QED BY <1>1, <1>2, <1>3 DEF Inv

LEMMA Invariance == Spec => []Inv
<1>1. Inv /\ [Next]_vars => Inv'
  BY StreamNext, LoopNext, LibraryNext DEF Inv
<1> QED BY <1>1, InitInv, PTL DEF Spec

(* The stream, the loop and the library stay within their types.           *)
THEOREM TypeCorrect == Spec => []TypeOK
<1>1. Inv => TypeOK
  BY DEF Inv, StreamInv, LoopInv, LibraryInv, TypeOK
<1> QED BY <1>1, Invariance, PTL

(* Whatever calls failed on the way, an exiting process releases the card  *)
(* and is not held, unless the library refuses C_Finalize in both calls.   *)
THEOREM CardReleased == Spec => []CardIsReleased
<1>1. Inv => CardIsReleased
  BY DEF Inv, LibraryInv, CardIsReleased
<1> QED BY <1>1, Invariance, PTL

(* A service that is kept is one whose library is open and initialised.    *)
THEOREM ServiceAlive == Spec => []ServiceIsAlive
<1>1. Inv => ServiceIsAlive
  BY DEF Inv, LoopInv, LibraryInv, ServiceIsAlive, Serving, Getting, Ended
<1> QED BY <1>1, Invariance, PTL

-----------------------------------------------------------------------------
(* The refinement.  A message that was cut is none: until the browser      *)
(* closes its end every frame is whole, and what read() hands on lies      *)
(* before the cut.                                                         *)
LEMMA WholeUnmoved ==
  ASSUME UNCHANGED <<sent, begins, written>> PROVE WholeMessages' = WholeMessages
BY DEF WholeMessages, IsWhole, EndOf

LEMMA OpenIsWhole == ASSUME StreamInv, ~closed PROVE WholeMessages = sent
<1>1. CASE sent # <<>>
  <2>1. Len(sent) \in DOMAIN sent
    BY <1>1, FrameTypes DEF StreamInv, StreamTypeOK
  <2>2. IsWhole(Len(sent))
    BY <2>1 DEF StreamInv, Frames, IsWhole
  <2> QED BY <2>2 DEF WholeMessages
<1> QED BY <1>1 DEF WholeMessages

LEMMA FrontOfAppend ==
  ASSUME NEW S, NEW s \in Seq(S), NEW e \in S
  PROVE  SubSeq(Append(s, e), 1, Len(Append(s, e)) - 1) = s
<1>1. Len(Append(s, e)) = Len(s) + 1 /\ Append(s, e) \in Seq(S) /\ Len(s) \in Nat
  OBVIOUS
<1> QED BY <1>1

LEMMA SentIsWhole ==
  ASSUME StreamInv, NEW m \in Messages, Send(m)
  PROVE  WholeMessages' = Append(WholeMessages, m)
<1>1. sent' = Append(sent, m) /\ begins' = Append(begins, written) /\ ~closed
      /\ written' = written + HeaderBytes + Size[m]
  BY DEF Send, Begin
<1>2. Len(sent') = Len(sent) + 1 /\ sent'[Len(sent) + 1] = m
      /\ begins'[Len(sent) + 1] = written
  BY <1>1 DEF StreamInv, StreamTypeOK
<1>3. written' = begins'[Len(sent')] + HeaderBytes + Size[sent'[Len(sent')]]
  BY <1>1, <1>2
<1>4. written' \in Nat
  BY <1>1, SizeAssumption DEF StreamInv, StreamTypeOK, HeaderBytes
<1>5. IsWhole(Len(sent))'
  BY <1>3, <1>4 DEF IsWhole, EndOf
<1>6. WholeMessages' = sent'
  BY <1>5 DEF WholeMessages
<1> QED BY <1>1, <1>6, OpenIsWhole

LEMMA CutIsNone ==
  ASSUME StreamInv, NEW m \in Messages, SendCut(m)
  PROVE  WholeMessages' = WholeMessages
<1>1. sent' = Append(sent, m) /\ begins' = Append(begins, written) /\ ~closed
  BY DEF SendCut, Begin
<1>2. Len(sent') = Len(sent) + 1 /\ sent'[Len(sent) + 1] = m
      /\ begins'[Len(sent) + 1] = written /\ Len(sent) \in Nat
  BY <1>1 DEF StreamInv, StreamTypeOK
<1>3. written \in Nat /\ Size[m] \in Nat
  BY SizeAssumption DEF StreamInv, StreamTypeOK
<1>4. written' < written + HeaderBytes + Size[m]
  BY <1>3 DEF SendCut, HeaderBytes
<1>5. PICK last \in Nat : last = Len(sent')
  BY <1>2
<1>6. begins'[last] = written /\ sent'[last] = m
  BY <1>2, <1>5
<1>7. begins'[last] + HeaderBytes + Size[sent'[last]] = written + HeaderBytes + Size[m]
  BY <1>6
<1>8. written' \in Nat
  BY <1>3 DEF SendCut, HeaderBytes
<1>9. ~(written + HeaderBytes + Size[m] <= written')
  BY <1>3, <1>4, <1>8 DEF HeaderBytes
<1>10. ~IsWhole(Len(sent))' /\ sent' # <<>>
  BY <1>2, <1>5, <1>7, <1>9 DEF IsWhole, EndOf
<1>11. WholeMessages' = SubSeq(sent', 1, Len(sent') - 1)
  BY <1>10 DEF WholeMessages
<1>12. sent \in Seq(Messages)
  BY DEF StreamInv, StreamTypeOK
<1> QED BY <1>1, <1>11, <1>12, FrontOfAppend, OpenIsWhole

LEMMA HeldIsWhole ==
  ASSUME StreamInv, NEW i \in DOMAIN sent, Holds(i)
  PROVE  i = taken + 1 /\ taken < Len(WholeMessages) /\ WholeMessages[taken + 1] = sent[i]
<1>1. i = taken + 1 /\ taken \in Nat /\ i \in 1..Len(sent) /\ Len(sent) \in Nat
  BY HeldIsDue, FrameTypes DEF StreamInv, InStep, Holds
<1>2. start + got <= written /\ start = begins[i] + 4 /\ got = Size[sent[i]]
  BY DEF StreamInv, InStep, Holds, HeaderBytes
<1>3. IsWhole(i)
  <2>1. EndOf(i) = begins[i] + 4 + Size[sent[i]]
        /\ begins[i] \in Nat /\ Size[sent[i]] \in Nat
    BY <1>1, FrameTypes
  <2>2. EndOf(i) = start + got
    BY <1>2, <2>1
  <2> QED BY <1>2, <2>2 DEF IsWhole
<1>4. CASE sent = <<>> \/ IsWhole(Len(sent))
  BY <1>1, <1>4 DEF WholeMessages
<1>5. CASE ~(sent = <<>> \/ IsWhole(Len(sent)))
  <2>1. i < Len(sent)
    BY <1>1, <1>3, <1>5
  <2>2. WholeMessages = SubSeq(sent, 1, Len(sent) - 1)
    BY <1>5 DEF WholeMessages
  <2>3. sent \in Seq(Messages)
    BY DEF StreamInv, StreamTypeOK
  <2>4. Len(WholeMessages) = Len(sent) - 1 /\ WholeMessages[i] = sent[i]
    BY <1>1, <2>1, <2>2, <2>3
  <2> QED BY <1>1, <2>1, <2>4
<1> QED BY <1>4, <1>5

LEMMA RequestsInit == ASSUME Init PROVE Requests!Init
BY DEF Init, StreamInit, Requests!Init, WholeMessages

(* What leaves the stream, the request and the answers alone does not show. *)
Unseen == UNCHANGED <<WholeMessages, taken, request, answered>>

LEMMA LeaveShows ==
  ASSUME LoopInv, Leave, UNCHANGED <<pipe, buffer>>
  PROVE  Requests!Abandon \/ Unseen
<1>1. WholeMessages' = WholeMessages
  BY WholeUnmoved DEF pipe
<1> QED BY <1>1 DEF Leave, Requests!Abandon, Unseen

LEMMA RequestsNext ==
  ASSUME StreamInv, LoopInv, [Next]_vars PROVE [Requests!Next]_(Requests!vars)
<1> SUFFICES Requests!Next \/ Unseen
  BY DEF Unseen, Requests!vars
<1>1. CASE Receive
  BY <1>1, WholeUnmoved DEF Receive, Chunk, Unseen, pipe, loop
<1>2. CASE ReadHeader
  BY <1>2, WholeUnmoved, LeaveShows DEF ReadHeader, ReadPart, Unseen, pipe, loop, Requests!Next
<1>3. CASE ReadBody
  <2>1. WholeMessages' = WholeMessages /\ request = NoMessage /\ answered' = answered
    BY <1>3, WholeUnmoved DEF ReadBody, ReadPart, LoopInv, pipe
  <2>2. ASSUME NEW i \in DOMAIN sent, Holds(i), Kind[sent[i]] # "undecodable",
               taken' = taken + 1, request' = sent[i]
        PROVE  Requests!Take
    <3>1. sent[i] \in Messages
      BY FrameTypes DEF StreamInv, StreamTypeOK
    <3> QED BY <2>1, <2>2, <3>1, HeldIsWhole DEF Requests!Take
  <2>3. ASSUME NEW i \in DOMAIN sent, Holds(i), Kind[sent[i]] = "undecodable",
               taken' = taken + 1, request' = request
        PROVE  Requests!Drop
    BY <2>1, <2>3, HeldIsWhole DEF Requests!Drop
  <2>4. ASSUME taken' = taken, request' = request
        PROVE  Unseen
    BY <2>1, <2>4 DEF Unseen
  <2> QED BY <1>3, <2>2, <2>3, <2>4 DEF ReadBody, Requests!Next
<1>4. CASE EndOfStream
  BY <1>4, WholeUnmoved, LeaveShows DEF EndOfStream, Unseen, pipe, Requests!Next
<1>5. CASE Handle \/ Serve \/ Person
  BY <1>5, WholeUnmoved DEF Handle, Serve, Person, Unseen, pipe
<1>6. CASE Reply
  <2>1. CASE Leave
    BY <1>6, <2>1, LeaveShows DEF Reply, Requests!Next
  <2>2. CASE ~Leave
    <3>1. request # NoMessage
      BY <1>6, KindAssumption DEF Reply, LoopInv, Serving
    <3> QED BY <1>6, <2>2, <3>1, WholeUnmoved DEF Reply, Requests!Answer, Requests!Next, pipe
  <2> QED BY <2>1, <2>2
<1>7. CASE Dlopen \/ Dlsym \/ GetFunctionList \/ Initialize
  BY <1>7, WholeUnmoved
     DEF Dlopen, Dlsym, GetFunctionList, Initialize, Step, Unseen, pipe
<1>8. CASE Finalize \/ Deinit \/ Dlclose \/ Exit
  BY <1>8, WholeUnmoved DEF Finalize, Deinit, Dlclose, Exit, Step, Unseen, pipe
<1>9. CASE Kill
  BY <1>9, WholeUnmoved DEF Kill, Requests!Abandon, Requests!Next, Unseen, pipe
<1>10. CASE Browser
  <2>1. UNCHANGED <<taken, request, answered>>
    BY <1>10 DEF Browser, loop
  <2>2. CASE HangUp
    BY <2>1, <2>2, WholeUnmoved DEF HangUp, Unseen
  <2>3. ASSUME NEW m \in Messages, Send(m) PROVE Requests!Next
    BY <2>1, <2>3, SentIsWhole DEF Requests!Send, Requests!Next
  <2>4. ASSUME NEW m \in Messages, SendCut(m) PROVE Unseen
    BY <2>1, <2>4, CutIsNone DEF Unseen
  <2> QED BY <1>10, <2>2, <2>3, <2>4 DEF Browser
<1>11. CASE UNCHANGED vars
  BY <1>11, WholeUnmoved DEF vars, Unseen
<1> QED BY <1>1, <1>2, <1>3, <1>4, <1>5, <1>6, <1>7, <1>8, <1>9, <1>10, <1>11
     DEF Next, Run

(* The loop of main.swift over a pipe that cuts messages anywhere keeps    *)
(* what RequestStream promises, for any messages and limits.               *)
THEOREM TakesThemWhole == Spec => TakesWholeRequests
<1>1. Inv /\ [Next]_vars => [Requests!Next]_(Requests!vars)
  BY RequestsNext DEF Inv
<1> QED BY <1>1, RequestsInit, Invariance, PTL DEF Spec, TakesWholeRequests, Requests!Spec
=============================================================================
