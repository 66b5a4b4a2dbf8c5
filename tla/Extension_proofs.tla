-------------------------- MODULE Extension_proofs --------------------------
(***************************************************************************)
(* Proofs about Extension, for any pages, requests and host versions.      *)
(*   TypeInv  the types                                                    *)
(*   OpenInv  while a native port is open, its page (if still there) has   *)
(*            had nothing but news: why one flag per request is enough     *)
(***************************************************************************)
EXTENDS Extension, TLAPS

NewsOnly(r) == \A i \in DOMAIN inbox[r] : inbox[r][i] = News

OpenInv ==
  /\ NothingAfterAnswer
  /\ AnsweredIsClosed
  /\ \A r \in Requests :
       /\ asked[r] = "none" => port[r] = "none" /\ inbox[r] = <<>>
       /\ port[r] = "open" /\ Open(r) => NewsOnly(r)

-----------------------------------------------------------------------------
LEMMA FrameTypes ==
  /\ News \in HostFrames /\ Answer \in HostFrames
  /\ \A v \in HostVersions : Hello(v) \in HostFrames
  /\ HostFrames \subseteq Frames /\ Missing \in Frames /\ Outdated \in Frames
  BY DEF HostFrames, Frames

LEMMA FrameKinds ==
  /\ News.kind = "news" /\ Answer.kind = "answer"
  /\ Missing.kind = "helper_missing" /\ Outdated.kind = "helper_outdated"
  /\ \A v : Hello(v).kind = "hello"
  BY DEF News, Answer, Missing, Outdated, Hello, Frame

(* A sequence whose head is taken keeps the other elements' properties.    *)
LEMMA TakeType ==
  ASSUME TypeOK, NEW r \in Requests, Arrives(r), Take(r)
  PROVE  /\ pipe' \in [Requests -> Seq(HostFrames)]
         /\ Head(pipe[r]) \in HostFrames
  BY DEF TypeOK, Take, Arrives

LEMMA PostType ==
  ASSUME TypeOK, NEW r \in Requests, NEW f \in Frames, Post(r, f)
  PROVE  inbox' \in [Requests -> Seq(Frames)]
  BY DEF TypeOK, Post

LEMMA WriteType ==
  ASSUME TypeOK, NEW r \in Requests, NEW f \in HostFrames, Write(r, f)
  PROVE  pipe' \in [Requests -> Seq(HostFrames)]
  BY DEF TypeOK, Write

LEMMA NextType == TypeOK /\ [Next]_vars => TypeOK'
<1> SUFFICES ASSUME TypeOK, [Next]_vars PROVE TypeOK'
  OBVIOUS
<1> USE FrameTypes
<1>1. ASSUME NEW r \in Requests, NEW k \in Kinds, ConnectThrows(r, k) PROVE TypeOK'
  <2>1. inbox' \in [Requests -> Seq(Frames)]
    BY <1>1, PostType DEF ConnectThrows
  <2> QED BY <1>1, <2>1 DEF ConnectThrows, TypeOK
<1>2. ASSUME NEW r \in Requests, NEW k \in Kinds, Relay(r, k) PROVE TypeOK'
  BY <1>2 DEF Relay, TypeOK
<1>3. ASSUME NEW r \in Requests, RelayNews(r) PROVE TypeOK'
  <2>1. pipe' \in [Requests -> Seq(HostFrames)] /\ inbox' \in [Requests -> Seq(Frames)]
    BY <1>3, TakeType, PostType DEF RelayNews
  <2> QED BY <1>3, <2>1 DEF RelayNews, TypeOK
<1>4. ASSUME NEW r \in Requests, RelayAnswer(r) PROVE TypeOK'
  <2>1. Head(pipe[r]) \in Frames
    BY <1>4 DEF RelayAnswer, Arrives, TypeOK
  <2>2. inbox' \in [Requests -> Seq(Frames)]
    BY <1>4, <2>1, PostType DEF RelayAnswer
  <2>3. pipe' \in [Requests -> Seq(HostFrames)]
    <3>1. CASE Open(r)
      <4>1. <<>> \in Seq(HostFrames)
        OBVIOUS
      <4>2. pipe' = [pipe EXCEPT ![r] = <<>>]
        BY <1>4, <3>1 DEF RelayAnswer, Disconnect
      <4> QED BY <4>1, <4>2 DEF TypeOK
    <3>2. CASE ~Open(r)
      BY <1>4, <3>2, TakeType DEF RelayAnswer, Disconnect
    <3> QED BY <3>1, <3>2
  <2>4. port' \in [Requests -> {"none", "open", "closed"}]
    BY <1>4 DEF RelayAnswer, Disconnect, TypeOK
  <2> QED BY <1>4, <2>2, <2>3, <2>4 DEF RelayAnswer, TypeOK
<1>5. ASSUME NEW r \in Requests, HostGone(r) PROVE TypeOK'
  <2>1. inbox' \in [Requests -> Seq(Frames)]
    BY <1>5, PostType DEF HostGone, TypeOK
  <2> QED BY <1>5, <2>1 DEF HostGone, TypeOK
<1>6. ASSUME NEW r \in Requests, HostAnswers(r) PROVE TypeOK'
  <2>1. pipe' \in [Requests -> Seq(HostFrames)]
    BY <1>6, WriteType DEF HostAnswers
  <2> QED BY <1>6, <2>1 DEF HostAnswers, Become, TypeOK
<1>7. ASSUME NEW r \in Requests, HostAsks(r) PROVE TypeOK'
  <2>1. pipe' \in [Requests -> Seq(HostFrames)]
    BY <1>7, WriteType DEF HostAsks, TypeOK
  <2> QED BY <1>7, <2>1 DEF HostAsks, Become, TypeOK
<1>8. ASSUME NEW r \in Requests,
             NotLaunched(r) \/ HostReads(r) \/ HostLeaves(r) \/ HostDies(r)
      PROVE  TypeOK'
  BY <1>8 DEF NotLaunched, HostReads, HostLeaves, HostDies, Become, TypeOK
<1>9. ASSUME NEW p \in Pages, PageGoes(p) PROVE TypeOK'
  BY <1>9 DEF PageGoes, TypeOK
<1>10. CASE ExtensionStops
  BY <1>10 DEF ExtensionStops, TypeOK
<1>11. CASE UNCHANGED vars
  BY <1>11 DEF vars, TypeOK
<1> QED
  BY <1>1, <1>2, <1>3, <1>4, <1>5, <1>6, <1>7, <1>8, <1>9, <1>10, <1>11
  DEF Next, Listeners, HostRuns

(* Every reachable state is well typed: in particular whatever a page      *)
(* receives is a frame of the host or one of the relay's two refusals.     *)
THEOREM TypeCorrect == Spec => []TypeOK
<1>1. Init => TypeOK
  BY DEF Init, TypeOK
<1> QED BY <1>1, NextType, PTL DEF Spec

-----------------------------------------------------------------------------
(* What one postMessage does to the page's inbox.                          *)
LEMMA PostAppends ==
  ASSUME TypeOK, NEW r \in Requests, NEW f \in Frames, Post(r, f)
  PROVE  /\ \A q \in Requests \ {r} : inbox'[q] = inbox[q]
         /\ ~Open(r) => inbox'[r] = inbox[r]
         /\ Open(r) => /\ Len(inbox'[r]) = Len(inbox[r]) + 1
                       /\ DOMAIN inbox'[r] = 1..Len(inbox[r]) + 1
                       /\ inbox'[r][Len(inbox[r]) + 1] = f
                       /\ \A i \in 1..Len(inbox[r]) : inbox'[r][i] = inbox[r][i]
<1>1. inbox \in [Requests -> Seq(Frames)] /\ inbox[r] \in Seq(Frames)
  BY DEF TypeOK
<1>2. CASE Open(r)
  <2>1. inbox' = [inbox EXCEPT ![r] = Append(inbox[r], f)]
    BY <1>1, <1>2 DEF Post
  <2>2. inbox'[r] = Append(inbox[r], f)
    BY <1>1, <2>1
  <2> QED BY <1>1, <1>2, <2>1, <2>2
<1>3. CASE ~Open(r)
  BY <1>1, <1>3 DEF Post
<1> QED BY <1>2, <1>3

LEMMA PostIsLast ==
  ASSUME TypeOK, NothingAfterAnswer, NEW r \in Requests, NEW f \in Frames,
         Post(r, f), Open(r) => NewsOnly(r)
  PROVE  NothingAfterAnswer'
<1> SUFFICES ASSUME NEW q \in Requests, NEW i \in DOMAIN inbox'[q],
                    IsFinal(inbox'[q][i])
             PROVE  i = Len(inbox'[q])
  BY DEF NothingAfterAnswer, IsFinal
<1>1. CASE q # r \/ ~Open(r)
  BY <1>1, PostAppends DEF NothingAfterAnswer
<1>2. CASE q = r /\ Open(r)
  <2>1. inbox[r] \in Seq(Frames) /\ DOMAIN inbox[r] = 1..Len(inbox[r])
    BY DEF TypeOK
  <2>2. i \in 1..Len(inbox[r]) => inbox'[q][i] = News
    BY <1>2, <2>1, PostAppends DEF NewsOnly
  <2>3. i \notin 1..Len(inbox[r])
    BY <2>2 DEF IsFinal
  <2> QED BY <1>2, <2>1, <2>3, PostAppends
<1> QED BY <1>1, <1>2

LEMMA PostNewsOnly ==
  ASSUME TypeOK, NEW r \in Requests, Post(r, News), NewsOnly(r)
  PROVE  NewsOnly(r)'
<1>1. inbox[r] \in Seq(Frames) /\ DOMAIN inbox[r] = 1..Len(inbox[r])
  BY DEF TypeOK
<1>2. News \in Frames
  BY FrameTypes
<1> QED BY <1>1, <1>2, PostAppends DEF NewsOnly

LEMMA NextOpen == ASSUME TypeOK, OpenInv, [Next]_vars PROVE OpenInv'
<1> USE PageOfAssumption
<1>1. ASSUME NEW r \in Requests, NEW k \in Kinds, ConnectThrows(r, k) PROVE OpenInv'
  <2>1. NewsOnly(r)
    BY <1>1 DEF ConnectThrows, OpenInv, NewsOnly
  <2>2. NothingAfterAnswer'
    BY <1>1, <2>1, PostIsLast, FrameTypes DEF ConnectThrows, OpenInv
  <2>3. \A q \in Requests \ {r} : inbox'[q] = inbox[q]
    BY <1>1, PostAppends, FrameTypes DEF ConnectThrows
  <2> QED
    BY <1>1, <2>2, <2>3
    DEF ConnectThrows, OpenInv, AnsweredIsClosed, NewsOnly, Open, TypeOK, Kinds
<1>2. ASSUME NEW r \in Requests, NEW k \in Kinds, Relay(r, k) PROVE OpenInv'
  <2>1. inbox[r] = <<>> /\ NewsOnly(r)
    BY <1>2 DEF Relay, OpenInv, NewsOnly
  <2>2. ~answered[r]
    BY <1>2 DEF Relay, OpenInv, AnsweredIsClosed
  <2> QED
    BY <1>2, <2>1, <2>2
    DEF Relay, OpenInv, AnsweredIsClosed, NothingAfterAnswer, NewsOnly, Open, TypeOK,
        Kinds
<1>3. ASSUME NEW r \in Requests, RelayNews(r) PROVE OpenInv'
  <2>1. Open(r) => NewsOnly(r) /\ NewsOnly(r)'
    BY <1>3, PostNewsOnly DEF RelayNews, Arrives, OpenInv
  <2>2. NothingAfterAnswer'
    BY <1>3, <2>1, PostIsLast, FrameTypes DEF RelayNews, OpenInv
  <2>3. \A q \in Requests \ {r} : inbox'[q] = inbox[q]
    BY <1>3, PostAppends, FrameTypes DEF RelayNews
  <2> QED
    BY <1>3, <2>1, <2>2, <2>3
    DEF RelayNews, Arrives, OpenInv, AnsweredIsClosed, NewsOnly, Open, TypeOK
<1>4. ASSUME NEW r \in Requests, RelayAnswer(r) PROVE OpenInv'
  <2>1. Head(pipe[r]) \in Frames
    BY <1>4, FrameTypes DEF RelayAnswer, Arrives, TypeOK
  <2>2. PICK f \in Frames : Post(r, f)
    BY <1>4, <2>1, FrameTypes DEF RelayAnswer
  <2>3. NothingAfterAnswer'
    BY <1>4, <2>2, PostIsLast DEF RelayAnswer, Arrives, OpenInv
  <2>4. \A q \in Requests \ {r} : inbox'[q] = inbox[q]
    BY <2>2, PostAppends
  <2>5. Open(r) => port' = [port EXCEPT ![r] = "closed"]
    BY <1>4 DEF RelayAnswer, Disconnect
  <2>6. ~Open(r) => port' = port
    BY <1>4 DEF RelayAnswer, Disconnect
  <2> QED
    BY <1>4, <2>3, <2>4, <2>5, <2>6
    DEF RelayAnswer, Arrives, OpenInv, AnsweredIsClosed, NewsOnly, Open, TypeOK
<1>5. ASSUME NEW r \in Requests, HostGone(r) PROVE OpenInv'
  <2>1. NothingAfterAnswer' /\ \A q \in Requests \ {r} : inbox'[q] = inbox[q]
    <3>1. CASE answered[r]
      BY <1>5, <3>1 DEF HostGone, OpenInv, NothingAfterAnswer
    <3>2. CASE ~answered[r]
      BY <1>5, <3>2, PostIsLast, PostAppends, FrameTypes DEF HostGone, OpenInv
    <3> QED BY <3>1, <3>2
  <2> QED
    BY <1>5, <2>1 DEF HostGone, OpenInv, AnsweredIsClosed, NewsOnly, Open, TypeOK
<1>6. ASSUME NEW r \in Requests,
             \/ HostAnswers(r) \/ HostAsks(r) \/ NotLaunched(r)
             \/ HostReads(r) \/ HostLeaves(r) \/ HostDies(r)
      PROVE  OpenInv'
  <2>1. UNCHANGED <<page, asked, port, answered, inbox>>
    BY <1>6 DEF HostAnswers, HostAsks, NotLaunched, HostReads, HostLeaves, HostDies
  <2> QED
    BY <2>1 DEF OpenInv, AnsweredIsClosed, NothingAfterAnswer, NewsOnly, Open
<1>7. ASSUME NEW p \in Pages, PageGoes(p) PROVE OpenInv'
  BY <1>7
  DEF PageGoes, OpenInv, AnsweredIsClosed, NothingAfterAnswer, NewsOnly, Open, TypeOK
<1>8. CASE ExtensionStops
  BY <1>8
  DEF ExtensionStops, OpenInv, AnsweredIsClosed, NothingAfterAnswer, NewsOnly, Open,
      TypeOK
<1>9. CASE UNCHANGED vars
  BY <1>9 DEF vars, OpenInv, AnsweredIsClosed, NothingAfterAnswer, NewsOnly, Open
<1> QED
  BY <1>1, <1>2, <1>3, <1>4, <1>5, <1>6, <1>7, <1>8, <1>9 DEF Next, Listeners, HostRuns

LEMMA OpenInvariant == Spec => []OpenInv
<1>1. Init => OpenInv
  BY DEF Init, OpenInv, AnsweredIsClosed, NothingAfterAnswer, NewsOnly
<1>2. TypeOK /\ OpenInv /\ [Next]_vars => OpenInv'
  BY NextOpen
<1> QED BY <1>1, <1>2, TypeCorrect, PTL DEF Spec

(* No page receives anything after an answer, in whatever order answers,   *)
(* ends of ports and departing pages are delivered.                        *)
THEOREM AnswerIsLast == Spec => []NothingAfterAnswer
<1>1. OpenInv => NothingAfterAnswer
  BY DEF OpenInv
<1> QED BY <1>1, OpenInvariant, PTL

(* The native port of an answered request is closed while its page is      *)
(* there to be answered.                                                   *)
THEOREM AnswerClosesPort == Spec => []AnsweredIsClosed
<1>1. OpenInv => AnsweredIsClosed
  BY DEF OpenInv
<1> QED BY <1>1, OpenInvariant, PTL

=============================================================================
