------------------------------ MODULE Extension ------------------------------
(***************************************************************************)
(* The extension's relay (background.ts): a page's port on one side, one   *)
(* native port -- one host process -- per request on the other.            *)
(*                                                                         *)
(* A page may have several requests under way and may go away at any       *)
(* moment; the browser delivers a host's frames, and then the end of its   *)
(* port, in order, but at any later time.  chrome.runtime's ports are      *)
(* external: postMessage on a port whose other end is gone throws, which   *)
(* ends the listener there and then, and disconnect() tells only the other *)
(* side.  The host is reduced to what it puts on the wire (main.swift).    *)
(***************************************************************************)
EXTENDS Naturals, Sequences, Versions

CONSTANTS Pages,         \* page ports (a reloaded page is another port)
          Requests,      \* requests, each of one page
          PageOf,        \* the page of each request
          HostVersions,  \* versions a host may report
          Required       \* REQUIRED_HOST_VERSION

ASSUME PageOfAssumption == PageOf \in [Requests -> Pages]
ASSUME VersionAssumption == HostVersions \subseteq Seq(Numbers) /\ Required \in Released

VARIABLES
  installed,  \* whether connectNative finds a host to launch
  page,       \* page[p]: the port between page p and the extension
  asked,      \* asked[r]: what kind of request r is, once it has been made
  port,       \* port[r]: the extension's end of r's native port
  host,       \* host[r]: the process behind it
  pipe,       \* pipe[r]: frames the host has written, not yet delivered
  answered,   \* answered[r]: the listener's flag
  inbox       \* inbox[r]: what the page has received for r

vars == <<installed, page, asked, port, host, pipe, answered, inbox>>

(* "undecodable": no id or type, or a field of another type.               *)
Kinds == {"hello", "pair", "list", "sign", "undecodable"}

Frame(kind, version) == [kind |-> kind, version |-> version]
News      == Frame("news", <<>>)
Answer    == Frame("answer", <<>>)
Hello(v)  == Frame("hello", v)
Missing   == Frame("helper_missing", <<>>)
Outdated  == Frame("helper_outdated", <<>>)
HostFrames == {News, Answer} \cup {Hello(v) : v \in HostVersions}
Frames     == HostFrames \cup {Missing, Outdated}

TypeOK ==
  /\ installed \in BOOLEAN
  /\ page \in [Pages -> {"open", "closed"}]
  /\ asked \in [Requests -> Kinds \cup {"none"}]
  /\ port \in [Requests -> {"none", "open", "closed"}]
  /\ host \in [Requests -> {"none", "starting", "working", "asking", "waiting", "gone"}]
  /\ pipe \in [Requests -> Seq(HostFrames)]
  /\ answered \in [Requests -> BOOLEAN]
  /\ inbox \in [Requests -> Seq(Frames)]

(* onConnectExternal closes a page whose origin the browser does not name. *)
Init ==
  /\ installed \in BOOLEAN
  /\ page \in [Pages -> {"open", "closed"}]
  /\ asked = [r \in Requests |-> "none"]
  /\ port = [r \in Requests |-> "none"]
  /\ host = [r \in Requests |-> "none"]
  /\ pipe = [r \in Requests |-> <<>>]
  /\ answered = [r \in Requests |-> FALSE]
  /\ inbox = [r \in Requests |-> <<>>]

(***************************************************************************)
(* The extension's listeners.                                              *)
(***************************************************************************)
Open(r) == page[PageOf[r]] = "open"

(* page.postMessage: reaches an open page, throws otherwise.               *)
Post(r, f) == inbox' = [inbox EXCEPT ![r] = IF Open(r) THEN Append(@, f) ELSE @]

(* page.onMessage, and connectNative throws.                               *)
ConnectThrows(r, k) ==
  /\ asked[r] = "none" /\ Open(r) /\ ~installed
  /\ asked' = [asked EXCEPT ![r] = k]
  /\ Post(r, Missing)
  /\ UNCHANGED <<installed, page, port, host, pipe, answered>>

(* page.onMessage: a native port of its own, and the request posted on it. *)
Relay(r, k) ==
  /\ asked[r] = "none" /\ Open(r)
  /\ asked' = [asked EXCEPT ![r] = k]
  /\ port' = [port EXCEPT ![r] = "open"]
  /\ host' = [host EXCEPT ![r] = "starting"]
  /\ UNCHANGED <<installed, page, pipe, answered, inbox>>

Arrives(r) == port[r] = "open" /\ pipe[r] # <<>>
Take(r)    == pipe' = [pipe EXCEPT ![r] = Tail(@)]

(* Mutant: the port is kept for the next request.                          *)
KeepPort(r) == UNCHANGED port /\ Take(r)

(* host.disconnect() is the listener's last line: not reached when         *)
(* page.postMessage has thrown.  Frames in the pipe are then not delivered.*)
Disconnect(r) ==
  IF Open(r)
  THEN port' = [port EXCEPT ![r] = "closed"] /\ pipe' = [pipe EXCEPT ![r] = <<>>]
  ELSE UNCHANGED port /\ Take(r)

(* host.onMessage, news.                                                   *)
RelayNews(r) ==
  /\ Arrives(r) /\ Head(pipe[r]) = News
  /\ Take(r)
  /\ Post(r, News)
  /\ UNCHANGED <<installed, page, asked, port, host, answered>>

(* host.onMessage, the answer, through the version gate.                   *)
Gate(r, f) ==
  asked[r] = "hello" /\ f.kind = "hello" /\ ~AtLeast(f.version, Required)

(* Mutant: the gate's branch does not return.                              *)
RelayAnswerTwice(r) ==
  /\ Arrives(r) /\ Head(pipe[r]) # News
  /\ answered' = [answered EXCEPT ![r] = TRUE]
  /\ inbox' = [inbox EXCEPT ![r] =
       IF ~Open(r) THEN @
       ELSE @ \o (IF Gate(r, Head(pipe[r])) THEN <<Outdated>> ELSE <<>>)
              \o <<Head(pipe[r])>>]
  /\ Disconnect(r)
  /\ UNCHANGED <<installed, page, asked, host>>

(* Mutant: the outdated answer is the host's own, with the code added.     *)
RelayAnswerSpread(r) ==
  /\ Arrives(r) /\ Head(pipe[r]) # News
  /\ answered' = [answered EXCEPT ![r] = TRUE]
  /\ LET f == Head(pipe[r])
     IN  Post(r, IF Gate(r, f) THEN Frame("helper_outdated", f.version) ELSE f)
  /\ Disconnect(r)
  /\ UNCHANGED <<installed, page, asked, host>>

RelayAnswer(r) ==
  /\ Arrives(r) /\ Head(pipe[r]) # News
  /\ answered' = [answered EXCEPT ![r] = TRUE]
  /\ Post(r, IF Gate(r, Head(pipe[r])) THEN Outdated ELSE Head(pipe[r]))
  /\ Disconnect(r)
  /\ UNCHANGED <<installed, page, asked, host>>

(* Mutant: the end of the port is not reported.                            *)
HostGoneSilently(r) ==
  /\ port[r] = "open" /\ host[r] = "gone" /\ pipe[r] = <<>>
  /\ port' = [port EXCEPT ![r] = "closed"]
  /\ UNCHANGED <<installed, page, asked, host, pipe, answered, inbox>>

(* host.onDisconnect: after the last frame of a host that is gone.         *)
HostGone(r) ==
  /\ port[r] = "open" /\ host[r] = "gone" /\ pipe[r] = <<>>
  /\ port' = [port EXCEPT ![r] = "closed"]
  /\ IF answered[r] THEN UNCHANGED inbox ELSE Post(r, Missing)
  /\ UNCHANGED <<installed, page, asked, host, pipe, answered>>

(* The person closes the tab or leaves the page: no listener is registered *)
(* for it, and nothing else happens.                                       *)
PageGoes(p) ==
  /\ page[p] = "open"
  /\ page' = [page EXCEPT ![p] = "closed"]
  /\ UNCHANGED <<installed, asked, port, host, pipe, answered, inbox>>

(* The extension is reloaded, updated or stopped with its browser: every   *)
(* port it holds, on either side, is closed.                               *)
ExtensionStops ==
  /\ \E p \in Pages : page[p] = "open"
  /\ page' = [p \in Pages |-> "closed"]
  /\ port' = [r \in Requests |-> IF port[r] = "none" THEN "none" ELSE "closed"]
  /\ pipe' = [r \in Requests |-> <<>>]
  /\ UNCHANGED <<installed, asked, host, answered, inbox>>

(***************************************************************************)
(* The host, as far as the wire shows it (main.swift).                     *)
(***************************************************************************)
Write(r, f) ==
  pipe' = [pipe EXCEPT ![r] = IF port[r] = "open" THEN Append(@, f) ELSE @]

Become(r, state) == host' = [host EXCEPT ![r] = state]

(* connectNative resolves lazily: nothing to launch.                       *)
NotLaunched(r) ==
  /\ host[r] = "starting" /\ ~installed
  /\ Become(r, "gone")
  /\ UNCHANGED <<installed, page, asked, port, pipe, answered, inbox>>

(* The request is read.  One that does not decode is logged and dropped,   *)
(* and the host reads on.                                                  *)
HostReads(r) ==
  /\ host[r] = "starting" /\ installed
  /\ Become(r, IF asked[r] = "undecodable" THEN "waiting" ELSE "working")
  /\ UNCHANGED <<installed, page, asked, port, pipe, answered, inbox>>

(* A window opens; "pair" has put its code on the wire just before.        *)
HostAsks(r) ==
  /\ host[r] = "working" /\ asked[r] \in {"pair", "sign"}
  /\ Become(r, "asking")
  /\ IF asked[r] = "pair" THEN Write(r, News) ELSE UNCHANGED pipe
  /\ UNCHANGED <<installed, page, asked, port, answered, inbox>>

HostAnswers(r) ==
  /\ host[r] \in {"working", "asking"}
  /\ \/ asked[r] = "hello" /\ \E v \in HostVersions : Write(r, Hello(v))
     \/ Write(r, Answer)
  /\ Become(r, "waiting")
  /\ UNCHANGED <<installed, page, asked, port, answered, inbox>>

(* Mutant: end of stream does not end the loop.                            *)
HostStays(r) == FALSE

(* End of stream: the browser has closed the port.                         *)
HostLeaves(r) ==
  /\ host[r] \in {"starting", "waiting"} /\ port[r] = "closed"
  /\ Become(r, "gone")
  /\ UNCHANGED <<installed, page, asked, port, pipe, answered, inbox>>

(* Killed, crashed, or leave(1): a message that cannot be read, a reply    *)
(* over the native messaging limit.                                        *)
HostDies(r) ==
  /\ host[r] \in {"starting", "working", "asking", "waiting"}
  /\ Become(r, "gone")
  /\ UNCHANGED <<installed, page, asked, port, pipe, answered, inbox>>

Listeners(r) == RelayNews(r) \/ RelayAnswer(r) \/ HostGone(r)

HostRuns(r) ==
  \/ NotLaunched(r) \/ HostReads(r) \/ HostAsks(r) \/ HostLeaves(r)
  \/ host[r] = "working" /\ HostAnswers(r)

Next ==
  \/ \E r \in Requests :
       \/ \E k \in Kinds : ConnectThrows(r, k) \/ Relay(r, k)
       \/ Listeners(r) \/ HostRuns(r) \/ HostAnswers(r) \/ HostDies(r)
  \/ \E p \in Pages : PageGoes(p)
  \/ ExtensionStops

Spec == Init /\ [][Next]_vars

(* The browser delivers, and a host runs on unless a window waits for the  *)
(* person (HostAnswers from "asking" is not among what must happen).       *)
FairSpec ==
  Spec /\ \A r \in Requests : WF_vars(Listeners(r)) /\ WF_vars(HostRuns(r))

-----------------------------------------------------------------------------
IsFinal(f) == f # News

(* A request is finished by the first frame without "event" (protocol.md): *)
(* the page never receives a second answer nor news after the answer,      *)
(* whichever of answer, end of port and missing helper comes first.        *)
NothingAfterAnswer ==
  \A r \in Requests : \A i \in DOMAIN inbox[r] :
    IsFinal(inbox[r][i]) => i = Len(inbox[r])

(* One host process per request: while the page is there, the port is      *)
(* closed as soon as the answer has been posted, and with it the process   *)
(* and its hold on the card.                                               *)
AnsweredIsClosed ==
  \A r \in Requests : answered[r] /\ Open(r) => port[r] = "closed"

Final(r) == inbox[r] # <<>> /\ IsFinal(inbox[r][Len(inbox[r])])

(* A request the host can decode is answered, unless the page goes or a    *)
(* window waits for the person -- even if the host dies.                   *)
DecodableIsAnswered ==
  \A r \in Requests :
    (asked[r] \in Kinds \ {"undecodable"})
      ~> (Final(r) \/ ~Open(r) \/ host[r] = "asking")

(* The process is gone once the page has its answer.                       *)
AnsweredHostLeaves ==
  \A r \in Requests : (Final(r) /\ port[r] = "closed") ~> host[r] \in {"none", "gone"}

-----------------------------------------------------------------------------
(* What the sources say and the code does not do.                          *)

(* background.ts: a port kept open would keep the process alive as long as *)
(* the tab -- so the port is closed once the request is answered.          *)
PortClosedOnAnswer == \A r \in Requests : answered[r] => port[r] = "closed"

(* main.swift: undecodable input still deserves an answer.                 *)
EveryRequestIsAnswered ==
  \A r \in Requests :
    (asked[r] # "none") ~> (Final(r) \/ ~Open(r) \/ host[r] = "asking")

(* background.ts: "not installed" is said when the host is missing.        *)
MissingMeansMissing ==
  \A r \in Requests : Final(r) /\ inbox[r][Len(inbox[r])] = Missing => ~installed
=============================================================================
