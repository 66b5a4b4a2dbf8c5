-------------------------------- MODULE Host --------------------------------
(***************************************************************************)
(* One signbridge-host process from its launch to its end: the loop of     *)
(* main.swift over the stream of NativeMessaging, the token service it     *)
(* builds at the first request that needs one (LazyTokenService), and the  *)
(* PKCS #11 library behind it, from dlopen to dlclose.                     *)
(*                                                                         *)
(* The library is external: initialised, it holds the card and runs a      *)
(* heartbeat thread that only C_Finalize stops, and its destructor joins   *)
(* that thread (PKCS11Module.finalize says so of SecureStore).  Any call   *)
(* into it may fail, and a call into it after it was unmapped is undefined *)
(* behaviour: nothing happens, or the process crashes.                     *)
(***************************************************************************)
EXTENDS NativeMessaging

CONSTANTS
  Kind,        \* Kind[m]: what request m is
  NoMessage

(* "card": hello and listCertificates, which ask for the token service;    *)
(* "sign" asks for it and then for the person; "plain" is answered without *)
(* (pair, a request that is refused); "undecodable" is not answered.       *)
Kinds == {"card", "sign", "plain", "undecodable"}

ASSUME KindAssumption == Kind \in [Messages -> Kinds] /\ NoMessage \notin Messages

VARIABLES
  pc,        \* where the process is
  request,   \* the request being handled
  taken,     \* messages read off the stream, decoded or not
  answered,  \* requests answered, in order
  service,   \* LazyTokenService.service is set
  leaving,   \* leave() has been called
  mapped,    \* how often the library is open in this process
  active,    \* the library is initialised: it holds the card, its heartbeat beats
  refused    \* history: how often an active library has refused C_Finalize

loop    == <<pc, request, taken, answered, leaving>>
library == <<service, mapped, active, refused>>
vars    == <<sent, begins, written, closed, part, start, need, got,
             pc, request, taken, answered, service, leaving, mapped, active,
             refused>>

Getting == {"dlopen", "dlsym", "list", "initialize"}
Serving == {"handle", "window", "serve", "reply"} \cup Getting
Ended   == {"exited", "crashed", "killed"}

TypeOK ==
  /\ StreamTypeOK
  /\ pc \in {"read", "finalize", "deinit", "dlclose", "_exit", "hung"}
              \cup Serving \cup Ended
  /\ request \in Messages \cup {NoMessage}
  /\ taken \in 0..Len(sent)
  /\ answered \in Seq(Messages)
  /\ service \in BOOLEAN /\ leaving \in BOOLEAN /\ active \in BOOLEAN
  /\ mapped \in Nat /\ refused \in Nat

Init ==
  /\ StreamInit
  /\ pc = "read" /\ request = NoMessage /\ taken = 0 /\ answered = <<>>
  /\ service = FALSE /\ leaving = FALSE /\ mapped = 0 /\ active = FALSE
  /\ refused = 0

Goto(there) == pc' = there

(***************************************************************************)
(* The loop: channel.read(), decode.                                       *)
(***************************************************************************)
(* Mutant: return from main.swift instead of leave().                      *)
LeaveAtOnce ==
  /\ leaving' = TRUE
  /\ request' = NoMessage
  /\ Goto("_exit")
  /\ UNCHANGED <<taken, answered, library>>

(* leave(): release() first.  A request that was under way is given up.    *)
Leave ==
  /\ leaving' = TRUE
  /\ request' = NoMessage
  /\ Goto("finalize")
  /\ UNCHANGED <<taken, answered, library>>

Receive == pc = "read" /\ Chunk /\ UNCHANGED <<loop, library>>

(* The length has been read: the body next, or badLength.                  *)
ReadHeader ==
  /\ pc = "read"
  /\ \E n \in 0..MaxMessageBytes + 1 :
       /\ HeaderRead(n)
       /\ \/ Acceptable(n) /\ ReadPart("body", n) /\ UNCHANGED <<loop, library>>
          \/ ~Acceptable(n) /\ UNCHANGED <<pipe, buffer>> /\ Leave

(* Mutant: a frame that does not decode is answered, too.                  *)
ReadBodyAnswers ==
  /\ pc = "read" /\ part = "body"
  /\ Complete \/ (Short /\ got > 0)
  /\ ReadPart("header", HeaderBytes)
  /\ \/ \E i \in DOMAIN sent :
          /\ Holds(i) /\ Kind[sent[i]] # "undecodable"
          /\ taken' = taken + 1
          /\ request' = sent[i]
          /\ Goto("handle")
     \/ /\ \A i \in DOMAIN sent : Holds(i) => Kind[sent[i]] = "undecodable"
        /\ Goto("reply")
        /\ UNCHANGED <<taken, request>>
  /\ UNCHANGED <<answered, leaving, library>>

(* What readExactly returned, all of it or, when the stream has ended, as  *)
(* much as there was: a request, or nothing that decodes, and the loop     *)
(* reads on.                                                               *)
ReadBody ==
  /\ pc = "read" /\ part = "body"
  /\ Complete \/ (Short /\ got > 0)
  /\ ReadPart("header", HeaderBytes)
  /\ \/ \E i \in DOMAIN sent :
          /\ Holds(i) /\ Kind[sent[i]] # "undecodable"
          /\ taken' = taken + 1
          /\ request' = sent[i]
          /\ Goto("handle")
     \/ /\ \A i \in DOMAIN sent : Holds(i) => Kind[sent[i]] = "undecodable"
        /\ taken' = IF \E i \in DOMAIN sent : Holds(i) THEN taken + 1 ELSE taken
        /\ UNCHANGED <<pc, request>>
  /\ UNCHANGED <<answered, leaving, library>>

(* The stream ends before a message, leave(0), or right after a length,    *)
(* .truncated and leave(1).  In the middle of a length: four bytes are     *)
(* loaded from fewer, which traps or yields a length that nothing follows. *)
EndOfStream ==
  /\ pc = "read" /\ Short
  /\ got = 0 \/ part = "header"
  /\ \/ Leave
     \/ got > 0 /\ Goto("crashed") /\ UNCHANGED <<request, taken, answered, leaving, library>>
  /\ UNCHANGED <<pipe, buffer>>

(***************************************************************************)
(* handler.handle.                                                         *)
(***************************************************************************)
Needs(k) == Kind[request] = k

(* services.get(): built once and kept.                                    *)
Handle ==
  /\ pc = "handle"
  /\ \/ Needs("plain") /\ Goto("reply")
     \/ ~Needs("plain") /\ service /\ Goto(IF Needs("sign") THEN "window" ELSE "serve")
     \/ ~Needs("plain") /\ ~service /\ Goto("dlopen")
  /\ UNCHANGED <<pipe, buffer, request, taken, answered, leaving, library>>

(* The PIN window: the person signs or cancels.                            *)
Person ==
  /\ pc = "window"
  /\ Goto("serve") \/ Goto("reply")
  /\ UNCHANGED <<pipe, buffer, request, taken, answered, leaving, library>>

(* The calls on the card, and what came of them.                           *)
Serve ==
  /\ pc = "serve"
  /\ Goto("reply")
  /\ UNCHANGED <<pipe, buffer, request, taken, answered, leaving, library>>

(* emit, and the end of the loop body: a failed write means leave(1).      *)
Reply ==
  /\ pc = "reply"
  /\ \/ /\ ~closed
        /\ answered' = Append(answered, request)
        /\ request' = NoMessage
        /\ Goto("read")
        /\ UNCHANGED <<taken, leaving, library>>
     \/ closed /\ Leave
  /\ UNCHANGED <<pipe, buffer>>

(***************************************************************************)
(* PKCS11Module.init.  An error becomes an answer; for hello, an empty     *)
(* list of tokens.                                                         *)
(***************************************************************************)
Step(from) == pc = from /\ UNCHANGED <<pipe, buffer, request, taken, answered, leaving>>

(* Mutant: a module that is not there is looked for until it is.           *)
DlopenUntilThere ==
  /\ Step("dlopen")
  /\ \/ mapped' = mapped + 1 /\ Goto("dlsym")
     \/ UNCHANGED mapped /\ Goto("handle")
  /\ UNCHANGED <<service, active, refused>>

Dlopen ==
  /\ Step("dlopen")
  /\ \/ mapped' = mapped + 1 /\ Goto("dlsym")
     \/ UNCHANGED mapped /\ Goto("reply")
  /\ UNCHANGED <<service, active, refused>>

(* No C_GetFunctionList: closed again.                                     *)
Dlsym ==
  /\ Step("dlsym")
  /\ \/ Goto("list") /\ UNCHANGED mapped
     \/ Goto("reply") /\ mapped' = mapped - 1
  /\ UNCHANGED <<service, active, refused>>

(* A null list: closed again.  An error: thrown, and left open.            *)
GetFunctionList ==
  /\ Step("list")
  /\ \/ Goto("initialize") /\ UNCHANGED mapped
     \/ Goto("reply") /\ mapped' = mapped - 1
     \/ Goto("reply") /\ UNCHANGED mapped
  /\ UNCHANGED <<service, active, refused>>

Served == IF Needs("sign") THEN "window" ELSE "serve"

(* Mutant: the error of C_Initialize is not thrown.                        *)
InitializeUnchecked ==
  /\ Step("initialize")
  /\ service' = TRUE /\ Goto(Served)
  /\ active' \in BOOLEAN
  /\ UNCHANGED <<mapped, refused>>

(* CKR_CRYPTOKI_ALREADY_INITIALIZED counts as success.  On an error the    *)
(* library is closed, and as every field of the object is set by then, the *)
(* object that is thrown away runs its deinit on top of that.              *)
Initialize ==
  /\ Step("initialize")
  /\ \/ active' = TRUE /\ service' = TRUE /\ Goto(Served) /\ UNCHANGED mapped
     \/ mapped' = mapped - 1 /\ Goto("deinit") /\ UNCHANGED <<service, active>>
  /\ UNCHANGED refused

(***************************************************************************)
(* The end of the library.                                                 *)
(***************************************************************************)
(* C_Finalize, through a function list that may no longer be mapped.  The  *)
(* code never looks at its result.                                         *)
CallFinalize(next) ==
  /\ \/ mapped > 0 /\ active' = FALSE /\ Goto(next) /\ UNCHANGED refused
     \/ active /\ refused' = refused + 1 /\ Goto(next) /\ UNCHANGED active
     \/ mapped = 0 /\ Goto(next) /\ UNCHANGED <<active, refused>>
     \/ mapped = 0 /\ Goto("crashed") /\ UNCHANGED <<active, refused>>
  /\ UNCHANGED mapped

(* LazyTokenService.release: service?.finalize().                          *)
Finalize ==
  /\ Step("finalize")
  /\ \/ service /\ CallFinalize("deinit")
     \/ ~service /\ Goto("_exit") /\ UNCHANGED <<mapped, active, refused>>
  /\ UNCHANGED service

(* deinit, of the last reference or of an object whose init has thrown.    *)
Deinit ==
  /\ Step("deinit")
  /\ CallFinalize("dlclose")
  /\ service' = FALSE

(* dlclose.  The last one runs the library's destructor, which joins the   *)
(* heartbeat; one too many is an error nobody sees.                        *)
Dlclose ==
  /\ Step("dlclose")
  /\ \/ mapped = 1 /\ active /\ Goto("hung") /\ UNCHANGED mapped
     \/ /\ mapped > 1 \/ ~active
        /\ mapped' = IF mapped > 0 THEN mapped - 1 ELSE 0
        /\ Goto(IF leaving THEN "_exit" ELSE "reply")
  /\ UNCHANGED <<service, active, refused>>

(* _exit runs no destructor.                                               *)
Exit ==
  /\ Step("_exit")
  /\ Goto("exited")
  /\ UNCHANGED library

(* A signal: SIGPIPE on a write to a port that is closed, or any other.    *)
Kill ==
  /\ pc \notin Ended
  /\ Goto("killed")
  /\ request' = NoMessage
  /\ active' = FALSE /\ mapped' = 0 /\ service' = FALSE
  /\ UNCHANGED <<pipe, buffer, taken, answered, leaving, refused>>

Browser ==
  /\ HangUp \/ \E m \in Messages : Send(m) \/ SendCut(m)
  /\ UNCHANGED <<loop, library>>

Run ==
  \/ Receive \/ ReadHeader \/ ReadBody \/ EndOfStream
  \/ Handle \/ Serve \/ Reply
  \/ Dlopen \/ Dlsym \/ GetFunctionList \/ Initialize
  \/ Finalize \/ Deinit \/ Dlclose \/ Exit

Next == Run \/ Person \/ Browser \/ Kill

Spec == Init /\ [][Next]_vars

(* The process runs on; nobody has to answer a window, write or hang up.   *)
FairSpec == Spec /\ WF_vars(Run)

-----------------------------------------------------------------------------
(* However the pipe cuts the bytes up and wherever it ends, the handler    *)
(* gets the requests that were sent whole, in order, each once, and each   *)
(* is answered before the next is read (NativeMessaging.readExactly,       *)
(* protocol.md "Framing").                                                 *)
WholeMessages ==
  IF sent = <<>> \/ IsWhole(Len(sent)) THEN sent ELSE SubSeq(sent, 1, Len(sent) - 1)

Requests ==
  INSTANCE RequestStream WITH
    sent <- WholeMessages,
    Decodable <- {m \in Messages : Kind[m] # "undecodable"},
    current <- request

TakesWholeRequests == Requests!Spec

(* The card is released on every way out that goes through leave(): unless *)
(* the library refuses C_Finalize, twice, no exited process has left it    *)
(* initialised, and none is held by the destructor that joins its          *)
(* heartbeat (main.swift leave, PKCS11Module.finalize).                    *)
CardIsReleased == pc = "hung" \/ (pc = "exited" /\ active) => refused > 1

(* Calls on the card go to a library that is mapped and initialised,       *)
(* whatever became of earlier attempts to load it.                         *)
ServiceIsAlive ==
  service /\ pc \notin {"finalize", "deinit"} => active /\ mapped > 0

(* Once the browser hangs up the process ends, unless a window waits for   *)
(* the person or the library holds it in its destructor.                   *)
HungUpEnds == closed ~> pc \in Ended \cup {"window", "hung"}

(* A request that was read is answered, window and end of process apart,   *)
(* also on a machine without the module (main.swift modulePath).           *)
RequestAnswered == pc = "handle" ~> pc \in {"read", "window", "hung"} \cup Ended

-----------------------------------------------------------------------------
(* What the sources say and the code does not do.                          *)

(* RequestHandler: a helper must still be able to answer hello rather than *)
(* dying -- no request is lost to a crash of the helper itself.            *)
HelloSurvives == pc = "crashed" => request = NoMessage

(* main.swift: _exit runs no destructor and cannot be held.                *)
NeverHeld == pc # "hung"

=============================================================================
