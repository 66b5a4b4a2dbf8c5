# Sign Bridge in TLA+

Sign Bridge lets a web page ask for a signature made by a card in a local
reader. A Chromium extension relays the page's requests to a native host, the
host asks the person in windows of its own, and talks to the card through a
PKCS #11 module. This directory holds TLA+ models of the parts where things can
go wrong in an order nobody tried, the TLC configurations that check them on
small instances, and proofs that the main results hold for any number of
processes, origins, readers and cards.

Contents: [the system](#the-system), [the modules](#the-modules-and-the-code),
[the runs](#the-runs), [bounds](#bounds), [fairness](#fairness),
[proofs](#what-is-proved), [disagreements](#where-code-and-documents-disagree),
[what is not modelled](#what-is-not-modelled), [plan](#plan).

## The system

```
page --port--> extension --one native port per request--> host --PKCS #11--> card
 (several)      (relay)         (one process each)        |
                                                          +--> paired.json (shared)
                                                          +--> windows (the person)
```

| component | state it keeps | operations | who it meets |
|---|---|---|---|
| Extension relay, `background.ts` | per request: the native port and the `answered` flag | `onConnectExternal`, page `onMessage`, host `onMessage`, host `onDisconnect` | the page's port (may vanish), the host's port (may end at any time) |
| Version comparison, `atLeast` | none | one pure function | decides the version gate of the relay |
| Host loop, `signbridge-host/main.swift` | `writeFailed` of one request, the lazy token service | read, decode, handle, emit, `leave` | stdin/stdout, RequestHandler |
| NativeMessaging | none but the stream | `read`, `write`, `readExactly` | the host loop |
| RequestHandler | none of its own | `hello`, `pair`, `listCertificates`, `sign` | PairingStore, Consent, TokenService |
| PairingStore | `approved`, loaded once; `paired.json` | `init`, `isPaired`, `approve`, `persist` | every other host process, through the file; the person, who may delete it |
| Consent dialogs | none | `approvePairing`, `approveSignature` | the person |
| TokenService | none | `tokens`, `listCertificates`, `sign`, `locate` | readers and cards, which the person and other processes change meanwhile |
| PKCS11Session | `loggedIn` | `login`, `logout`, `findObjects`, `attribute`, `sign`, `deinit` | the card, its PIN try counter |
| PKCS11Module | the loaded library | `init`, `finalize`, `deinit`, `usableSlots`, `tokenInfo`, `openSession` | the reader |
| Error codes | none | `PKCS11Error.check`, `ErrorCode.from` | every error path |
| DigestInfo | none | one pure function | `sign` |
| manifests, release scripts, packaging | files | one-pass scripts | each other, through the version |

What is hard about it:

* **Processes.** Every request gets a host process of its own. They share a file
  that each reads once and rewrites whole, and they share cards whose try
  counters live longer than any of them.
* **Time.** A window stays open as long as the person takes. What was read
  before it - the pairings, the first token's label - is used after it.
* **The world moves between two calls.** A card is exchanged between reading its
  serial and opening a session, or pulled out of a running signature.
* **Ends that race.** A page goes, a host dies, an answer and the end of the port
  are delivered one after the other at any later time.
* **Errors nobody looks at.** `persist`, `C_Logout`, `C_CloseSession` and a failed
  write of the pairing code are all ignored where they happen.

What makes each part correct, in a sentence each: only a click pairs an origin,
and an approval is not lost; a page sees its code before the window opens; a
signature is made by the asked-for card and with that card's PIN, typed for this
signature; a try is spent only on a PIN somebody typed, and said so; a page gets
one answer, last, and never silence; a host goes when it is no longer needed.

## The modules and the code

| module | models |
|---|---|
| `PairingStore` | PairingStore.swift, the pairing half of RequestHandler.swift, the loop of main.swift, for many processes over one file |
| `TokenService` | `RequestHandler.sign`, `TokenService.tokens/locate/sign`, PKCS11Session and the slot functions of PKCS11Module, for many processes over shared readers |
| `SigningContract` | what one request for a signature promises the person; `TokenService` implements it |
| `Cryptoki`, `Listing` | `hello`'s tokens and `listCertificates` call by call: `usableSlots`, `findObjects`, `attribute`, over the calls of pkcs11f.h they make; `Listing` EXTENDS `Cryptoki` |
| `NativeMessaging`, `Host` | `NativeMessaging.read` over a byte stream; around it the loop of main.swift, `LazyTokenService`, and the life of the PKCS #11 library from `dlopen` to `_exit`; `Host` EXTENDS `NativeMessaging` |
| `RequestStream` | a queue of whole requests; `Host` implements it |
| `CertificateId`, `ConsentAnswers` | the ids of certificates, `hex` and `unhex`; `quote` and `pin` of DialogConsent |
| `Versions` | `atLeast` of background.ts |
| `Extension` | the listeners of background.ts, with ports and hosts around them; EXTENDS `Versions` for the gate |
| `MC...` | constants and symmetry for TLC; `MCAlgorithms` also enumerates the inputs of the three pure modules |
| `..._proofs` | the theorems, in modules that only add definitions for proofs; those about `CertificateId`, `ConsentAnswers` and `MCAlgorithms` are in `Algorithms_proofs` |

### PairingStore

`file` is the set paired.json decodes to; an absent or unreadable file is the
empty set, as in `PairingStore.init`. `approved[h]` is the private field of the
same name in process `h`. `phase[h]` is the place in the loop: `Launch` builds the
store (the only read of the file), `Read` is `channel.read` and the decode,
`Hello`, `RequirePairing`, `BadRequest`, `AlreadyPaired` are the branches of
`respond` that answer at once. `pair` is split where other processes can act:
`EmitCode`, `OpenWindow`, then `Approve` or `Refuse`. `Approve` is the whole
reaction to the click - insert, `persist`, answer - because `persist` replaces the
file in one atomic write. `saved` says whether that write succeeded; the code
asks nobody. `Send` is the last frame, together with the check of `writeFailed`
that ends the process. `Forget` is the person deleting the file. A killed process
loses its memory and nothing else.

Four history variables state what the data alone cannot: who was ever approved
(`consented`), what the file ought to hold (`record`), which processes have not
seen the latest file (`stale`), and whether a write was lost or made from a stale
copy (`tainted`). No guard reads them.

### TokenService

`reader` and `tries` are the world. `login` is the set of pairs *(process, slot)*
that are logged in: in PKCS #11 a login belongs to the application, not to the
session, which is what makes `CKR_USER_ALREADY_LOGGED_IN` possible. `step[h]`
walks through `RequestHandler.sign` and `TokenService.sign`; one action is one
module call (or one pass over the readers), because anything can happen between
two calls and nothing a caller could see inside one. With no session open, a step
that throws goes to `answer`; a `login` that throws goes to `close` (`deinit`, never
logged in); after a login every way out, the signature included, goes through
`logout` and then `close`. A PIN is named by the card it opens, `WrongPin` opens none.

`logout` and `deinit` discard the results of `C_Logout` and `C_CloseSession`. `Logout`
and `Close` therefore have a failing branch each. After a failed C_Logout the login stays until
C_CloseSession ends it, as it does with the last session of a process; a session that
could not be closed is dropped by the program and stays at the module
(`unclosed`), and a login with it. What is left ends with the card's removal or with
the process (`Leave` by C_Finalize, `Kill` by the system). An `Answer` ends none of it: the process
stays.

`served` are the processes that have answered. Two variables are history:
`swapped`, the requests whose slot's card was taken out between `locate` and `openSession`,
and `failed`, which of the two calls has failed after which process at which card. No
guard reads them.

Two constants are modes. `CleanUpMayFail` switches the failing branches of `Logout` and
`Close` on. `OneShot`: the extension posts one request on each native port, so a process that
has served one gets no other; with `FALSE` it may, as the loop of main.swift allows.

### Extension

`page`, `port`, `host` are the three ends of one request, `pipe[r]` holds what the
host has written and the browser has not yet delivered, `inbox[r]` what the page got.
`RelayAnswer` is the whole listener: set `answered`, choose between the frame and
`helper_outdated` (`Gate`), `postMessage`, `disconnect` - where a `postMessage` that
throws skips the rest. `HostGone` is `onDisconnect`. The host is reduced to
what its wire shows: it may answer, ask, drop what it cannot decode, or die.
`ExtensionStops` is the worker being stopped or reloaded with every port it has. A page
that is closed from the start stands for a connection without an origin, which
`onConnectExternal` ends at once.

### SigningContract

Four variables of `TokenService` - how far a request has come, its PIN, who signed,
the answer - and nothing of slots, sessions, logins or other processes. One window
at most, one PIN from it at most, one signature for the PIN and by the card it
opens, one answer. `TokenService!Contract` is the `INSTANCE ... WITH` that maps
`step[h]` to the five phases; `KeepsContract` is its specification.

### Cryptoki and Listing

`Cryptoki` holds the cards in the readers and one session, and for each call the
listing makes an operator for its success. A session that outlives its card reaches
nothing, and a card grants no more than `MaxSessions` at a time, counted in
`sessions`. `Listing` is the caller. Each call is a step, with a failing branch of its
own: `try` leads to `Throw` or `GiveUp`, `try?` to `Skip`. `Count` and `Fetch` are the
two calls of C_GetSlotList, `Filter` is `usableSlots`, `Visit` and `OpenSession` the
guard of the loop, `FindObjectsInit` and `Page` are `findObjects` - with the extra call
after a full page - `ReadKey` and `ReadCertificate` the attributes of one object. `Deinit`
is `deinit`, on the way out of a slot (`CloseSession`) and of an error (`Throw`): the handle is
dropped whatever C_CloseSession returns.
`hello` shares all of it up to `Visit` and turns every error into an empty list.
Three history variables make the promises precise: `steady`, the slots that kept
their card and answered every call of this request, `swapped`, the slots whose card
moved between `C_GetTokenInfo` and `C_OpenSession`, and `unclosed`, how many sessions
C_CloseSession has refused to close in each slot. No guard reads them.

### NativeMessaging, Host and RequestStream

Bytes are positions in the stream, so that a body read from the wrong place is visibly
no message. `Chunk` is one `read` of a pipe, of any size; `Short` is the end of the
stream with the count not met, upon which the code returns what it has. `SendCut` is a
browser that dies within a write, at any byte. Four bytes loaded from fewer are
undefined, and are a choice between a crash and a length nothing follows.

`Host` puts the loop around it. `Handle` to `Serve` is one request; what the
handler does with paired origins and cards is in the other modules, so a request is
only one of four kinds. `Dlopen` to `Initialize` are the steps of
`PKCS11Module.init`, each of which may fail and each with the clean-up the code has,
or lacks, there. `Finalize`, `Deinit`, `Dlclose` and `Exit` are the way out. The library
is external: initialised, it holds the card, and its destructor (`Dlclose` of the
last handle) waits for a thread that only C_Finalize stops; a call into it after it
was unmapped either does nothing or crashes.

`RequestStream` knows messages and no bytes. `Host!Requests` instantiates it with the
messages sent whole; that cuts, short reads and the ends of streams do not show is
`TakesWholeRequests`.

### CertificateId and ConsentAnswers

Operators only. `Format` and `Split` are the two ends of an id, `Hex` and `Unhex` of
its second half, with what `split` does to empty parts and `unhex` to pairs that are
no number; `Unhex` goes over the pairs as the loop of `unhex` does. `Quote` is `quote`,
`ReadOut` and `Shown` are what AppleScript makes of the literal, character by character;
`Answer` is the line osascript prints and `Pin` what is read out of it. A character is a value,
and the assumptions say which of them differ: the colon is no hex digit, the backslash
no quote, the label `text returned:` neither the other label nor the comma.

### Versions

A version is the sequence of what `Number` makes of its parts; `NaN` is a constant
outside the naturals that differs from everything and is greater than nothing.
`AtLeast` states what the loop computes: no place differs, or the first that does
is greater.

## The runs

| run | what it asks |
|---|---|
| `pairing` | safety of pairing with two processes and two origins: `ConsentNeeded`, `CurrentCopy`, `RecordExact`, `CodeBeforeWindow` |
| `pairing_live` | every request is answered (`Answered`), a host leaves when the browser hangs up (`HungUpLeaves`) |
| `pairing_lost` | finds the lost update (below) |
| `token` | two processes at one reader, two cards that lock at their second wrong PIN, logouts and closes that fail, one request per process: `SignedWithOwnPin`, `LoginScoped`, `TrySpentIsAnswered`, and the refinement `KeepsContract` |
| `token_readers` | one long-lived process at two readers, a blank card, logouts and closes that fail, so that the `already logged in` path is taken: `SignedBySelected`, `OwnPinUnlessFailedTwice`, and `PinTypedAnswered` |
| `extension` | two requests of one page: `NothingAfterAnswer`, `AnsweredIsClosed`, `DecodableIsAnswered`, `AnsweredHostLeaves` |
| `extension_leak` | finds the port that stays open (below) |
| `host` | two messages cut anywhere, every call into the library failing at will: the refinement `TakesWholeRequests`, `CardIsReleased`, `ServiceIsAlive`, `HungUpEnds`, `RequestAnswered` |
| `host_init` | finds the call into a closed library (below) |
| `listing` | two slots, three cards that move, every call failing at will: `SteadyCardsAreListed`, `RowsUnderOwnSerial`, `FlagIsOwnKey`, `SessionIsClosed`, `FailsForAReason`, `ListingAnswered` |
| `listing_reader` | finds the reader that takes the other one down (below) |
| `algorithms` | `atLeast` against numeric order (`ComparesAsNumbers`), what an unreadable part may never do (`UnreadablePartNeverPasses`), which ids lead `locate` to what they were made of (`IdSelectsItsKey`), the PIN out of an answer (`PinIsTyped`), a text through `quote` (`ShownAsWritten`) |

`token_readers` leaves `SignedWithOwnPin` and `KeepsContract` out on purpose: in a process
that goes on, after C_Logout *and* C_CloseSession have failed at a card, they are false - a
second signature goes through on the login the first one left, whatever is typed.
`OwnPinUnlessFailedTwice` says that it takes both failures: after a failed C_Logout alone
the closing of the session logs out. `CleanUpMayFail => OneShot` is the assumption of the
theorems `PinIsTheConsent` and `ContractIsKept`, and the reason why one process per request is
more than a matter of taste. In `token` a second request would find such a login, as the mutant of
`SignedWithOwnPin` does; that none is posted on a served port is the extension's doing.

`SessionIsClosed` does not say that no session stays open: C_CloseSession may refuse. It says that each
session opened was given to it once, whichever way the method was left. `SteadyCardsAreListed`
excuses an empty `hello` when another reader changed or a call failed, since every error there means
*no token*. `IdSelectsItsKey` states both directions: an id leads to its token and key exactly if the
serial has no colon and neither part is empty; an id whose serial has a colon is cut
in the serial and never leads to its token.

`SteadyCardsAreListed` says nothing of a listing that fails: that one bad reader can fail
it for all is `listing_reader`. `CardIsReleased` speaks of the ways out through `leave`; a
signal ends the process, and the system then takes the card back. It allows for a
library that refuses C_Finalize twice, and `refused` counts that.

Each module also contains, marked "Mutant", variants of its definitions with a
plausible mistake in them. They take no part in the specification; each is there
to show that one property notices one mistake.

## Bounds

* *Processes: two.* All sharing is pairwise: a lost update, a stale copy, a try
  spent under somebody's feet and a card exchanged by another take two actors. The
  proofs cover any number.
* *Origins: two*, so that one process can overwrite the approval of another
  origin; one in `pairing_live`, where nothing compares origins.
* *Cards: two, slots: one or two.* Two cards to exchange in one slot, two slots so
  that the first token is not the one asked for.
* `MaxTries` is 2: there is a state between fresh and locked, and in `token` each of the
  two processes can spend one of the two tries.
* *Listing: pages of two objects* (32 in the code), a card whose certificates fill a page
  exactly and one that needs a second page, with objects lacking an id or a value; a
  third token that was never initialised. Two slots, so that one can fail under the other.
  `MaxSessions` is 2: a card grants one more after one was left open, and none after two.
* *Host: two messages* (`MaxSent`) out of five, with bodies of one and two bytes and one
  over `MaxMessageBytes`, which is 2 (1 MB in the code). Two are enough for a cut in the
  first to shift the second, and for a second request to meet the library in
  whatever state the first left it. `MaxSent` is the only cap on the stream.
* *Ids, answers, texts:* serials of two characters, colons among them, key ids of two
  bytes, typed PINs of up to four characters - commas, blanks and the label
  `text returned:` itself - and texts of up to five with quotes and backslashes.
* *Requests of a page: two*, which share nothing but the page; the model is finite
  because a request is made once.
* *Versions: up to three components below 3, or NaN.* Equal, smaller, larger, missing
  and unreadable components in every place, which is all the loop tells apart.

No other counter needs a cap: every variable ranges over a finite set of its own accord
(`mapped` and `refused` are bounded by the number of requests).
Deadlock is checked, except in the Extension runs, where all requests made and
answered and every page gone is the proper end, in the Host runs, where a process
ends, and in `algorithms`, which has one step.

## Fairness

Only the program and the browser's delivery are fair, never a person.

* `PairingStore`: weak fairness of each host's own steps (`Handle`). A process that
  is not waiting runs on. Launching, reading, hanging up, killing and the two answers
  of a window are not fair; that is why `Answered` and `HungUpLeaves` except a window.
* `TokenService`: weak fairness of `Proceed` - module calls return. The PIN window and
  the cards are not fair. `PinTypedAnswered` starts after the window.
* `Extension`: weak fairness of each request's listeners and of its host's own steps.
  `HostAnswers` out of a window is not fair. The exception for `asking` in
  `DecodableIsAnswered` is that window.

* `Host`: weak fairness of `Run`, the process's own steps. `Person` in front of a window, the
  browser's writes and its hanging up are not fair; `hung`, in the library's
  destructor, is an end the liveness properties except and `CardIsReleased` bounds.
* `Listing`: weak fairness of `Proceed`. Cards move as they like; each request still ends,
  since every step takes a slot, an object or a page off what is left.

Weak fairness suffices everywhere: nothing competes for a lock, so a step that is
possible stays possible until it, or the end of its process, happens.

## What is proved

All theorems are for arbitrary (also infinite) sets of processes, origins, slots,
cards and any number of tries, messages and objects, from the named assumptions on the
constants only (names differ, `Blank` is a set of cards, slots are numbers, `MaxTries` and
the page size are positive; for `Listing` the readers are finitely many). Of the pure
algorithms, the general lemmas are for inputs of any length and any alphabet; the five that
name a property of `algorithms` hold of its inputs, for every `Base`, every set `Bytes`
of bytes, and characters that are distinct where `TypedAssumption` says so.

| theorem | establishes |
|---|---|
| `PairingStore_proofs!TypeCorrect` | `TypeOK` |
| `PairingStore_proofs!ConsentIsNeeded` | `ConsentNeeded` |
| `PairingStore_proofs!CopyIsCurrent` | `CurrentCopy` |
| `PairingStore_proofs!FileIsTheRecord` | `RecordExact` |
| `PairingStore_proofs!CodeComesFirst` | `CodeBeforeWindow` |
| `TokenService_proofs!TypeCorrect` | `TypeOK`, the range of the try counters included |
| `TokenService_proofs!SelectedCardSigns` | `SignedBySelected` |
| `TokenService_proofs!PinIsTheConsent` | `SignedWithOwnPin`, if `CleanUpMayFail => OneShot` |
| `TokenService_proofs!LoginsAreScoped` | `LoginScoped`, in every mode |
| `TokenService_proofs!OwnPinSigns` | `OwnPinUnlessFailedTwice`, in every mode |
| `TokenService_proofs!TriesAreAnswered` | `TrySpentIsAnswered` |
| `TokenService_proofs!ContractIsKept` | the refinement `KeepsContract`, if `CleanUpMayFail => OneShot` |
| `Extension_proofs!TypeCorrect` | `TypeOK` |
| `Extension_proofs!AnswerIsLast` | `NothingAfterAnswer` |
| `Extension_proofs!AnswerClosesPort` | `AnsweredIsClosed` |
| `Host_proofs!TypeCorrect` | `TypeOK` |
| `Host_proofs!CardReleased` | `CardIsReleased` |
| `Host_proofs!ServiceAlive` | `ServiceIsAlive` |
| `Host_proofs!TakesThemWhole` | the refinement `TakesWholeRequests` |
| `Listing_proofs!TypeCorrect` | `TypeOK` |
| `Listing_proofs!SteadyCardsListed` | `SteadyCardsAreListed` |
| `Listing_proofs!SessionClosed` | `SessionIsClosed` |
| `Listing_proofs!FlagOwnKey` | `FlagIsOwnKey` |
| `Listing_proofs!RowsOwnSerial` | `RowsUnderOwnSerial` |
| `Listing_proofs!FailsWithReason` | `FailsForAReason`, if there is a reader |
| `Versions_proofs!UnreadableNeverPasses` | what `UnreadablePartNeverPasses` checks, for versions of any length |
| `Versions_proofs!AtLeastReflexive`, `...Antisymmetric`, `...Transitive` | the gate compares by an order, for versions of any length |
| `Algorithms_proofs!AtLeastTotal` | ... and by a total one: of two versions that can be read, one satisfies the other |
| `Algorithms_proofs!ComparesNumbers` | `ComparesAsNumbers` |
| `Algorithms_proofs!UnreadableKeptOut` | `UnreadablePartNeverPasses` |
| `Algorithms_proofs!IdIsRead`, `IdsDiffer` | ids of any length: each selects its token and its key, and no two are equal, if serials have no colon and no part is empty |
| `Algorithms_proofs!IdSelects` | `IdSelectsItsKey` |
| `Algorithms_proofs!PinIsWhole` | a typed text of any length comes out with the blanks around it gone and nothing else |
| `Algorithms_proofs!PinWhole` | `PinIsTyped` |
| `Algorithms_proofs!QuotedIsShown` | a text of any length, through `quote`, is shown as written |
| `Algorithms_proofs!TextShown` | `ShownAsWritten` |

How the arguments go:

* **Pairing.** `TypeInv` adds two facts to the types: a window belongs to an origin
  (the origin guard comes first), and outside `answering` no reply is left over.
  Without the first, `Approve` could put a non-origin into the file; without the
  second, a granting reply could survive into another origin's request.
  `ConsentNeeded` is then inductive. `CurrentCopy` and `RecordExact` are proved
  together as `FileInv`, which adds `stale \subseteq Live`: a process that writes from a
  fresh copy writes `file` plus its own origin, which is `record` plus that origin,
  and every other live process becomes stale. `CodeInv` extends
  `CodeBeforeWindow` to the step before the window.
* **Signing.** `SessionInv` says where a session and a signature can exist at all, that a session
  reaches the card in its slot, and what `locate` has established: in `open`, the slot holds the
  asked-for card or the request is marked `swapped`. `LoginInv` says what stands behind a
  login: the PIN of the request in hand, or calls that failed to end it; it needs
  that a session the module still counts (`unclosed`) is one C_CloseSession refused to close. The
  delicate step is `LoginAlready`, where nobody looks at the PIN. It is harmless unless
  both calls have failed there, which is `OwnPinUnlessFailedTwice`; and a process that is sent one
  request reaches no login after they have, which is `PinInv` and what `CleanUpMayFail => OneShot` gives.
  `TrySpentIsAnswered` follows from `TypedInv`: a request that has reached the card
  has a typed PIN and no result yet, so the one action that spends a try also sets it.
* **The relay.** `OpenInv`: while a native port is open, its page, if still there, has
  had nothing but news. Posting an answer therefore puts it last, and the same step
  closes the port; a page that has gone never comes back, so the port that stays open
  then can post nothing.
* **Versions.** `AtLeastOverNat` restates `AtLeast` with places in the naturals, where
  a missing component is 0; the order then follows by comparing the first
  places that differ.

* **The contract of a signature.** Every action of `TokenService` maps to one action of
  `SigningContract` or to a stutter. The step that needs the invariants is the signature:
  `PinInv` gives that it is by the card the PIN opens.
* **The host over its stream.** `Inv` has three parts. `StreamInv`: the frames lie one
  behind the other, and the buffer of `read` begins where the next frame or its body
  begins - unless the stream has ended inside a frame, after which no whole message
  is left to take. `TakesThemWhole` rests on it: a body that is complete holds
  exactly message `taken + 1`. `LoopInv`: a request is in hand in the steps that serve one
  and in no other. `LibraryInv`: the library is initialised exactly if a service is
  kept, which is what a second request relies on; on the way out, an active library at
  `deinit` has refused once and at `dlclose` twice. The last is why
  `CardIsReleased` is not inductive as it stands.
* **The listing.** `SessionIsClosed` is inductive with two facts: the session in use reaches the
  card in its slot (`Behind`), and no card is in two slots, so that a card taken out takes the
  sessions of its own slot with it and no others. `Serials`: the
  session reaches the card whose serial was read, no card, or the slot is in
  `swapped`. `Keys`: while the session is alive the ids collected are those of public
  keys on its card, so `FlagIsOwnKey` follows when a row is added. `Room`: with
  every slot steady, the length `C_GetSlotList` gave is still the number of cards, so
  `Fetch` cannot run out of room; `Reasons` rests on it.
  `SteadyCardsAreListed` looks at the end of a listing only, and `Following` says what leads
  there, for every slot that has been steady so far. Before its visit nothing is known of its
  card (`Untold`). In its visit (`Halfway`) the objects of the current page and those
  of later pages are the rest of what the card has, so whatever is in front of them has been
  read: the keys collected, and then the rows, are those of that prefix. After the visit all
  is collected (`Gathered`), and no later visit adds to it, since no other slot has the same
  card (`OneCardEach`). A slot that is disturbed leaves `steady`, and its claim with it.
  TLC checked `Following` as an invariant of `listing` before it was proved.
* **The pure algorithms.** `Versions` and `ConsentAnswers!Pin` need no induction: the first place
  that differs decides, or the label of the field is the first of its kind. `ComparesAsNumbers`
  compares three digits to a base. Ids and texts are built by folds and
  taken apart by recursive functions. What such a function computes is proved by
  induction, where the set of the numbers, or of the sequences, for which the claim holds takes
  the place of the predicate: `Induction` comes from the least-number
  principle, `SequenceInduction` from `Induction`. That the functions exist is proved too
  (`FlatteningExists`, `FlatteningUnique`, and the same for `Unhex` and `ReadOut`): a function with
  the recursive equation is built step by step, and any two agree. With
  `FlattenAppend`, a sequence that grows by an element grows by that element's digits, or by
  that character and its backslash, and reading follows in step.

Only model-checked: all liveness - `Answered`, `HungUpLeaves`, `PinTypedAnswered`,
`DecodableIsAnswered`, `AnsweredHostLeaves`, `HungUpEnds`, `RequestAnswered`,
`ListingAnswered` - and `ENABLED`, which are out of the prover's reach. Every invariant and
every action property that a passing run checks, and both refinements, are theorems.

## Where code and documents disagree

Each of these has a run in which TLC finds the behaviour.

* **A second approval erases the first** (`pairing_lost`, `ApprovalsStay`). Two pairing
  windows are open in two processes; `persist` writes the copy loaded at launch. README:
  "Pairing, per origin, once".
* **A page that has gone keeps the native port open** (`extension_leak`,
  `PortClosedOnAnswer`): `postMessage` throws before `disconnect`.
* **A failing C_Initialize runs C_Finalize in a closed library** (`host_init`,
  `HelloSurvives`). `PKCS11Module.init` closes the handle and throws; every stored property
  is set by then, so `deinit` runs as well, through a function table that is no longer
  mapped, and closes the handle a second time. `RequestHandler.swift`: a helper "must
  still be able to answer hello rather than dying at startup".
* **One reader takes the listing of the other down** (`listing_reader`,
  `OtherReaderDoesNotMatter`). Only `tokenInfo` and `openSession` are tried with `try?`; an error on
  the open session leaves `listCertificates`. The comment above: "the answer for a
  working card must not depend on the state of the other one".

The modules state more at the end, of which TLC also finds counterexamples when
they are put into a configuration. They repeat a cause above, concern a single
answer code, or go beyond what any document promises, so they have no run of
their own: `DeletedStaysDeleted`, `PairedIsRecorded` and `CodeReachesPage` in
`PairingStore`; `KnownBeforePin` (the PIN is asked for before the certificate is looked
for), `ShownIsTried` (the window names the first token that answers, not the one that
will sign), `PinForOneCall`, `NoTokenReported` and `PinLockedMeansLocked` (protocol.md: the card has locked
itself; a card whose PIN was never set is answered so, too) in `TokenService`; `EveryRequestIsAnswered` (an undecodable request is dropped) and
`MissingMeansMissing` in `Extension`; `NeverHeld` in `Host` (`release` drops the last
reference, so `dlclose` runs before `_exit` and can hang on a library that refused
C_Finalize).

## What is not modelled

* The text of frames, labels, codes and dialogs, base64, DER and digests: no property
  here is about them. In particular `context.digest` is shown but never compared with
  `data` in the host, so no model of the host could relate the two.
* DigestInfo: a constant and a hash.
* The passes over slots inside `tokens` and `locate` are one step each. A card that moves
  during such a pass, or a reader that does not answer `C_GetTokenInfo` once, leads to an outcome
  the model also has (found, not found, or an error; any label or none), and a card that moves right after it is modelled.
* In `TokenService` a process that has answered may stay as long as it likes, with what it is
  still logged in to, as when the page has gone and the port is left open (`extension_leak`).
  `OneShot` only says that nothing more is posted on that port.
* `PairingStore.revoke`: it has no caller in the host or the extension.
* In `Listing`, the length and the value of an attribute, and the attributes of one object,
  are one step: between them only another application that rewrites the card's objects
  would make a difference, and there is none in the model.
* The osascript process: a host that is killed leaves its window open, and nothing in this
  program notices or ends it.
* A write of the host is one frame or none. What a browser makes of half a frame is
  not in this repository.
* The PKCS #11 headers in CPKCS11 are vendored declarations of the standard, and by their
  length most of the C in the repository. The functions and codes the program uses
  are modelled where it uses them (`Cryptoki`, `PinFailures` and its neighbours in `TokenService`,
  `CallFinalize` in `Host`); the other prototypes, constants and structures have no
  behaviour here to model, so the share of the headers that is mapped stays small.
* Manifests, release scripts and packaging: static data and one-pass scripts; the only
  part with a protocol is which version each artifact carries.

## Plan

Done: `PairingStore`, `TokenService` with `SigningContract`, `Extension` with `Versions`, `Listing`
over `Cryptoki`, `Host` over `NativeMessaging` with `RequestStream`, `CertificateId` and
`ConsentAnswers`, each with its MC module and its proofs.

What would add most from here:

1. A composition of one page, the relay and the host, with the abstract
   specification *every request has one answer and every signature one PIN*. The two
   contracts that exist, `SigningContract` and `RequestStream`, are its halves.
2. The osascript window as a process of its own, next to `Host`.
3. The release scripts, as a module of which version each artifact carries.
