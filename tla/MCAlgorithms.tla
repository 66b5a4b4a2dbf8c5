---------------------------- MODULE MCAlgorithms ----------------------------
(* Bounded inputs for the pure parts of the program: one step puts one     *)
(* input to the function it is for.                                        *)
EXTENDS Versions, CertificateId, ConsentAnswers

CONSTANTS
  Base,          \* components of a version are below Base, or NaN
  Bytes,         \* bytes of a CKA_ID
  letter, digit  \* characters that mean nothing to anybody

ASSUME BaseAssumption == Base \in Nat
ASSUME BytesAssumption == Bytes \subseteq 0..255

(* What a person types ends before the line does, and a text is not nil.   *)
Characters == {Blank, Newline, Comma, SignReturned, TextReturned, digit}

ASSUME TypedAssumption == /\ Newline \notin {Blank, Comma, digit, TextReturned}
                          /\ Nothing \notin Seq(Characters)

UpTo(n, S) == UNION {[1..k -> S] : k \in 0..n}

MCVersions == UpTo(3, 0..Base - 1 \cup {NaN}) \ {<<>>}
MCSerials  == UpTo(2, {Colon, letter, 1})
MCKeyIds   == UpTo(2, Bytes)
MCTyped    == UpTo(4, {Blank, Comma, digit, TextReturned})
MCTexts    == UpTo(5, {Backslash, DoubleQuote, letter})

VARIABLE input

Is(what) == input.what = what

Init == input = [what |-> "none"]

Compare ==
  \E v, w \in MCVersions : input' = [what |-> "versions", have |-> v, need |-> w]

List ==
  \E s \in MCSerials, k \in MCKeyIds : input' = [what |-> "id", serial |-> s, key |-> k]

Ask ==
  \E t \in MCTyped, b \in {"Sign", "Cancel"} :
    input' = [what |-> "answer", typed |-> t, button |-> b]

Show == \E t \in MCTexts : input' = [what |-> "text", text |-> t]

Next == Is("none") /\ (Compare \/ List \/ Ask \/ Show)

Spec == Init /\ [][Next]_input

-----------------------------------------------------------------------------
Numeric(v) == \A i \in DOMAIN v : v[i] # NaN

(* Reference: the version as one number, most significant component first. *)
Value(v) ==
  Base * Base * Component(v, 1) + Base * Component(v, 2) + Component(v, 3)

(* "The host is at least this old" is numeric order, component by          *)
(* component, with 1.2 and 1.2.0 the same version (atLeast).               *)
ComparesAsNumbers ==
  Is("versions") /\ Numeric(input.have) /\ Numeric(input.need) =>
    (AtLeast(input.have, input.need) <=> Value(input.have) >= Value(input.need))

(* A version with a part that is no number passes only by a component      *)
(* before that part: it never counts as the release it precedes (atLeast). *)
UnreadablePartNeverPasses ==
  Is("versions") =>
    \A i \in DOMAIN input.have : UnreadableAt(i, input.have, input.need)
                                   => ~AtLeast(input.have, input.need)

(* The id a page was given selects the token and the key it was made of,   *)
(* and never another -- as long as the serial has no colon: locate cuts at *)
(* the first one and asks for a token by what stands in front of it.  That *)
(* of an object without CKA_ID, or a token without a serial, is not found. *)
IdSelectsItsKey ==
  Is("id") =>
    LET id == Format(input.serial, Hex(input.key))
    IN  IF Colon \in Range(input.serial)
          THEN ~(Located(id) /\ Token(id) = input.serial)
          ELSE /\ Located(id) <=> input.serial # <<>> /\ input.key # <<>>
               /\ Located(id) => Token(id) = input.serial /\ KeyId(id) = input.key

(* What goes to the card is what was typed, whole, without the blanks      *)
(* around it, and nothing after Cancel (DialogConsent.pin).                *)
PinIsTyped ==
  Is("answer") =>
    LET pin == Pin(Answer(input.button, input.typed))
    IN  IF input.button = "Cancel"
          THEN pin = Nothing
          ELSE /\ \E before, after \in UpTo(4, {Blank}) : input.typed = before \o pin \o after
               /\ pin # <<>> => pin[1] # Blank /\ pin[Len(pin)] # Blank

(* A window shows its message, whatever a page has put into the name of    *)
(* the document (DialogConsent.quote).                                     *)
ShownAsWritten == Is("text") => Shown(Quote(input.text)) = input.text
=============================================================================
