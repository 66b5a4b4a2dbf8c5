---------------------------- MODULE ConsentAnswers ----------------------------
(***************************************************************************)
(* What DialogConsent says to osascript and makes of its answer: the text  *)
(* of a window as an AppleScript literal, and the PIN out of the line that *)
(* comes back.  A character is a value of its own, and so is each of the   *)
(* labels in the answer.                                                   *)
(***************************************************************************)
EXTENDS Naturals, SequencesExt

CONSTANTS
  Backslash, DoubleQuote,
  Blank, Newline, Comma,
  SignReturned,           \* "button returned:Sign"
  TextReturned,           \* "text returned:"
  Nothing                 \* nil

ASSUME CharacterAssumption ==
  /\ Backslash # DoubleQuote
  /\ TextReturned \notin {SignReturned, Comma}

(***************************************************************************)
(* quote, and how AppleScript reads a literal.                             *)
(***************************************************************************)
Escaped(c, text) ==
  FlattenSeq([i \in DOMAIN text |-> IF text[i] = c THEN <<Backslash, c>> ELSE <<text[i]>>])

(* Mutant: the quotes first, whose backslashes are then doubled.           *)
QuoteQuotesFirst(text) ==
  <<DoubleQuote>> \o Escaped(Backslash, Escaped(DoubleQuote, text)) \o <<DoubleQuote>>

Quote(text) ==
  <<DoubleQuote>> \o Escaped(DoubleQuote, Escaped(Backslash, text)) \o <<DoubleQuote>>

(* A literal is read up to its closing quote; anything behind that is a    *)
(* syntax error, and the window does not come up.                          *)
ReadCharacter(state, c) ==
  CASE state.at = "escaped" ->
         [text |-> Append(state.text, c),
          at |-> IF c \in {Backslash, DoubleQuote} THEN "inside" ELSE "error"]
    [] state.at = "inside" /\ c = Backslash   -> [state EXCEPT !.at = "escaped"]
    [] state.at = "inside" /\ c = DoubleQuote -> [state EXCEPT !.at = "closed"]
    [] state.at = "inside" /\ c \notin {Backslash, DoubleQuote} ->
         [state EXCEPT !.text = Append(@, c)]
    [] state.at \in {"closed", "error"} -> [state EXCEPT !.at = "error"]

ReadOut(text) ==
  LET state[n \in 0..Len(text)] ==
        IF n = 0 THEN [text |-> <<>>, at |-> "inside"]
                 ELSE ReadCharacter(state[n - 1], text[n])
  IN  state[Len(text)]

Shown(literal) ==
  LET end == ReadOut(Tail(literal))
  IN  IF end.at = "closed" THEN end.text ELSE Nothing

(***************************************************************************)
(* The answer.                                                             *)
(***************************************************************************)
(* Cancel raises an error: no answer.                                      *)
Answer(button, typed) ==
  IF button = "Sign" THEN <<SignReturned, Comma, TextReturned>> \o typed \o <<Newline>>
                     ELSE Nothing

White == {Blank, Newline}

Trimmed(text) ==
  LET kept == {i \in DOMAIN text : text[i] \notin White}
  IN  IF kept = {} THEN <<>> ELSE SubSeq(text, Min(kept), Max(kept))

After(label, answer) ==
  SubSeq(answer, Min({i \in DOMAIN answer : answer[i] = label}) + 1, Len(answer))

(* Mutant: the field ends at a comma.                                      *)
PinToComma(answer) ==
  IF answer = Nothing \/ ~({SignReturned, TextReturned} \subseteq Range(answer))
    THEN Nothing
    ELSE LET tail == After(TextReturned, answer)
             commas == {i \in DOMAIN tail : tail[i] = Comma}
         IN  Trimmed(IF commas = {} THEN tail ELSE SubSeq(tail, 1, Min(commas) - 1))

Pin(answer) ==
  IF answer = Nothing \/ ~({SignReturned, TextReturned} \subseteq Range(answer))
    THEN Nothing
    ELSE Trimmed(After(TextReturned, answer))
=============================================================================
