------------------------------ MODULE Tokenizer ------------------------------
(***************************************************************************)
(* tokenize/Tokenizer.h and Stream.h: the calls that the parsers make on   *)
(* one shared stream.  A tokenizer is a record with at least               *)
(*   content, position    the text, a sequence of characters, and the      *)
(*                        number of those already passed,                  *)
(*   threw                an exception is on its way to the caller,        *)
(*   value                what the last call returned.                     *)
(* A call takes and returns such a record; once an exception is thrown,    *)
(* all further calls are skipped.                                          *)
(*                                                                         *)
(* A character may stand for a word that the code takes as a whole, such   *)
(* as a keyword or a name: two of them side by side are one longer word.   *)
(***************************************************************************)
EXTENDS Integers, Sequences

CONSTANTS Punctuation,   \* printable characters that are no identifier characters
          Wide, Narrow   \* 2^64 and 2^32; smaller in a model

ASSUME TokenizerAssumption ==
  /\ Wide \in Nat \ {0} /\ Narrow \in Nat \ {0} /\ Narrow <= Wide
  /\ Wide % Narrow = 0 /\ Narrow % 2 = 0

WhiteSpace == {" ", "\t", "\n", "\r"}
BlankSpace == {" ", "\t"}
Separator  == WhiteSpace \cup Punctuation

DigitValue == [c \in {"0", "1", "2", "3", "4", "5", "6", "7", "8", "9"} |->
                 CASE c = "0" -> 0 [] c = "1" -> 1 [] c = "2" -> 2 [] c = "3" -> 3 [] c = "4" -> 4
                   [] c = "5" -> 5 [] c = "6" -> 6 [] c = "7" -> 7 [] c = "8" -> 8 [] c = "9" -> 9]
Digit == DOMAIN DigitValue

throw(s)     == [s EXCEPT !.threw = TRUE, !.value = FALSE]
atEnd(s)     == s.position >= Len(s.content)
seek(s, p)   == IF s.threw THEN s ELSE [s EXCEPT !.position = p]
Return(s, v) == IF s.threw THEN s ELSE [s EXCEPT !.value = v]
\* What is done next, unless an exception is on its way to the caller.
Then(s, Do(_)) == IF s.threw THEN s ELSE Do(s)

\* currentCharacter(), where check() does not throw.
Current(s) == s.content[s.position + 1]

\* The position behind the characters from p on that are in S, or that are not.
PassAll(c, p, S) ==
  IF p >= Len(c) THEN p
  ELSE CHOOSE q \in p .. Len(c) : /\ q = Len(c) \/ c[q + 1] \notin S
                                 /\ \A r \in p .. q - 1 : c[r + 1] \in S
PassUntil(c, p, S) ==
  IF p >= Len(c) THEN p
  ELSE CHOOSE q \in p .. Len(c) : /\ q = Len(c) \/ c[q + 1] \in S
                                 /\ \A r \in p .. q - 1 : c[r + 1] \notin S

skipWhiteSpace(s) == seek(s, PassAll(s.content, s.position, WhiteSpace))
skipBlankSpace(s) == seek(s, PassAll(s.content, s.position, BlankSpace))

\* Reads the character after the line, which must exist.
skipLine(s) ==
  LET end == PassUntil(s.content, s.position, {"\n"})
  IN  IF s.threw THEN s ELSE IF end = Len(s.content) THEN throw(s) ELSE seek(s, end + 1)

\* testImpl(const std::string &) after white space has been skipped, at t.
Test(s, t, expected) ==
  IF s.threw THEN s
  ELSE IF /\ t.position + Len(expected) <= Len(t.content)
          /\ \A i \in DOMAIN expected : t.content[t.position + i] = expected[i]
  THEN [t EXCEPT !.position = @ + Len(expected), !.value = TRUE]
  ELSE [s EXCEPT !.value = FALSE]

testAndSkip(s, expected) ==
  Test(s, IF expected[1] \in WhiteSpace THEN s ELSE skipWhiteSpace(s), expected)
testAndReturn(s, expected) == seek(testAndSkip(s, expected), s.position)

\* testAndSkip<char>: no white space is skipped, and there must be a character.
testAndSkipCharacter(s, c) ==
  IF s.threw \/ atEnd(s) THEN throw(s)
  ELSE IF Current(s) = c THEN [s EXCEPT !.position = @ + 1, !.value = TRUE]
  ELSE [s EXCEPT !.value = FALSE]

expect(s, expected) ==
  Then(testAndSkip(s, expected), LAMBDA t : IF t.value = TRUE THEN t ELSE throw(t))

\* Lines 236-239: if the identifier goes on, the test fails but what has matched
\* stays skipped.
testIdentifierAndSkip(s, expected) ==
  Then(testAndSkip(s, expected), LAMBDA t :
    IF t.value = FALSE THEN t
    ELSE IF atEnd(t) THEN throw(t) ELSE [t EXCEPT !.value = Current(t) \in Separator])

testIdentifierAndReturn(s, expected) == seek(testIdentifierAndSkip(s, expected), s.position)

\* Up to a separator, which must exist.
Upto(s, end) ==
  IF end = Len(s.content) THEN throw(s)
  ELSE [s EXCEPT !.position = end, !.value = SubSeq(s.content, s.position + 1, end)]
Word(s, Stop) == Then(skipWhiteSpace(s), LAMBDA t : Upto(t, PassUntil(t.content, t.position, Stop)))

getIdentifier(s) == Then(Word(s, Separator), LAMBDA t : IF t.value = <<>> THEN throw(t) ELSE t)

\* get<std::string>
getString(s) == Word(s, WhiteSpace)

\* The line without carriage returns; its newline must exist.
getLine(s) ==
  Then(s, LAMBDA t : Then(Upto(t, PassUntil(t.content, t.position, {"\n"})), LAMBDA line :
    [line EXCEPT !.position = @ + 1, !.value = SelectSeq(@, LAMBDA c : c # "\r")]))

-----------------------------------------------------------------------------
DigitsValue(ds) ==
  LET value[n \in 0 .. Len(ds)] ==
        IF n = 0 THEN 0 ELSE (value[n - 1] * 10 + DigitValue[ds[n]]) % Wide
  IN  value[Len(ds)]

getIntegerBody(s) ==
  LET end == PassAll(s.content, s.position, Digit)
  IN  IF s.threw \/ end = s.position THEN throw(s)
      ELSE [s EXCEPT !.position = end,
                     !.value = DigitsValue(SubSeq(s.content, s.position + 1, end))]

\* static_cast to a signed type of the given width.
Signed(n, width) == LET m == n % width IN IF m >= width \div 2 THEN m - width ELSE m

\* get<uint64_t>, which is also get<size_t>.
getUnsigned(s) ==
  LET t == skipWhiteSpace(s)
  IN  IF t.threw \/ atEnd(t) THEN throw(t)
      ELSE IF Current(t) = "-" THEN throw(t) ELSE getIntegerBody(t)

\* get<int32_t>: computed as get<int64_t>, then cast.
IntegerBody(s, negative) ==
  Then(getIntegerBody(s), LAMBDA t :
    Return(t, Signed(IF negative THEN Wide - t.value ELSE t.value, Narrow)))
getInt(s) ==
  Then(testAndSkipCharacter(skipWhiteSpace(s), "+"), LAMBDA plus :
    IF plus.value = TRUE THEN IntegerBody(plus, FALSE)
    ELSE Then(testAndSkipCharacter(plus, "-"), LAMBDA minus : IntegerBody(minus, minus.value)))

getBool(s) ==
  Then(testAndSkipCharacter(skipWhiteSpace(s), "0"), LAMBDA zero :
    IF zero.value = TRUE THEN Return(zero, FALSE)
    ELSE Then(testAndSkipCharacter(zero, "1"), LAMBDA one : IF one.value = TRUE THEN one ELSE throw(one)))
=============================================================================
