-------------------------- MODULE InputReadingProofs --------------------------
(***************************************************************************)
(* Before parsing, the files lie behind each other in the stream, and      *)
(* whatever happens to the stream, there is a text, that of the files, of  *)
(* which the stream's content is what detection and the removal of         *)
(* comments have left so far.                                              *)
(***************************************************************************)
EXTENDS InputReading, FiniteSetTheorems, TLAPS

-----------------------------------------------------------------------------
(***************************************************************************)
(* Where the loops of the tokenizer that pass over characters stop.        *)
(***************************************************************************)
\* A set of natural numbers has a least element.
LEMMA LeastNatural ==
  \A T \in SUBSET Nat : \A t \in T : \E m \in T : \A k \in T : m <= k
<1> SUFFICES ASSUME NEW T \in SUBSET Nat, NEW t \in T
             PROVE  \E m \in T : \A k \in T : m <= k
  OBVIOUS
<1> DEFINE R == {s \in Nat \X Nat : s[1] < s[2]}
<1>1. IsWellFoundedOn(R, Nat)
  BY NatLessThanWellFounded DEF OpToRel
<1>2. PICK m \in T : \A k \in T : <<k, m>> \notin R
  <2> HIDE DEF R
  <2> QED BY <1>1, WFMin, Zenon
<1>3. ASSUME NEW k \in T, ~(m <= k) PROVE FALSE
  <2>1. <<k, m>> \in Nat \X Nat /\ k < m
    BY <1>3
  <2> QED BY <1>2, <2>1
<1> QED BY <1>3

\* So has one below a bound a greatest.
LEMMA GreatestNatural ==
  ASSUME NEW n \in Nat, NEW T \in SUBSET (0 .. n), NEW t \in T
  PROVE  \E m \in T : \A k \in T : k <= m
<1> DEFINE U == {n - k : k \in T}
<1>1. U \in SUBSET Nat /\ n - t \in U
  OBVIOUS
<1>2. PICK u \in U : \A v \in U : u <= v
  <2> HIDE DEF U
  <2> QED BY <1>1, LeastNatural
<1>3. PICK m \in T : u = n - m
  OBVIOUS
<1>4. ASSUME NEW k \in T PROVE k <= m
  <2>1. n - k \in U
    OBVIOUS
  <2>2. n - m <= n - k
    BY <1>2, <1>3, <2>1
  <2>3. n \in Int /\ m \in Int /\ k \in Int
    OBVIOUS
  <2> QED BY <2>2, <2>3
<1> QED BY <1>4

\* Such a loop stops at the first character it looks for, or at the end.
LEMMA PassUntilStops ==
  ASSUME NEW C, NEW c \in Seq(C), NEW p \in Nat, NEW S
  PROVE  LET q == PassUntil(c, p, S)
         IN  /\ q \in Nat /\ p <= q /\ (p <= Len(c) => q <= Len(c)) /\ (p >= Len(c) => q = p)
             /\ q < Len(c) => c[q + 1] \in S
             /\ \A r \in p .. q - 1 : c[r + 1] \notin S
<1>1. CASE p >= Len(c)
  BY <1>1 DEF PassUntil
<1>2. CASE p < Len(c)
  <2> DEFINE T == {q \in p .. Len(c) : q = Len(c) \/ c[q + 1] \in S}
             Q(q) == /\ q = Len(c) \/ c[q + 1] \in S
                     /\ \A r \in p .. q - 1 : c[r + 1] \notin S
  <2>1. T \in SUBSET Nat /\ Len(c) \in T
    BY <1>2
  <2>2. PICK q \in T : \A k \in T : q <= k
    <3> HIDE DEF T
    <3> QED BY <2>1, LeastNatural
  <2>3. q \in p .. Len(c) /\ Q(q)
    <3>1. ASSUME NEW r \in p .. q - 1, c[r + 1] \in S PROVE FALSE
      <4>1. r \in T
        BY <3>1, <1>2
      <4> QED BY <2>2, <4>1
    <3> QED BY <2>2, <3>1
  <2>4. PassUntil(c, p, S) = CHOOSE x \in p .. Len(c) : Q(x)
    BY <1>2 DEF PassUntil
  <2>5. PassUntil(c, p, S) \in p .. Len(c) /\ Q(PassUntil(c, p, S))
    <3> HIDE DEF Q
    <3> QED BY <2>3, <2>4
  <2> QED BY <1>2, <2>5
<1> QED BY <1>1, <1>2

\* Such a loop stops at the first other character, or at the end.
LEMMA PassAllStops ==
  ASSUME NEW C, NEW c \in Seq(C), NEW p \in Nat, NEW S
  PROVE  LET q == PassAll(c, p, S)
         IN  /\ q \in Nat /\ p <= q /\ (p <= Len(c) => q <= Len(c)) /\ (p >= Len(c) => q = p)
             /\ q < Len(c) => c[q + 1] \notin S
             /\ \A r \in p .. q - 1 : c[r + 1] \in S
<1>1. CASE p >= Len(c)
  BY <1>1 DEF PassAll
<1>2. CASE p < Len(c)
  <2> DEFINE T == {q \in p .. Len(c) : q = Len(c) \/ c[q + 1] \notin S}
             Q(q) == /\ q = Len(c) \/ c[q + 1] \notin S
                     /\ \A r \in p .. q - 1 : c[r + 1] \in S
  <2>1. T \in SUBSET Nat /\ Len(c) \in T
    BY <1>2
  <2>2. PICK q \in T : \A k \in T : q <= k
    <3> HIDE DEF T
    <3> QED BY <2>1, LeastNatural
  <2>3. q \in p .. Len(c) /\ Q(q)
    <3>1. ASSUME NEW r \in p .. q - 1, c[r + 1] \notin S PROVE FALSE
      <4>1. r \in T
        BY <3>1, <1>2
      <4> QED BY <2>2, <4>1
    <3> QED BY <2>2, <3>1
  <2>4. PassAll(c, p, S) = CHOOSE x \in p .. Len(c) : Q(x)
    BY <1>2 DEF PassAll
  <2>5. PassAll(c, p, S) \in p .. Len(c) /\ Q(PassAll(c, p, S))
    <3> HIDE DEF Q
    <3> QED BY <2>3, <2>4
  <2> QED BY <1>2, <2>5
<1> QED BY <1>1, <1>2

-----------------------------------------------------------------------------

\* All characters; the provers do not know that these three are strings.
Character == STRING \cup {"define", "x", Space}

\* Comments up to a position are blanks, and everything is in lower case.
Cleaned(text, p) ==
  [i \in 1 .. Len(text) |-> IF i <= p /\ Commented(text, i) THEN Space ELSE transformCharacter(text[i])]

\* There is nothing but white space and whole comments up to p, and no more of it
\* directly behind.
BeforeCode(text, p) ==
  /\ p \in 0 .. Len(text) /\ (p > 0 => ~Commented(text, p))
  /\ \A i \in 1 .. p : text[i] \in WhiteSpace \/ Commented(text, i)
\* And no white space directly behind p.
Code(text, p) == BeforeCode(text, p) /\ (p < Len(text) => text[p + 1] \notin WhiteSpace)

-----------------------------------------------------------------------------
\* The characters that reading tells apart.
LEMMA Characters ==
  /\ Semicolon \notin WhiteSpace /\ Semicolon \notin {"\n", "(", "x", "define", "in-package", "DEFINE", "X"}
  /\ Space \in WhiteSpace /\ Space \notin {Semicolon, "\n", "(", "define", "in-package"}
  /\ "\n" \in WhiteSpace
  /\ \A c \in {"(", "x", "define", "in-package", "DEFINE", "X"} : c \notin WhiteSpace
<1>1. Semicolon \notin WhiteSpace
  BY Zenon DEF Semicolon, WhiteSpace
<1>2. Semicolon \notin {"\n", "(", "x", "define", "in-package", "DEFINE", "X"}
  BY Zenon DEF Semicolon
<1>3. Space \in WhiteSpace /\ "\n" \in WhiteSpace
  BY Zenon DEF Space, WhiteSpace
<1>4. Space \notin {Semicolon, "\n", "(", "define", "in-package"}
  BY Zenon DEF Space, Semicolon
<1>5. \A c \in {"(", "x", "define", "in-package", "DEFINE", "X"} : c \notin WhiteSpace
  BY Zenon DEF WhiteSpace
<1> QED BY <1>1, <1>2, <1>3, <1>4, <1>5

\* Lower case keeps what separates words and lines.
LEMMA TransformKeeps ==
  ASSUME NEW c \in Character
  PROVE  /\ transformCharacter(c) \in Character
         /\ transformCharacter(c) = Semicolon <=> c = Semicolon
         /\ transformCharacter(c) = "\n" <=> c = "\n"
         /\ transformCharacter(c) = "(" <=> c = "("
         /\ transformCharacter(c) \in WhiteSpace <=> c \in WhiteSpace
         /\ c \in {"define", "in-package"} => transformCharacter(c) = c
BY Characters DEF transformCharacter, Character

\* Cleaning changes characters, but not their number.
LEMMA CleanedType ==
  ASSUME NEW text \in Seq(Character), NEW p \in Nat
  PROVE  /\ Cleaned(text, p) \in Seq(Character) /\ Len(Cleaned(text, p)) = Len(text)
         /\ \A i \in 1 .. Len(text) :
              Cleaned(text, p)[i] =
                IF i <= p /\ Commented(text, i) THEN Space ELSE transformCharacter(text[i])
<1>1. ASSUME NEW i \in 1 .. Len(text)
      PROVE  (IF i <= p /\ Commented(text, i) THEN Space ELSE transformCharacter(text[i])) \in Character
  <2>1. text[i] \in Character
    OBVIOUS
  <2> QED BY <2>1, TransformKeeps DEF Character
<1> QED BY <1>1 DEF Cleaned

\* A comment goes on up to the newline.
LEMMA CommentGoesOn ==
  ASSUME NEW text \in Seq(Character), NEW p \in Nat, NEW q \in 1 .. Len(text), p < q,
         \A i \in p + 1 .. q : text[i] # Semicolon
  PROVE  Commented(text, q) => p > 0 /\ Commented(text, p)
BY DEF Commented

\* White space may be skipped.
LEMMA SkipWhite ==
  ASSUME NEW text \in Seq(Character), NEW p \in Nat, BeforeCode(text, p)
  PROVE  Code(text, PassAll(text, p, WhiteSpace))
<1> DEFINE q == PassAll(text, p, WhiteSpace)
<1>1. /\ q \in p .. Len(text) /\ p \in 0 .. Len(text)
      /\ q < Len(text) => text[q + 1] \notin WhiteSpace
      /\ \A r \in p .. q - 1 : text[r + 1] \in WhiteSpace
  BY PassAllStops DEF BeforeCode
<1> HIDE DEF q
<1>2. \A i \in p + 1 .. q : text[i] \in WhiteSpace
  <2> TAKE i \in p + 1 .. q
  <2>1. i - 1 \in p .. q - 1
    BY <1>1
  <2> QED BY <1>1, <2>1
<1>3. q > 0 => ~Commented(text, q)
  <2>1. CASE q = p
    BY <2>1 DEF BeforeCode
  <2>2. CASE q > p
    <3>1. \A i \in p + 1 .. q : text[i] # Semicolon
      BY <1>2, Characters
    <3> QED BY <1>1, <2>2, <3>1, CommentGoesOn DEF BeforeCode
  <2> QED BY <1>1, <2>1, <2>2
<1>4. \A i \in 1 .. q : text[i] \in WhiteSpace \/ Commented(text, i)
  <2> TAKE i \in 1 .. q
  <2> QED BY <1>1, <1>2 DEF BeforeCode
<1>5. BeforeCode(text, q)
  BY <1>1, <1>3, <1>4 DEF BeforeCode
<1> QED BY <1>1, <1>5 DEF Code, q

\* So may a comment with its newline.
LEMMA SkipWholeComment ==
  ASSUME NEW text \in Seq(Character), NEW p \in Nat, p < Len(text), BeforeCode(text, p),
         text[p + 1] = Semicolon
  PROVE  LET e == PassUntil(text, p, {"\n"})
         IN  /\ e \in p + 1 .. Len(text)
             /\ \A i \in p + 1 .. e : Commented(text, i)
             /\ e < Len(text) => BeforeCode(text, e + 1)
<1> DEFINE e == PassUntil(text, p, {"\n"})
<1>1. /\ e \in p .. Len(text)
      /\ e < Len(text) => text[e + 1] = "\n"
      /\ \A r \in p .. e - 1 : text[r + 1] # "\n"
  BY PassUntilStops
<1> HIDE DEF e
<1>2. e # p
  BY <1>1, Characters
<1>3. \A i \in p + 1 .. e : text[i] # "\n"
  <2> TAKE i \in p + 1 .. e
  <2>1. i - 1 \in p .. e - 1
    BY <1>1
  <2> QED BY <1>1, <2>1
<1>4. \A i \in p + 1 .. e : Commented(text, i)
  BY <1>1, <1>3 DEF Commented
<1>5. ASSUME e < Len(text) PROVE BeforeCode(text, e + 1)
  <2>1. ~Commented(text, e + 1)
    BY <1>1, <1>5, Characters DEF Commented
  <2>2. \A i \in 1 .. e + 1 : text[i] \in WhiteSpace \/ Commented(text, i)
    <3> TAKE i \in 1 .. e + 1
    <3>1. CASE i <= p
      BY <3>1 DEF BeforeCode
    <3>2. CASE i = e + 1
      BY <1>1, <1>5, <3>2, Characters
    <3> QED BY <1>1, <1>4, <3>1, <3>2
  <2> QED BY <1>1, <1>5, <2>1, <2>2 DEF BeforeCode
<1> QED BY <1>1, <1>2, <1>4, <1>5 DEF e
\* The code of PDDL that detection finds: a parenthesis behind the comments, and a
\* word behind it, at r.
Found(text, p, r) == p < Len(text) /\ text[p + 1] = "(" /\ r < Len(text) /\ text[r + 1] \in {"define", "in-package"}

\* The text without comments, character by character.
LEMMA VisibleAt ==
  ASSUME NEW text \in Seq(Character), NEW i \in 1 .. Len(text)
  PROVE  /\ DOMAIN Visible(text) = 1 .. Len(text)
         /\ Visible(text)[i] = IF Commented(text, i) THEN Space ELSE text[i]
BY DEF Visible

\* Whatever is open is behind what has been skipped.
LEMMA OpensBehind ==
  ASSUME NEW text \in Seq(Character), NEW p \in Nat, Code(text, p),
         NEW a \in 1 .. Len(text), NEW b \in 1 .. Len(text), Opens(Visible(text), a, b)
  PROVE  /\ p < Len(text) /\ a > p
         /\ text[p + 1] # Semicolon => a = p + 1
<1>1. p \in 0 .. Len(text) /\ a < b
  BY DEF Code, BeforeCode, Opens
<1>2. \A i \in 1 .. p : Visible(text)[i] \in WhiteSpace
  BY <1>1, VisibleAt, Characters DEF Code, BeforeCode
<1>3. Visible(text)[a] = "("
  BY DEF Opens
<1>4. a > p
  BY <1>1, <1>2, <1>3, Characters
<1>5. ASSUME text[p + 1] # Semicolon, a # p + 1 PROVE FALSE
  <2>1. p + 1 \in 1 .. b - 1 /\ p + 1 \in 1 .. Len(text)
    BY <1>1, <1>4, <1>5
  <2>2. Visible(text)[p + 1] \in WhiteSpace
    BY <2>1, <1>5 DEF Opens
  <2>3. text[p + 1] \notin WhiteSpace
    BY <2>1 DEF Code
  <2>4. Commented(text, p + 1)
    BY <2>1, <2>2, <2>3, VisibleAt
  <2>5. p > 0 /\ Commented(text, p)
    BY <2>1, <2>4, <1>5, CommentGoesOn
  <2> QED BY <2>5 DEF Code, BeforeCode
<1> QED BY <1>1, <1>4, <1>5

\* Nothing that is found is inside of a comment, so that it is visible.
LEMMA FoundOpens ==
  ASSUME NEW text \in Seq(Character), NEW p \in Nat, Code(text, p),
         Found(text, p, PassAll(text, p + 1, WhiteSpace))
  PROVE  \E a, b \in 1 .. Len(text) : Opens(Visible(text), a, b)
<1> DEFINE r == PassAll(text, p + 1, WhiteSpace)
<1>1. /\ p + 1 \in 1 .. Len(text) /\ r \in p + 1 .. Len(text) /\ text[p + 1] = "("
      /\ r < Len(text) /\ text[r + 1] \in {"define", "in-package"}
      /\ \A i \in p + 1 .. r - 1 : text[i + 1] \in WhiteSpace
  BY PassAllStops DEF Found
<1> HIDE DEF r
<1>2. \A k \in p + 2 .. r : text[k] \in WhiteSpace
  <2> TAKE k \in p + 2 .. r
  <2>1. k - 1 \in p + 1 .. r - 1
    BY <1>1
  <2> QED BY <1>1, <2>1
<1>3. \A i \in p + 1 .. r + 1 : text[i] # Semicolon
  <2> TAKE i \in p + 1 .. r + 1
  <2>1. i = p + 1 \/ i = r + 1 \/ i \in p + 2 .. r
    BY <1>1
  <2> QED BY <1>1, <1>2, <2>1, Characters
<1>4. \A i \in p + 1 .. r + 1 : ~Commented(text, i)
  <2> TAKE i \in p + 1 .. r + 1
  <2>1. i \in 1 .. Len(text) /\ p < i /\ \A j \in p + 1 .. i : text[j] # Semicolon
    BY <1>1, <1>3
  <2>2. ~(p > 0 /\ Commented(text, p))
    BY DEF Code, BeforeCode
  <2> QED BY <2>1, <2>2, CommentGoesOn
<1>5. \A k \in 1 .. r : k # p + 1 => Visible(text)[k] \in WhiteSpace
  <2> TAKE k \in 1 .. r
  <2>1. k \in 1 .. Len(text)
    BY <1>1
  <2>2. CASE k <= p
    BY <2>1, <2>2, VisibleAt, Characters DEF Code, BeforeCode
  <2>3. CASE k \in p + 2 .. r
    BY <1>2, <2>1, <2>3, VisibleAt, Characters
  <2> QED BY <1>1, <2>2, <2>3
<1>6. Visible(text)[p + 1] = "(" /\ Visible(text)[r + 1] \in {"define", "in-package"}
  BY <1>1, <1>4, VisibleAt
<1>7. Opens(Visible(text), p + 1, r + 1)
  BY <1>1, <1>5, <1>6 DEF Opens
<1>8. r + 1 \in 1 .. Len(text)
  BY <1>1
<1> QED BY <1>1, <1>7, <1>8

\* What is open without a comment in between is found.
LEMMA OpensFound ==
  ASSUME NEW text \in Seq(Character), NEW p \in Nat, Code(text, p), text[p + 1] # Semicolon,
         NEW a \in 1 .. Len(text), NEW b \in 1 .. Len(text), Opens(Visible(text), a, b),
         \A k \in a .. b : text[k] # Semicolon
  PROVE  Found(text, p, PassAll(text, p + 1, WhiteSpace))
<1> DEFINE r == PassAll(text, p + 1, WhiteSpace)
<1>1. p < Len(text) /\ a = p + 1 /\ a < b
  BY OpensBehind DEF Opens
<1>2. /\ r \in p + 1 .. Len(text)
      /\ r < Len(text) => text[r + 1] \notin WhiteSpace
      /\ \A i \in p + 1 .. r - 1 : text[i + 1] \in WhiteSpace
  BY <1>1, PassAllStops
<1> HIDE DEF r
<1>3. \A i \in a .. b : ~Commented(text, i)
  <2> TAKE i \in a .. b
  <2>1. i \in 1 .. Len(text) /\ p < i /\ \A j \in p + 1 .. i : text[j] # Semicolon
    BY <1>1
  <2>2. ~(p > 0 /\ Commented(text, p))
    BY DEF Code, BeforeCode
  <2> QED BY <2>1, <2>2, CommentGoesOn
<1>4. \A i \in a .. b : Visible(text)[i] = text[i]
  BY <1>3, VisibleAt
<1>5. text[a] = "(" /\ text[b] \in {"define", "in-package"} /\ \A k \in a + 1 .. b - 1 : text[k] \in WhiteSpace
  BY <1>1, <1>4 DEF Opens
<1>6. ~(r + 1 < b)
  <2>1. SUFFICES ASSUME r + 1 < b PROVE FALSE
    OBVIOUS
  <2>2. r + 1 \in a + 1 .. b - 1 /\ r < Len(text)
    BY <1>1, <1>2, <2>1
  <2> QED BY <1>2, <1>5, <2>2
<1>7. ~(r + 1 > b)
  <2>1. SUFFICES ASSUME r + 1 > b PROVE FALSE
    OBVIOUS
  <2>2. PICK i \in p + 1 .. r - 1 : i + 1 = b
    <3>1. b - 1 \in p + 1 .. r - 1 /\ (b - 1) + 1 = b
      BY <1>1, <1>2, <2>1
    <3> QED BY <3>1
  <2>3. text[i + 1] \in WhiteSpace
    BY <1>2
  <2> QED BY <1>5, <2>2, <2>3, Characters
<1>8. r + 1 = b /\ r < Len(text)
  BY <1>2, <1>6, <1>7
<1>9. Found(text, p, r)
  BY <1>1, <1>5, <1>8 DEF Found
<1> QED BY <1>9 DEF r

-----------------------------------------------------------------------------
\* removeRange changes the characters of the range, and nothing else.
LEMMA BlankAt ==
  ASSUME NEW c \in Seq(Character), NEW from \in Nat, NEW end \in Nat, from <= end, end <= Len(c)
  PROVE  /\ Blank(c, from, end) \in Seq(Character) /\ Len(Blank(c, from, end)) = Len(c)
         /\ \A i \in 1 .. Len(c) :
              Blank(c, from, end)[i] = IF from < i /\ i <= end THEN Space ELSE c[i]
<1> DEFINE head  == SubSeq(c, 1, from)
           blank == [i \in 1 .. end - from |-> Space]
           tail  == SubSeq(c, end + 1, Len(c))
<1>1. head \in Seq(Character) /\ Len(head) = from /\ \A i \in 1 .. from : head[i] = c[i]
  OBVIOUS
<1>2. blank \in Seq(Character) /\ Len(blank) = end - from /\ \A i \in 1 .. end - from : blank[i] = Space
  BY DEF Character
<1>3. /\ tail \in Seq(Character) /\ Len(tail) = Len(c) - end
      /\ \A i \in 1 .. Len(c) - end : tail[i] = c[i + end]
  OBVIOUS
<1>4. Blank(c, from, end) = head \o blank \o tail
  BY Zenon DEF Blank
<1> HIDE DEF head, blank, tail
<1>5. /\ head \o blank \in Seq(Character) /\ Len(head \o blank) = end
      /\ \A i \in 1 .. end : (head \o blank)[i] = IF i <= from THEN c[i] ELSE Space
  BY <1>1, <1>2
<1>6. /\ Blank(c, from, end) \in Seq(Character) /\ Len(Blank(c, from, end)) = Len(c)
      /\ \A i \in 1 .. Len(c) :
           Blank(c, from, end)[i] = IF i <= end THEN (head \o blank)[i] ELSE tail[i - end]
  BY <1>3, <1>4, <1>5
<1>7. ASSUME NEW i \in 1 .. Len(c)
      PROVE  Blank(c, from, end)[i] = IF from < i /\ i <= end THEN Space ELSE c[i]
  <2>1. CASE i <= end
    <3>1. Blank(c, from, end)[i] = (head \o blank)[i]
      BY <1>6, <2>1
    <3> QED BY <1>5, <2>1, <3>1
  <2>2. CASE i > end
    <3>1. Blank(c, from, end)[i] = tail[i - end]
      BY <1>6, <2>2
    <3>2. i - end \in 1 .. Len(c) - end /\ (i - end) + end = i
      BY <2>2
    <3> QED BY <1>3, <2>2, <3>1, <3>2
  <2> QED BY <2>1, <2>2
<1> QED BY <1>6, <1>7

\* Between comments there is nothing to clean.
LEMMA FindCleans ==
  ASSUME NEW text \in Seq(Character), NEW p \in Nat,
         p > 0 /\ p <= Len(text) => text[p] = "\n"
  PROVE  LET b == PassUntil(Cleaned(text, p), p, {Semicolon})
         IN  /\ b \in Nat
             /\ b < Len(text) => text[b + 1] = Semicolon /\ Cleaned(text, p) = Cleaned(text, b)
             /\ b >= Len(text) => Cleaned(text, p) = Cleaned(text, Len(text))
<1> DEFINE c == Cleaned(text, p)
           b == PassUntil(c, p, {Semicolon})
<1>1. c \in Seq(Character) /\ Len(c) = Len(text)
  BY CleanedType
<1>2. /\ b \in Nat /\ p <= b /\ (p <= Len(text) => b <= Len(text))
      /\ b < Len(text) => c[b + 1] = Semicolon
      /\ \A r \in p .. b - 1 : c[r + 1] # Semicolon
  <2> HIDE DEF c
  <2> QED BY <1>1, PassUntilStops
<1> HIDE DEF b
<1>3. \A i \in 1 .. Len(text) : text[i] \in Character
  OBVIOUS
<1>4. \A i \in 1 .. Len(text) : p < i => c[i] = transformCharacter(text[i])
  BY CleanedType
<1> HIDE DEF c
<1>5. \A i \in 1 .. Len(text) : p < i /\ i <= b => text[i] # Semicolon
  <2> TAKE i \in 1 .. Len(text)
  <2> HAVE p < i /\ i <= b
  <2>1. PICK r \in p .. b - 1 : r + 1 = i
    <3>1. i - 1 \in p .. b - 1 /\ (i - 1) + 1 = i
      BY <1>2
    <3> QED BY <3>1
  <2> QED BY <1>2, <1>3, <1>4, <2>1, TransformKeeps
<1>6. \A i \in 1 .. Len(text) : p < i /\ i <= b => ~Commented(text, i)
  <2> TAKE i \in 1 .. Len(text)
  <2> HAVE p < i /\ i <= b
  <2>1. \A j \in p + 1 .. i : text[j] # Semicolon
    BY <1>2, <1>5
  <2>2. Commented(text, i) => p > 0 /\ Commented(text, p)
    BY <2>1, CommentGoesOn
  <2>3. p > 0 => text[p] = "\n"
    OBVIOUS
  <2>4. p > 0 => ~Commented(text, p)
    BY <2>3, Characters DEF Commented
  <2> QED BY <2>2, <2>4
<1>7. ASSUME NEW e \in Nat, e = b \/ (e = Len(text) /\ b >= Len(text))
      PROVE  Cleaned(text, p) = Cleaned(text, e)
  <2>1. \A i \in 1 .. Len(text) : (i <= p /\ Commented(text, i)) <=> (i <= e /\ Commented(text, i))
    BY <1>2, <1>6, <1>7
  <2> QED BY <2>1 DEF Cleaned
<1>8. ASSUME b < Len(text) PROVE text[b + 1] = Semicolon
  <2>1. b + 1 \in 1 .. Len(text) /\ p < b + 1
    BY <1>2, <1>8
  <2> QED BY <1>2, <1>3, <1>4, <1>8, <2>1, TransformKeeps
<1>9. Cleaned(text, p) = Cleaned(text, b)
  BY <1>2, <1>7
<1>10. b >= Len(text) => Cleaned(text, p) = Cleaned(text, Len(text))
  <2>1. Len(text) \in Nat
    OBVIOUS
  <2> QED BY <1>7, <2>1
<1> QED BY <1>2, <1>8, <1>9, <1>10 DEF b, c

\* A comment that is removed is clean up to its newline.
LEMMA RemoveCleans ==
  ASSUME NEW text \in Seq(Character), NEW p \in Nat, p < Len(text), text[p + 1] = Semicolon
  PROVE  LET e == PassUntil(Cleaned(text, p), p + 1, {"\n"})
         IN  /\ e \in p + 1 .. Len(text)
             /\ Blank(Cleaned(text, p), p, e) = Cleaned(text, e + 1)
             /\ e + 1 <= Len(text) => text[e + 1] = "\n"
<1> DEFINE c == Cleaned(text, p)
           e == PassUntil(c, p + 1, {"\n"})
<1>1. c \in Seq(Character) /\ Len(c) = Len(text)
  BY CleanedType
<1>2. /\ e \in p + 1 .. Len(text)
      /\ e < Len(text) => c[e + 1] = "\n"
      /\ \A r \in p + 1 .. e - 1 : c[r + 1] # "\n"
  <2> HIDE DEF c
  <2> QED BY <1>1, PassUntilStops
<1> HIDE DEF e
<1>3. \A i \in 1 .. Len(text) : text[i] \in Character
  OBVIOUS
<1>4. \A i \in 1 .. Len(text) : p < i => c[i] = transformCharacter(text[i])
  BY CleanedType
<1>5. \A i \in 1 .. Len(text) : i <= p => c[i] = Cleaned(text, e + 1)[i]
  BY <1>2, CleanedType
<1>6. e + 1 <= Len(text) => text[e + 1] = "\n"
  <2> HIDE DEF c
  <2> QED BY <1>2, <1>3, <1>4, TransformKeeps
<1> HIDE DEF c
<1>7. \A i \in p + 1 .. e : text[i] # "\n"
  <2> TAKE i \in p + 1 .. e
  <2>1. CASE i = p + 1
    BY <2>1, Characters
  <2>2. CASE i > p + 1
    <3>1. PICK r \in p + 1 .. e - 1 : r + 1 = i
      <4>1. i - 1 \in p + 1 .. e - 1 /\ (i - 1) + 1 = i
        BY <1>2, <2>2
      <4> QED BY <4>1
    <3>2. i \in 1 .. Len(text) /\ p < i
      BY <1>2
    <3>3. c[i] # "\n" /\ c[i] = transformCharacter(text[i])
      BY <1>2, <1>4, <3>1, <3>2
    <3> QED BY <1>3, <3>2, <3>3, TransformKeeps
  <2> QED BY <2>1, <2>2
<1>8. \A i \in p + 1 .. e : Commented(text, i)
  BY <1>2, <1>7 DEF Commented
<1>9. e + 1 <= Len(text) => ~Commented(text, e + 1)
  BY <1>2, <1>6, Characters DEF Commented
<1>10. \A i \in 1 .. Len(text) : Blank(c, p, e)[i] = Cleaned(text, e + 1)[i]
  <2> TAKE i \in 1 .. Len(text)
  <2>1. Blank(c, p, e)[i] = IF p < i /\ i <= e THEN Space ELSE c[i]
    BY <1>1, <1>2, BlankAt
  <2>2. CASE i <= p
    BY <1>5, <2>1, <2>2
  <2>3. CASE i \in p + 1 .. e
    BY <1>2, <1>8, <2>1, <2>3, CleanedType
  <2>4. CASE i > e
    <3>1. i <= e + 1 => ~Commented(text, i)
      BY <1>2, <1>9, <2>4
    <3> QED BY <1>2, <1>4, <2>1, <2>4, <3>1, CleanedType
  <2> QED BY <1>2, <2>2, <2>3, <2>4
<1>11. Blank(c, p, e) = Cleaned(text, e + 1)
  <2>1. /\ Blank(c, p, e) \in Seq(Character) /\ Len(Blank(c, p, e)) = Len(text)
        /\ Cleaned(text, e + 1) \in Seq(Character) /\ Len(Cleaned(text, e + 1)) = Len(text)
    BY <1>1, <1>2, BlankAt, CleanedType
  <2> QED BY <1>10, <2>1
<1> QED BY <1>2, <1>6, <1>11 DEF e, c

-----------------------------------------------------------------------------
(***************************************************************************)
(* The inductive invariant.                                                *)
(***************************************************************************)
Section == [position : Nat, newlines : SUBSET Nat]

\* The types, with the characters the proofs are about, and how far each stage is.
Typed ==
  /\ input \in Inputs /\ option \in LanguageOption /\ language \in Language /\ start \in Nat
  /\ stage \in {"read", "detect", "remove", "comments", "comment", "parse", "failed"}
  /\ tokenizer \in [content : Seq(Character), position : Nat, threw : {FALSE}, value : {FALSE}]
  /\ sections \in Seq(Section)
  /\ Len(sections) <= Len(input) /\ (stage \notin {"read", "failed"} => Len(sections) = Len(input))

\* The newlines of a section are those of its file.
NewlinesFit ==
  \A i \in DOMAIN sections :
    sections[i].newlines =
      {sections[i].position + j - 1 : j \in {k \in DOMAIN input[i] : input[i][k] = "\n"}}

\* The text of the files read so far.
Original(text) ==
  /\ text \in Seq(Character) /\ Len(text) = Len(tokenizer.content)
  /\ \A i \in DOMAIN sections : \A j \in DOMAIN input[i] : text[sections[i].position + j] = input[i][j]

\* What has become of it.
Content(text) ==
  CASE stage = "comments" -> Cleaned(text, tokenizer.position)
    [] stage = "comment"  -> Cleaned(text, start)
    [] stage = "parse" /\ language = "PDDL" -> Cleaned(text, Len(text))
    [] OTHER -> text

\* Where the stream is positioned.
Positioned(text) ==
  /\ start <= Len(text)
  /\ stage = "detect" => Code(text, tokenizer.position)
  /\ stage = "comments" =>
       (tokenizer.position > 0 /\ tokenizer.position <= Len(text) => text[tokenizer.position] = "\n")
  /\ stage = "comment" =>
       start < Len(text) /\ text[start + 1] = Semicolon /\ tokenizer.position = start + 1
  /\ stage \in {"read", "parse"} => tokenizer.position = 0

\* What the language that has been detected says of the text.
Known(text) ==
  /\ stage \in {"read", "detect"} => language = "Unknown"
  /\ stage \in {"remove", "comments", "comment"} => language = "PDDL"
  /\ option = "Automatic" /\ language = "PDDL" =>
       \E a, b \in 1 .. Len(text) : Opens(Visible(text), a, b)
  /\ stage = "failed" /\ Len(sections) = Len(input) =>
       \A a, b \in 1 .. Len(text) :
         Opens(Visible(text), a, b) => \E k \in a .. b : text[k] = Semicolon

\* The text of the files, and how everything else follows from it.
Holds(text) == Original(text) /\ tokenizer.content = Content(text) /\ Positioned(text) /\ Known(text)
\* The inductive invariant: there is such a text.
IInv == Typed /\ SectionsFit /\ NewlinesFit /\ \E text \in Seq(Character) : Holds(text)

\* White space is skipped, and then a character is compared.
LEMMA SkipsWhite ==
  ASSUME NEW t \in [content : Seq(Character), position : Nat, threw : {FALSE}, value : {FALSE, TRUE}]
  PROVE  skipWhiteSpace(t) = [t EXCEPT !.position = PassAll(t.content, t.position, WhiteSpace)]
BY DEF skipWhiteSpace, seek

\* testAndSkip on one word skips white space, and the word if it is there.
LEMMA TestsOne ==
  ASSUME NEW t \in [content : Seq(Character), position : Nat, threw : {FALSE}, value : {FALSE, TRUE}],
         NEW w, w \notin WhiteSpace
  PROVE  LET r == PassAll(t.content, t.position, WhiteSpace)
             test == testAndSkip(t, <<w>>)
         IN  /\ test \in [content : Seq(Character), position : Nat, threw : {FALSE}, value : {FALSE, TRUE}]
             /\ test.value = TRUE <=> r < Len(t.content) /\ t.content[r + 1] = w
             /\ test.content = t.content
             /\ test.value = TRUE => test.position = r + 1
<1> DEFINE r == PassAll(t.content, t.position, WhiteSpace)
           u == [t EXCEPT !.position = r]
<1>1. r \in Nat
  BY PassAllStops
<1>2. testAndSkip(t, <<w>>) = Test(t, u, <<w>>)
  <2>1. <<w>>[1] \notin WhiteSpace
    OBVIOUS
  <2> QED BY <2>1, SkipsWhite DEF testAndSkip
<1> HIDE DEF r
<1>3. /\ u \in [content : Seq(Character), position : Nat, threw : {FALSE}, value : {FALSE, TRUE}]
      /\ u.position = r /\ u.content = t.content /\ u.threw = FALSE
  BY <1>1
<1>4. Test(t, u, <<w>>) = IF r < Len(t.content) /\ t.content[r + 1] = w
                         THEN [u EXCEPT !.position = r + 1, !.value = TRUE] ELSE [t EXCEPT !.value = FALSE]
  <2>1. Len(<<w>>) = 1 /\ DOMAIN <<w>> = 1 .. 1 /\ <<w>>[1] = w
    OBVIOUS
  <2>2. r + 1 <= Len(t.content) <=> r < Len(t.content)
    BY <1>1
  <2> HIDE DEF u
  <2>3. u.position + Len(<<w>>) = r + 1
    BY <1>3, <2>1
  <2>4. (\A i \in DOMAIN <<w>> : u.content[u.position + i] = <<w>>[i]) <=> t.content[r + 1] = w
    BY <1>3, <2>1
  <2> QED BY <1>3, <2>2, <2>3, <2>4 DEF Test
<1> DEFINE test == testAndSkip(t, <<w>>)
           found == r < Len(t.content) /\ t.content[r + 1] = w
<1>5. CASE found
  <2> DEFINE q == r + 1
  <2>1. test = [u EXCEPT !.position = q, !.value = TRUE] /\ q \in Nat
    BY <1>1, <1>2, <1>4, <1>5
  <2> HIDE DEF u, test, q
  <2>2. /\ test \in [content : Seq(Character), position : Nat, threw : {FALSE}, value : {FALSE, TRUE}]
        /\ test.value = TRUE /\ test.content = t.content /\ test.position = q
    BY <1>3, <2>1
  <2> QED BY <1>5, <2>2 DEF r, test, q
<1>6. CASE ~found
  <2>1. test = [t EXCEPT !.value = FALSE]
    BY <1>2, <1>4, <1>6
  <2> HIDE DEF u, test
  <2>2. /\ test \in [content : Seq(Character), position : Nat, threw : {FALSE}, value : {FALSE, TRUE}]
        /\ test.value = FALSE /\ test.content = t.content
    BY <2>1
  <2> QED BY <1>6, <2>2 DEF r, test
<1> QED BY <1>5, <1>6

\* What is read stays where it is, as long as no character is inserted or removed.
LEMMA StaysInPlace ==
  ASSUME NEW text \in Seq(Character), Original(text), SectionsFit, NewlinesFit,
         UNCHANGED <<input, sections>>, Len(tokenizer'.content) = Len(tokenizer.content)
  PROVE  SectionsFit' /\ NewlinesFit' /\ Original(text)'
<1>1. SectionsFit'
  BY DEF SectionsFit
<1>2. NewlinesFit'
  BY DEF NewlinesFit
<1>3. Original(text)'
  BY DEF Original
<1> QED BY <1>1, <1>2, <1>3

\* In the beginning, the text is empty.
LEMMA InitIInv == Init => IInv
<1> SUFFICES ASSUME Init PROVE IInv
  OBVIOUS
<1>1. Typed
  <2>1. input \in Seq(Seq(STRING))
    BY InputsAssumption DEF Init
  <2>2. Len(input) \in Nat /\ Len(sections) = 0
    BY <2>1 DEF Init
  <2>3. tokenizer \in [content : Seq(Character), position : Nat, threw : {FALSE}, value : {FALSE}]
    BY DEF Init
  <2>4. sections \in Seq(Section)
    BY DEF Init
  <2> QED BY <2>2, <2>3, <2>4 DEF Init, Typed, Language
<1>2. SectionsFit /\ NewlinesFit
  BY DEF Init, SectionsFit, NewlinesFit
<1>3. Holds(<< >>)
  <2>1. Original(<< >>)
    BY DEF Init, Original
  <2>2. tokenizer.content = Content(<< >>)
    BY DEF Init, Content
  <2>3. Positioned(<< >>)
    BY DEF Init, Positioned
  <2>4. Known(<< >>)
    BY DEF Init, Known
  <2> QED BY <2>1, <2>2, <2>3, <2>4 DEF Holds
<1>4. << >> \in Seq(Character)
  OBVIOUS
<1> QED BY <1>1, <1>2, <1>3, <1>4 DEF IInv

\* Once detection is done, the text and its sections are still what they were.
LEMMA DetectedKeeps ==
  ASSUME Typed, SectionsFit, NewlinesFit, NEW text \in Seq(Character), Holds(text),
         stage \in {"read", "detect"}, Len(sections) = Len(input),
         NEW found \in Language, Detected(found),
         found = "PDDL" /\ option = "Automatic" =>
           \E a, b \in 1 .. Len(text) : Opens(Visible(text), a, b),
         found = "Unknown" => \A a, b \in 1 .. Len(text) :
           Opens(Visible(text), a, b) => \E k \in a .. b : text[k] = Semicolon
  PROVE  IInv'
<1>1. tokenizer \in [content : Seq(Character), position : Nat, threw : {FALSE}, value : {FALSE}]
  BY DEF Typed
<1>2. /\ tokenizer' = [tokenizer EXCEPT !.position = 0]
      /\ language' = found /\ UNCHANGED <<input, option, sections, start>>
  BY <1>1 DEF Detected, seek
<1>3. /\ tokenizer' \in [content : Seq(Character), position : Nat, threw : {FALSE}, value : {FALSE}]
      /\ tokenizer'.content = tokenizer.content /\ tokenizer'.position = 0
  BY <1>1, <1>2
<1>4. \/ found = "Unknown" /\ stage' = "failed"
      \/ found = "SAS" /\ stage' = "parse"
      \/ found = "PDDL" /\ stage' = "remove"
  BY DEF Detected, Language
<1>5. tokenizer.content = text
  BY DEF Holds, Content
<1>6. Typed'
  BY <1>2, <1>3, <1>4 DEF Typed
<1>7. SectionsFit' /\ NewlinesFit' /\ Original(text)'
  BY <1>2, <1>3, StaysInPlace DEF Holds
<1>8. (tokenizer.content = Content(text))'
  BY <1>2, <1>3, <1>4, <1>5 DEF Content
<1>9. Positioned(text)'
  BY <1>2, <1>3, <1>4 DEF Holds, Positioned
<1>10. Known(text)'
  BY <1>2, <1>4 DEF Known
<1> QED BY <1>6, <1>7, <1>8, <1>9, <1>10 DEF IInv, Holds

\* A section ends before the next one, and with it before the text ends.
LEMMA SectionEnds ==
  ASSUME Typed, SectionsFit, NEW i \in DOMAIN sections,
         \A k \in 1 .. Len(input) : input[k] \in Seq(Character)
  PROVE  sections[i].position + Len(input[i]) <= Len(tokenizer.content)
<1> DEFINE n == Len(sections)
           Ends(k) == sections[k].position + Len(input[k])
           T == {k \in 1 .. n : ~(Ends(k) <= Len(tokenizer.content))}
<1>1. /\ n \in Nat /\ n <= Len(input) /\ DOMAIN sections = 1 .. n /\ Len(input) \in Nat
      /\ \A k \in 1 .. n : sections[k].position \in Nat
  <2>1. sections \in Seq(Section) /\ input \in Seq(Seq(STRING))
    BY InputsAssumption DEF Typed
  <2>2. Len(sections) <= Len(input)
    BY DEF Typed
  <2>3. \A k \in 1 .. n : sections[k] \in Section
    BY <2>1
  <2>4. \A k \in 1 .. n : sections[k].position \in Nat
    BY <2>3 DEF Section
  <2> QED BY <2>1, <2>2, <2>4
<1>2. \A k \in 1 .. n : Ends(k) \in Nat /\ Len(input[k]) \in Nat
  BY <1>1
<1>3. n > 0 => Ends(n) = Len(tokenizer.content)
  BY <1>1 DEF SectionsFit
<1>4. \A k \in 1 .. n - 1 : sections[k + 1].position = Ends(k)
  <2> TAKE k \in 1 .. n - 1
  <2>1. k + 1 \in 1 .. n /\ k + 1 # 1 /\ (k + 1) - 1 = k
    BY <1>1
  <2> QED BY <1>1, <2>1 DEF SectionsFit
<1>5. T = {}
  <2>1. SUFFICES ASSUME NEW t \in T PROVE FALSE
    OBVIOUS
  <2>2. T \in SUBSET (0 .. n)
    BY <1>1
  <2>3. PICK m \in T : \A k \in T : k <= m
    <3> HIDE DEF T
    <3> QED BY <1>1, <2>1, <2>2, GreatestNatural
  <2>4. m \in 1 .. n - 1
    BY <1>1, <1>3, <2>3
  <2>5. m + 1 \in 1 .. n /\ m + 1 \notin T
    BY <1>1, <2>3, <2>4
  <2>6. Ends(m + 1) <= Len(tokenizer.content)
    BY <2>5
  <2>7. Ends(m) <= Ends(m + 1)
    <3>1. PICK p \in Nat, l \in Nat : p = sections[m + 1].position /\ l = Len(input[m + 1])
      BY <1>1, <1>2, <2>5
    <3>2. Ends(m) = p
      BY <1>4, <2>4, <3>1
    <3>3. Ends(m + 1) = p + l
      BY <3>1
    <3> QED BY <3>2, <3>3
  <2> QED BY <1>1, <1>2, <2>3, <2>4, <2>5, <2>6, <2>7
<1> QED BY <1>1, <1>5

\* The files consist of characters.
LEMMA FilesAreTexts == Typed => \A i \in 1 .. Len(input) : input[i] \in Seq(Character)
<1> SUFFICES ASSUME Typed, NEW i \in 1 .. Len(input) PROVE input[i] \in Seq(Character)
  OBVIOUS
<1>1. input[i] \in Seq(STRING)
  BY InputsAssumption DEF Typed
<1>2. \A j \in 1 .. Len(input[i]) : input[i][j] \in Character
  BY <1>1 DEF Character
<1> HIDE DEF Character
<1> QED BY <1>1, <1>2

\* A missing file ends the command with what has been read so far.
LEMMA FileMissingKeeps == IInv /\ FileMissing => IInv'
<1> SUFFICES ASSUME IInv, FileMissing PROVE IInv'
  OBVIOUS
<1> PICK text \in Seq(Character) : Holds(text)
  BY DEF IInv
<1>1. /\ stage = "read" /\ stage' = "failed" /\ Len(sections) < Len(input)
      /\ UNCHANGED <<input, option, tokenizer, sections, language, start>>
  BY DEF FileMissing
<1>2. Len(sections) \in Nat /\ Len(input) \in Nat
  BY InputsAssumption DEF IInv, Typed
<1>3. Typed'
  BY <1>1 DEF IInv, Typed
<1>4. SectionsFit' /\ NewlinesFit' /\ Original(text)'
  BY <1>1, StaysInPlace DEF IInv, Holds
<1>5. (tokenizer.content = Content(text))' /\ Positioned(text)'
  BY <1>1 DEF Holds, Content, Positioned
<1>6. Known(text)'
  BY <1>1, <1>2 DEF Holds, Known
<1> QED BY <1>3, <1>4, <1>5, <1>6 DEF IInv, Holds

\* Parser::read appends a file to the text, and its section to the others.
LEMMA ReadKeeps == IInv /\ Read => IInv'
<1> SUFFICES ASSUME IInv, Read PROVE IInv'
  OBVIOUS
<1> PICK text \in Seq(Character) : Holds(text)
  BY DEF IInv
<1>1. /\ Typed /\ SectionsFit /\ NewlinesFit /\ Original(text) /\ tokenizer.content = text
      /\ input \in Seq(Seq(STRING)) /\ Positioned(text) /\ Known(text)
  BY InputsAssumption DEF Read, IInv, Holds, Content, Typed
<1>2. \A i \in 1 .. Len(input) : input[i] \in Seq(Character)
  BY <1>1, FilesAreTexts
<1>3. PICK n \in Nat : n = Len(sections)
  BY <1>1 DEF Typed
<1>4. n < Len(input) /\ n + 1 \in 1 .. Len(input)
  BY <1>1, <1>3 DEF Read
<1>5. PICK file \in Seq(Character) : file = input[n + 1]
  BY <1>2, <1>4
<1>6. PICK from \in Nat : from = Len(text)
  OBVIOUS
<1>7. PICK after \in Seq(Character) :
        /\ after = text \o file /\ Len(after) = from + Len(file)
        /\ \A j \in 1 .. from : after[j] = text[j]
        /\ \A j \in 1 .. Len(file) : after[from + j] = file[j]
  <2> DEFINE both == text \o file
  <2>1. both \in Seq(Character) /\ Len(both) = from + Len(file)
    BY <1>6
  <2>2. \A j \in 1 .. from : both[j] = text[j]
    BY <1>6
  <2>3. \A j \in 1 .. Len(file) : both[from + j] = file[j]
    BY <1>6
  <2> QED BY <2>1, <2>2, <2>3
<1>8. newlinesFrom(after, from) = {from + j - 1 : j \in {k \in DOMAIN file : file[k] = "\n"}}
  <2>1. ASSUME NEW p \in newlinesFrom(after, from)
        PROVE  p \in {from + j - 1 : j \in {k \in DOMAIN file : file[k] = "\n"}}
    <3>1. p \in from .. from + Len(file) - 1 /\ after[p + 1] = "\n"
      BY <1>7, <2>1 DEF newlinesFrom
    <3>2. PICK j \in 1 .. Len(file) : p + 1 = from + j
      <4>1. p + 1 - from \in 1 .. Len(file) /\ p + 1 = from + (p + 1 - from)
        BY <3>1
      <4> QED BY <4>1
    <3>3. file[j] = "\n" /\ p = from + j - 1 /\ j \in DOMAIN file
      BY <1>7, <3>1, <3>2
    <3> QED BY <3>3
  <2>2. ASSUME NEW j \in DOMAIN file, file[j] = "\n"
        PROVE  from + j - 1 \in newlinesFrom(after, from)
    <3>1. j \in 1 .. Len(file) /\ after[from + j] = "\n"
      BY <1>7, <2>2
    <3>2. from + j - 1 \in from .. Len(after) - 1 /\ (from + j - 1) + 1 = from + j
      BY <1>7, <3>1
    <3> QED BY <3>1, <3>2 DEF newlinesFrom
  <2> QED BY <2>1, <2>2
<1>9. PICK next \in Section :
        /\ next = [position |-> from, newlines |-> newlinesFrom(after, from)]
        /\ next.position = from
        /\ next.newlines = {from + j - 1 : j \in {k \in DOMAIN file : file[k] = "\n"}}
  <2>1. newlinesFrom(after, from) \in SUBSET Nat
    BY DEF newlinesFrom
  <2> DEFINE record == [position |-> from, newlines |-> newlinesFrom(after, from)]
  <2>2. record \in Section
    BY <2>1 DEF Section
  <2>3. record.position = from /\ record.newlines = newlinesFrom(after, from)
    OBVIOUS
  <2> QED BY <1>8, <2>2, <2>3
<1>10. /\ stage = "read" /\ tokenizer' = [tokenizer EXCEPT !.content = after]
       /\ sections' = Append(sections, next)
       /\ UNCHANGED <<input, option, language, stage, start>>
  BY <1>1, <1>3, <1>5, <1>6, <1>7, <1>9 DEF Read
<1>11. /\ sections' \in Seq(Section) /\ Len(sections') = n + 1
       /\ sections'[n + 1] = next /\ \A i \in 1 .. n : sections'[i] = sections[i]
       /\ DOMAIN sections' = 1 .. n + 1 /\ DOMAIN sections = 1 .. n
       /\ \A i \in 1 .. n : sections[i].position \in Nat
  <2>1. sections \in Seq(Section)
    BY <1>1 DEF Typed
  <2>2. \A i \in 1 .. n : sections[i] \in Section
    BY <1>3, <2>1
  <2>3. \A i \in 1 .. n : sections[i].position \in Nat
    BY <2>2 DEF Section
  <2>4. DOMAIN sections = 1 .. n
    BY <1>3, <2>1
  <2>5. /\ sections' \in Seq(Section) /\ Len(sections') = n + 1
        /\ sections'[n + 1] = next
    BY <1>3, <1>10, <2>1
  <2>6. \A i \in 1 .. n : sections'[i] = sections[i]
    BY <1>3, <1>10, <2>1
  <2> QED BY <2>3, <2>4, <2>5, <2>6
<1>12. /\ tokenizer' \in [content : Seq(Character), position : Nat, threw : {FALSE}, value : {FALSE}]
       /\ tokenizer'.content = after /\ tokenizer'.position = tokenizer.position
  <2>1. tokenizer \in [content : Seq(Character), position : Nat, threw : {FALSE}, value : {FALSE}]
    BY <1>1 DEF Typed
  <2> QED BY <1>10, <2>1
<1>13. Typed'
  <2>1. Len(sections') <= Len(input)
    BY <1>4, <1>11
  <2> QED BY <1>1, <1>10, <1>11, <1>12, <2>1 DEF Typed
<1>14. SectionsFit'
  <2>1. from = IF n = 0 THEN 0 ELSE sections[n].position + Len(input[n])
    BY <1>1, <1>3, <1>6 DEF SectionsFit
  <2>2. ASSUME NEW i \in 1 .. n + 1
        PROVE  sections'[i].position =
                 IF i = 1 THEN 0 ELSE sections'[i - 1].position + Len(input[i - 1])
    <3>1. CASE i = n + 1
      <4>1. sections'[i].position = from
        BY <1>9, <1>11, <3>1
      <4>2. i # 1 => i - 1 = n /\ n \in 1 .. n /\ n # 0
        BY <3>1
      <4>3. i # 1 => sections'[i - 1] = sections[n]
        BY <1>11, <4>2
      <4>4. i = 1 => n = 0
        BY <3>1
      <4> QED BY <2>1, <4>1, <4>2, <4>3, <4>4
    <3>2. CASE i \in 1 .. n
      <4>1. sections[i].position = IF i = 1 THEN 0 ELSE sections[i - 1].position + Len(input[i - 1])
        BY <1>1, <1>11, <3>2 DEF SectionsFit
      <4>2. i # 1 => i - 1 \in 1 .. n
        BY <3>2
      <4> QED BY <1>11, <3>2, <4>1, <4>2
    <3> QED BY <3>1, <3>2
  <2>3. Len(tokenizer'.content) = sections'[n + 1].position + Len(input[n + 1])
    BY <1>5, <1>7, <1>9, <1>11, <1>12
  <2>4. sections' # << >>
    BY <1>11
  <2> QED BY <1>10, <1>11, <2>2, <2>3, <2>4 DEF SectionsFit
<1>15. NewlinesFit'
  <2>1. ASSUME NEW i \in 1 .. n + 1
        PROVE  sections'[i].newlines =
                 {sections'[i].position + j - 1 : j \in {k \in DOMAIN input[i] : input[i][k] = "\n"}}
    <3>1. CASE i = n + 1
      BY <1>5, <1>9, <1>11, <3>1
    <3>2. CASE i \in 1 .. n
      <4>1. sections'[i] = sections[i]
        BY <1>11, <3>2
      <4>2. sections[i].newlines =
              {sections[i].position + j - 1 : j \in {k \in DOMAIN input[i] : input[i][k] = "\n"}}
        BY <1>1, <1>11, <3>2 DEF NewlinesFit
      <4> QED BY <4>1, <4>2
    <3> QED BY <3>1, <3>2
  <2> QED BY <1>10, <1>11, <2>1 DEF NewlinesFit
<1>16. Original(after)'
  <2>1. ASSUME NEW i \in 1 .. n + 1, NEW j \in DOMAIN input[i]
        PROVE  after[sections'[i].position + j] = input[i][j]
    <3>1. CASE i = n + 1
      <4>1. sections'[i].position = from /\ input[i] = file /\ j \in 1 .. Len(file)
        BY <1>5, <1>9, <1>11, <3>1
      <4> QED BY <1>7, <4>1
    <3>2. CASE i \in 1 .. n
      <4>1. text[sections[i].position + j] = input[i][j] /\ sections'[i] = sections[i]
        BY <1>1, <1>11, <3>2 DEF Original
      <4>2. sections[i].position + Len(input[i]) <= from
        BY <1>1, <1>2, <1>6, <1>11, <3>2, SectionEnds
      <4>3. input[i] \in Seq(Character)
        BY <1>2, <1>4, <3>2
      <4>4. Len(input[i]) \in Nat /\ j \in 1 .. Len(input[i])
        BY <4>3
      <4>5. sections[i].position + j \in 1 .. from
        <5>1. sections[i].position \in Nat
          BY <1>11, <3>2
        <5> QED BY <4>2, <4>4, <5>1
      <4> QED BY <1>7, <4>1, <4>5
    <3> QED BY <3>1, <3>2
  <2> QED BY <1>10, <1>11, <1>12, <2>1 DEF Original
<1>17. (tokenizer.content = Content(after))'
  BY <1>10, <1>12 DEF Content
<1>18. Positioned(after)' /\ Known(after)'
  <2>1. start <= Len(after)
    BY <1>1, <1>6, <1>7 DEF Positioned, Typed
  <2>2. language = "Unknown" /\ tokenizer.position = 0
    BY <1>1, <1>10 DEF Positioned, Known
  <2> QED BY <1>10, <1>12, <2>1, <2>2 DEF Positioned, Known
<1> QED BY <1>13, <1>14, <1>15, <1>16, <1>17, <1>18 DEF IInv, Holds

\* What detectLanguage decides on the first word.
LEMMA DetectKeeps == IInv /\ Detect => IInv'
<1> SUFFICES ASSUME IInv, Detect PROVE IInv'
  OBVIOUS
<1> PICK text \in Seq(Character) : Holds(text)
  BY DEF IInv
<1> DEFINE t == skipWhiteSpace(tokenizer)
<1>1. stage = "read" /\ Len(sections) = Len(input) /\ Typed /\ SectionsFit /\ NewlinesFit
  BY DEF Detect, IInv
<1>2. CASE option # "Automatic" /\ Detected(option)
  <2>1. option \in {"PDDL", "SAS"}
    BY <1>1, <1>2, InputsAssumption DEF Typed
  <2> QED BY <1>1, <1>2, <2>1, DetectedKeeps DEF Language
<1>3. CASE Detected("SAS")
  BY <1>1, <1>3, DetectedKeeps DEF Language
<1>4. CASE /\ stage' = "detect" /\ tokenizer' = t
           /\ UNCHANGED <<input, option, sections, language, start>>
  <2>1. tokenizer \in [content : Seq(Character), position : Nat, threw : {FALSE}, value : {FALSE}]
    BY <1>1 DEF Typed
  <2>2. tokenizer.content = text /\ Positioned(text) /\ Known(text)
    BY <1>1 DEF Holds, Content
  <2> DEFINE p == PassAll(text, tokenizer.position, WhiteSpace)
  <2>3. tokenizer' = [tokenizer EXCEPT !.position = p]
    BY <1>4, <2>1, <2>2, SkipsWhite
  <2>4. p \in Nat
    BY <2>1, PassAllStops
  <2>5. Code(text, p)
    <3>1. tokenizer.position = 0
      BY <1>1, <2>2 DEF Positioned
    <3>2. BeforeCode(text, 0)
      BY DEF BeforeCode
    <3> QED BY <3>1, <3>2, SkipWhite
  <2> HIDE DEF p
  <2>6. /\ tokenizer' \in [content : Seq(Character), position : Nat, threw : {FALSE}, value : {FALSE}]
        /\ tokenizer'.content = tokenizer.content /\ tokenizer'.position = p
    BY <2>1, <2>3, <2>4
  <2>7. Typed'
    BY <1>1, <1>4, <2>6 DEF Typed
  <2>8. SectionsFit' /\ NewlinesFit' /\ Original(text)'
    BY <1>1, <1>4, <2>6, StaysInPlace DEF Holds
  <2>9. (tokenizer.content = Content(text))' /\ Positioned(text)' /\ Known(text)'
    BY <1>1, <1>4, <2>2, <2>5, <2>6 DEF Content, Positioned, Known
  <2> QED BY <2>7, <2>8, <2>9 DEF IInv, Holds
<1> QED BY <1>2, <1>3, <1>4 DEF Detect

\* Detection skips comments and white space, and nothing that could be visible.
LEMMA SkipCommentKeeps == IInv /\ SkipComment => IInv'
<1> SUFFICES ASSUME IInv, SkipComment PROVE IInv'
  OBVIOUS
<1> PICK text \in Seq(Character) : Holds(text)
  BY DEF IInv
<1>1. /\ stage = "detect" /\ Typed /\ SectionsFit /\ NewlinesFit /\ Positioned(text) /\ Known(text)
      /\ tokenizer.content = text /\ Len(sections) = Len(input)
      /\ tokenizer \in [content : Seq(Character), position : Nat, threw : {FALSE}, value : {FALSE}]
  BY DEF SkipComment, IInv, Holds, Content, Typed
<1>2. PICK p \in Nat : p = tokenizer.position
  BY <1>1
<1>3. p < Len(text) /\ text[p + 1] = Semicolon /\ Code(text, p)
  BY <1>1, <1>2 DEF SkipComment, atEnd, Current, Positioned
<1>4. PICK e \in p + 1 .. Len(text) :
        /\ e = PassUntil(text, p, {"\n"})
        /\ \A i \in p + 1 .. e : Commented(text, i)
        /\ e < Len(text) => BeforeCode(text, e + 1)
  BY <1>3, SkipWholeComment DEF Code
<1>5. CASE e = Len(text)
  <2>1. skipLine(tokenizer).threw = TRUE
    BY <1>1, <1>2, <1>4, <1>5 DEF skipLine, throw
  <2>2. Detected("Unknown")
    BY <2>1 DEF SkipComment
  <2>3. \A i \in 1 .. Len(text) : Visible(text)[i] \in WhiteSpace
    <3> TAKE i \in 1 .. Len(text)
    <3>1. CASE i <= p
      BY <1>3, <3>1, VisibleAt, Characters DEF Code, BeforeCode
    <3>2. CASE i > p
      BY <1>4, <1>5, <3>2, VisibleAt, Characters
    <3> QED BY <3>1, <3>2
  <2>4. \A a, b \in 1 .. Len(text) : ~Opens(Visible(text), a, b)
    BY <2>3, Characters DEF Opens
  <2> QED BY <1>1, <2>2, <2>4, DetectedKeeps DEF Language
<1>6. CASE e < Len(text)
  <2>1. PICK line \in [content : Seq(Character), position : Nat, threw : {FALSE}, value : {FALSE, TRUE}] :
          /\ line = skipLine(tokenizer) /\ line.content = text /\ line.position = e + 1
          /\ line = [tokenizer EXCEPT !.position = e + 1]
    <3> DEFINE l == [tokenizer EXCEPT !.position = e + 1]
    <3>1. skipLine(tokenizer) = l
      <4>1. PassUntil(tokenizer.content, tokenizer.position, {"\n"}) = e
        BY <1>1, <1>2, <1>4
      <4>2. e # Len(tokenizer.content)
        BY <1>1, <1>4, <1>6
      <4>3. tokenizer.threw = FALSE
        BY <1>1
      <4> QED BY <4>1, <4>2, <4>3 DEF skipLine, seek
    <3>2. PICK q \in Nat : q = e + 1
      BY <1>4
    <3>3. l \in [content : Seq(Character), position : Nat, threw : {FALSE}, value : {FALSE, TRUE}]
      BY <1>1, <3>2
    <3>4. l.content = text /\ l.position = e + 1
      BY <1>1
    <3> QED BY <3>1, <3>3, <3>4
  <2>2. line.threw = FALSE
    BY <2>1
  <2>3. PICK r \in Nat : r = PassAll(text, e + 1, WhiteSpace)
    BY <1>4, PassAllStops
  <2>4. skipWhiteSpace(line) = [tokenizer EXCEPT !.position = r]
    <3>1. skipWhiteSpace(line) = [line EXCEPT !.position = r]
      BY <2>1, <2>3, SkipsWhite
    <3>2. [[tokenizer EXCEPT !.position = e + 1] EXCEPT !.position = r] = [tokenizer EXCEPT !.position = r]
      BY <1>1
    <3> QED BY <2>1, <3>1, <3>2
  <2>5. tokenizer' = [tokenizer EXCEPT !.position = r] /\ stage' = stage
        /\ UNCHANGED <<input, option, sections, language, start>>
    BY <2>1, <2>2, <2>4 DEF SkipComment
  <2>6. /\ tokenizer' \in [content : Seq(Character), position : Nat, threw : {FALSE}, value : {FALSE}]
        /\ tokenizer'.content = text /\ tokenizer'.position = r
    BY <1>1, <2>5
  <2>7. Code(text, r)
    <3>1. e + 1 \in Nat /\ BeforeCode(text, e + 1)
      BY <1>4, <1>6
    <3> QED BY <2>3, <3>1, SkipWhite
  <2>8. Typed'
    BY <1>1, <2>5, <2>6 DEF Typed
  <2>9. SectionsFit' /\ NewlinesFit' /\ Original(text)'
    BY <1>1, <2>5, <2>6, StaysInPlace DEF Holds
  <2>10. (tokenizer.content = Content(text))' /\ Positioned(text)' /\ Known(text)'
    BY <1>1, <2>5, <2>6, <2>7 DEF Content, Positioned, Known
  <2> QED BY <2>8, <2>9, <2>10 DEF IInv, Holds
<1> QED BY <1>4, <1>5, <1>6

\* Detection decides on the code behind the comments.
LEMMA RecognizeKeeps == IInv /\ Recognize => IInv'
<1> SUFFICES ASSUME IInv, Recognize PROVE IInv'
  OBVIOUS
<1> PICK text \in Seq(Character) : Holds(text)
  BY DEF IInv
<1>1. /\ stage = "detect" /\ Typed /\ SectionsFit /\ NewlinesFit /\ Positioned(text) /\ Known(text)
      /\ tokenizer.content = text /\ Len(sections) = Len(input)
      /\ tokenizer \in [content : Seq(Character), position : Nat, threw : {FALSE}, value : {FALSE}]
  BY DEF Recognize, IInv, Holds, Content, Typed
<1>2. PICK p \in Nat : p = tokenizer.position
  BY <1>1
<1>3. Code(text, p) /\ (p < Len(text) => text[p + 1] # Semicolon)
  BY <1>1, <1>2 DEF Recognize, atEnd, Current, Positioned
<1>4. PassAll(text, p, WhiteSpace) = p
  <2> DEFINE q == PassAll(text, p, WhiteSpace)
  <2>1. /\ q \in Nat /\ p <= q /\ q <= Len(text)
        /\ \A r \in p .. q - 1 : text[r + 1] \in WhiteSpace
    BY <1>3, PassAllStops DEF Code, BeforeCode
  <2> HIDE DEF q
  <2>2. ASSUME p < q PROVE FALSE
    <3>1. p \in p .. q - 1 /\ p < Len(text)
      BY <2>1, <2>2
    <3> QED BY <1>3, <2>1, <3>1 DEF Code
  <2> QED BY <2>1, <2>2 DEF q
<1> DEFINE open == testAndSkip(tokenizer, <<"(">>)
           r == PassAll(text, p + 1, WhiteSpace)
           Matches(word) == testAndSkip(open, <<word>>).value = TRUE
<1>5. /\ open \in [content : Seq(Character), position : Nat, threw : {FALSE}, value : {FALSE, TRUE}]
      /\ open.value = TRUE <=> p < Len(text) /\ text[p + 1] = "("
      /\ open.content = text
      /\ open.value = TRUE => open.position = p + 1
  <2>1. "(" \notin WhiteSpace
    BY Characters
  <2>2. tokenizer \in [content : Seq(Character), position : Nat, threw : {FALSE}, value : {FALSE, TRUE}]
    BY <1>1
  <2>3. PassAll(tokenizer.content, tokenizer.position, WhiteSpace) = p
    BY <1>1, <1>2, <1>4
  <2>4. /\ open \in [content : Seq(Character), position : Nat, threw : {FALSE}, value : {FALSE, TRUE}]
        /\ open.value = TRUE <=> p < Len(tokenizer.content) /\ tokenizer.content[p + 1] = "("
        /\ open.content = tokenizer.content
        /\ open.value = TRUE => open.position = p + 1
    BY <2>1, <2>2, <2>3, TestsOne, Zenon
  <2> QED BY <1>1, <2>4, Zenon
<1> HIDE DEF open
<1>6. ASSUME open.value = TRUE, NEW word \in {"define", "in-package"}
      PROVE  Matches(word) <=> r < Len(text) /\ text[r + 1] = word
  <2>1. word \notin WhiteSpace
    BY Characters
  <2>2. PassAll(open.content, open.position, WhiteSpace) = r /\ open.content = text
    BY <1>5, <1>6, Zenon
  <2>3. testAndSkip(open, <<word>>).value = TRUE <=>
          PassAll(open.content, open.position, WhiteSpace) < Len(open.content)
          /\ open.content[PassAll(open.content, open.position, WhiteSpace) + 1] = word
    <3> HIDE DEF r
    <3> QED BY <1>5, <2>1, TestsOne, Zenon
  <2> QED BY <2>2, <2>3, Zenon
<1>7. (open.value = TRUE /\ \E word \in {"define", "in-package"} : Matches(word)) <=> Found(text, p, r)
  <2> HIDE DEF Matches, r
  <2> QED BY <1>5, <1>6 DEF Found
<1> DEFINE found == IF Found(text, p, r) THEN "PDDL" ELSE "Unknown"
<1>8. Detected(found)
  BY <1>7 DEF Recognize, open
<1>9. found = "PDDL" => \E a, b \in 1 .. Len(text) : Opens(Visible(text), a, b)
  BY <1>3, FoundOpens
<1>10. ASSUME ~Found(text, p, r), NEW a \in 1 .. Len(text), NEW b \in 1 .. Len(text),
              Opens(Visible(text), a, b), \A k \in a .. b : text[k] # Semicolon
       PROVE  FALSE
  <2>1. p < Len(text)
    BY <1>3, <1>10, OpensBehind
  <2> QED BY <1>3, <1>10, <2>1, OpensFound
<1>11. found = "Unknown" => \A a, b \in 1 .. Len(text) :
         Opens(Visible(text), a, b) => \E k \in a .. b : text[k] = Semicolon
  BY <1>10
<1>12. found \in Language
  BY DEF Language
<1> HIDE DEF found
<1> QED BY <1>1, <1>8, <1>9, <1>11, <1>12, DetectedKeeps

\* PDDL is in lower case afterwards, and nothing has been cleaned yet.
LEMMA TransformStep == IInv /\ Transform => IInv'
<1> SUFFICES ASSUME IInv, Transform PROVE IInv'
  OBVIOUS
<1> PICK text \in Seq(Character) : Holds(text)
  BY DEF IInv
<1>1. /\ stage = "remove" /\ Typed /\ SectionsFit /\ NewlinesFit /\ Positioned(text) /\ Known(text)
      /\ tokenizer.content = text
      /\ tokenizer \in [content : Seq(Character), position : Nat, threw : {FALSE}, value : {FALSE}]
  BY DEF Transform, IInv, Holds, Content, Typed
<1>2. PICK lower \in Seq(Character) : lower = Cleaned(text, 0) /\ Len(lower) = Len(text)
  BY CleanedType
<1>3. tokenizer' = [tokenizer EXCEPT !.content = lower, !.position = 0]
  <2>1. lower = [i \in DOMAIN text |-> transformCharacter(text[i])]
    BY <1>2 DEF Cleaned
  <2> QED BY <1>1, <2>1 DEF Transform
<1>4. /\ tokenizer' \in [content : Seq(Character), position : Nat, threw : {FALSE}, value : {FALSE}]
      /\ tokenizer'.content = lower /\ tokenizer'.position = 0
  BY <1>1, <1>3
<1>5. stage' = "comments" /\ UNCHANGED <<input, option, sections, language, start>>
  BY DEF Transform
<1>6. Typed'
  BY <1>1, <1>4, <1>5 DEF Typed
<1>7. SectionsFit' /\ NewlinesFit' /\ Original(text)'
  BY <1>1, <1>2, <1>4, <1>5, StaysInPlace DEF Holds
<1>8. (tokenizer.content = Content(text))' /\ Positioned(text)' /\ Known(text)'
  BY <1>1, <1>2, <1>4, <1>5 DEF Content, Positioned, Known
<1> QED BY <1>6, <1>7, <1>8 DEF IInv, Holds

\* The search for a comment passes over nothing that has to be removed.
LEMMA FindCommentKeeps == IInv /\ FindComment => IInv'
<1> SUFFICES ASSUME IInv, FindComment PROVE IInv'
  OBVIOUS
<1> PICK text \in Seq(Character) : Holds(text)
  BY DEF IInv
<1>1. /\ stage = "comments" /\ Typed /\ SectionsFit /\ NewlinesFit /\ Positioned(text) /\ Known(text)
      /\ Len(text) = Len(tokenizer.content) /\ language = "PDDL" /\ Len(sections) = Len(input)
      /\ tokenizer \in [content : Seq(Character), position : Nat, threw : {FALSE}, value : {FALSE}]
  BY DEF FindComment, IInv, Holds, Original, Known, Typed
<1>2. PICK p \in Nat : p = tokenizer.position
  BY <1>1
<1>3. tokenizer.content = Cleaned(text, p)
  BY <1>1, <1>2 DEF Holds, Content
<1>4. p > 0 /\ p <= Len(text) => text[p] = "\n"
  BY <1>1, <1>2 DEF Positioned
<1>5. PICK b \in Nat :
        /\ b = PassUntil(Cleaned(text, p), p, {Semicolon})
        /\ b < Len(text) => text[b + 1] = Semicolon /\ Cleaned(text, p) = Cleaned(text, b)
        /\ b >= Len(text) => Cleaned(text, p) = Cleaned(text, Len(text))
  BY <1>4, FindCleans
<1>6. b = PassUntil(tokenizer.content, tokenizer.position, {Semicolon})
  BY <1>2, <1>3, <1>5
<1>7. UNCHANGED <<input, option, sections, language>>
  BY DEF FindComment
<1>8. CASE b >= Len(text)
  <2>1. stage' = "parse" /\ tokenizer' = [tokenizer EXCEPT !.position = 0] /\ start' = start
    BY <1>1, <1>6, <1>8 DEF FindComment
  <2>2. /\ tokenizer' \in [content : Seq(Character), position : Nat, threw : {FALSE}, value : {FALSE}]
        /\ tokenizer'.content = tokenizer.content /\ tokenizer'.position = 0
    BY <1>1, <2>1
  <2>3. Typed'
    BY <1>1, <1>7, <2>1, <2>2 DEF Typed
  <2>4. SectionsFit' /\ NewlinesFit' /\ Original(text)'
    BY <1>1, <1>7, <2>2, StaysInPlace DEF Holds
  <2>5. (tokenizer.content = Content(text))'
    BY <1>1, <1>3, <1>5, <1>7, <1>8, <2>1, <2>2 DEF Content
  <2>6. Positioned(text)' /\ Known(text)'
    BY <1>1, <1>7, <2>1, <2>2 DEF Positioned, Known
  <2> QED BY <2>3, <2>4, <2>5, <2>6 DEF IInv, Holds
<1>9. CASE b < Len(text)
  <2>1. stage' = "comment" /\ start' = b /\ tokenizer' = [tokenizer EXCEPT !.position = b + 1]
    BY <1>1, <1>6, <1>9 DEF FindComment
  <2>2. /\ tokenizer' \in [content : Seq(Character), position : Nat, threw : {FALSE}, value : {FALSE}]
        /\ tokenizer'.content = tokenizer.content /\ tokenizer'.position = b + 1
    <3>1. PICK q \in Nat : q = b + 1
      OBVIOUS
    <3> QED BY <1>1, <2>1, <3>1
  <2>3. Typed'
    BY <1>1, <1>7, <2>1, <2>2 DEF Typed
  <2>4. SectionsFit' /\ NewlinesFit' /\ Original(text)'
    BY <1>1, <1>7, <2>2, StaysInPlace DEF Holds
  <2>5. (tokenizer.content = Content(text))'
    BY <1>1, <1>3, <1>5, <1>7, <1>9, <2>1, <2>2 DEF Content
  <2>6. Positioned(text)' /\ Known(text)'
    BY <1>1, <1>5, <1>7, <1>9, <2>1, <2>2 DEF Positioned, Known
  <2> QED BY <2>3, <2>4, <2>5, <2>6 DEF IInv, Holds
<1> QED BY <1>8, <1>9

\* A comment is removed, and nothing else.
LEMMA RemoveCommentKeeps == IInv /\ RemoveComment => IInv'
<1> SUFFICES ASSUME IInv, RemoveComment PROVE IInv'
  OBVIOUS
<1> PICK text \in Seq(Character) : Holds(text)
  BY DEF IInv
<1>1. /\ stage = "comment" /\ Typed /\ SectionsFit /\ NewlinesFit /\ Positioned(text) /\ Known(text)
      /\ Len(text) = Len(tokenizer.content) /\ language = "PDDL" /\ Len(sections) = Len(input)
      /\ tokenizer \in [content : Seq(Character), position : Nat, threw : {FALSE}, value : {FALSE}]
  BY DEF RemoveComment, IInv, Holds, Original, Known, Typed
<1>2. PICK p \in Nat : p = start
  BY <1>1 DEF Typed
<1>3. /\ tokenizer.content = Cleaned(text, p) /\ tokenizer.position = p + 1
      /\ p < Len(text) /\ text[p + 1] = Semicolon
  BY <1>1, <1>2 DEF Holds, Content, Positioned
<1>4. PICK e \in p + 1 .. Len(text) :
        /\ e = PassUntil(Cleaned(text, p), p + 1, {"\n"})
        /\ Blank(Cleaned(text, p), p, e) = Cleaned(text, e + 1)
        /\ e + 1 <= Len(text) => text[e + 1] = "\n"
  BY <1>3, RemoveCleans
<1>5. PICK q \in Nat : q = e + 1
  BY <1>4
<1>6. PICK clean \in Seq(Character) : clean = Cleaned(text, q) /\ Len(clean) = Len(text)
  BY <1>5, CleanedType
<1>7. /\ tokenizer' = [tokenizer EXCEPT !.content = clean, !.position = q]
      /\ stage' = "comments" /\ UNCHANGED <<input, option, sections, language, start>>
  BY <1>2, <1>3, <1>4, <1>5, <1>6 DEF RemoveComment
<1>8. /\ tokenizer' \in [content : Seq(Character), position : Nat, threw : {FALSE}, value : {FALSE}]
      /\ tokenizer'.content = clean /\ tokenizer'.position = q
  BY <1>1, <1>7
<1>9. Typed'
  BY <1>1, <1>7, <1>8 DEF Typed
<1>10. SectionsFit' /\ NewlinesFit' /\ Original(text)'
  BY <1>1, <1>6, <1>7, <1>8, StaysInPlace DEF Holds
<1>11. (tokenizer.content = Content(text))'
  BY <1>6, <1>7, <1>8 DEF Content
<1>12. Positioned(text)' /\ Known(text)'
  BY <1>1, <1>4, <1>5, <1>7, <1>8 DEF Positioned, Known
<1> QED BY <1>9, <1>10, <1>11, <1>12 DEF IInv, Holds

\* Whatever is done to the stream, there is the text of the files behind it.
THEOREM IInvHolds == Spec => []IInv
<1>1. IInv /\ [Next]_vars => IInv'
  <2>1. ASSUME IInv, UNCHANGED vars PROVE IInv'
    <3> PICK text \in Seq(Character) : Holds(text)
      BY <2>1 DEF IInv
    <3>1. UNCHANGED <<input, option, tokenizer, sections, language, stage, start>>
      BY <2>1 DEF vars
    <3>2. Typed'
      BY <2>1, <3>1 DEF IInv, Typed
    <3>5. SectionsFit' /\ NewlinesFit'
      BY <2>1, <3>1, StaysInPlace DEF IInv, Holds
    <3>3. Original(text)' /\ Positioned(text)' /\ Known(text)'
      BY <3>1 DEF Holds, Original, Positioned, Known
    <3>4. (tokenizer.content = Content(text))'
      BY <3>1 DEF Holds, Content
    <3> QED BY <3>2, <3>3, <3>4, <3>5 DEF IInv, Holds
  <2> QED BY <2>1, ReadKeeps, FileMissingKeeps, DetectKeeps, SkipCommentKeeps, RecognizeKeeps, TransformStep,
             FindCommentKeeps, RemoveCommentKeeps DEF Next
<1> QED BY InitIInv, <1>1, PTL DEF Spec

\* Reading, detecting and removing comments keep to their types: positions stay natural
\* numbers, and the stream consists of characters (Stream and Parser.cpp).
THEOREM ReadingTypes == Spec => []TypeOK
<1>1. IInv => TypeOK
  <2> SUFFICES ASSUME IInv PROVE TypeOK
    OBVIOUS
  <2> PICK text \in Seq(Character) : Holds(text)
    BY DEF IInv
  <2>1. start \in 0 .. Len(tokenizer.content) /\ tokenizer.position \in Nat
    BY DEF IInv, Typed, Holds, Original, Positioned
  <2> QED BY <2>1 DEF IInv, Typed, TypeOK
<1> QED BY <1>1, IInvHolds, PTL

-----------------------------------------------------------------------------
(***************************************************************************)
(* What the invariant says of the parser's text.                           *)
(***************************************************************************)
\* The content at the place of a file's character, once it is parsed.
LEMMA ParsedAt ==
  ASSUME IInv, stage = "parse", NEW text \in Seq(Character), Holds(text),
         NEW i \in DOMAIN input, NEW j \in DOMAIN input[i]
  PROVE  /\ i \in DOMAIN sections /\ sections[i].position \in Nat /\ j \in Nat \ {0}
         /\ sections[i].position + j \in 1 .. Len(text)
         /\ text[sections[i].position + j] = input[i][j]
         /\ tokenizer.content[sections[i].position + j] =
              IF language = "PDDL" /\ Commented(text, sections[i].position + j) THEN Space
              ELSE IF language = "PDDL" THEN transformCharacter(input[i][j]) ELSE input[i][j]
<1>1. Typed /\ SectionsFit /\ Original(text) /\ tokenizer.content = Content(text)
  BY DEF IInv, Holds
<1>2. \A k \in 1 .. Len(input) : input[k] \in Seq(Character)
  BY <1>1, FilesAreTexts
<1>3. sections \in Seq(Section) /\ input \in Seq(Seq(STRING)) /\ Len(sections) = Len(input)
  BY <1>1, InputsAssumption DEF Typed
<1>4. i \in DOMAIN sections /\ i \in 1 .. Len(input) /\ sections[i] \in Section
  BY <1>3
<1>5. sections[i].position \in Nat
  BY <1>4 DEF Section
<1>6. Len(input[i]) \in Nat /\ j \in 1 .. Len(input[i])
  BY <1>2, <1>4
<1>7. sections[i].position + Len(input[i]) <= Len(tokenizer.content)
  BY <1>1, <1>2, <1>4, SectionEnds
<1>8. Len(text) = Len(tokenizer.content) /\ text[sections[i].position + j] = input[i][j]
  BY <1>1, <1>4 DEF Original
<1>9. PICK q \in 1 .. Len(text) : q = sections[i].position + j
  BY <1>5, <1>6, <1>7, <1>8
<1>10. CASE language = "PDDL"
  <2>1. tokenizer.content = Cleaned(text, Len(text))
    BY <1>1, <1>10 DEF Content
  <2>2. Len(text) \in Nat /\ q <= Len(text)
    OBVIOUS
  <2>3. tokenizer.content[q] = IF Commented(text, q) THEN Space ELSE transformCharacter(text[q])
    BY <2>1, <2>2, CleanedType
  <2> QED BY <1>4, <1>5, <1>6, <1>8, <1>9, <1>10, <2>3
<1>11. CASE language # "PDDL"
  <2>1. tokenizer.content = text
    BY <1>1, <1>11 DEF Content
  <2> QED BY <1>4, <1>5, <1>6, <1>8, <1>9, <1>11, <2>1
<1> QED BY <1>10, <1>11

\* If all files but the last end with a newline, a character is in a comment of
\* the text if it is in one of its file.
LEMMA CommentsStayInFiles ==
  ASSUME IInv, stage = "parse", EndsItsLines, NEW text \in Seq(Character), Holds(text),
         NEW i \in DOMAIN input, NEW j \in DOMAIN input[i]
  PROVE  Commented(text, sections[i].position + j) <=> Commented(input[i], j)
<1>1. PICK o \in Nat : o = sections[i].position
  BY ParsedAt
<1>2. /\ i \in DOMAIN sections /\ j \in Nat \ {0} /\ o + j \in 1 .. Len(text)
      /\ \A k \in DOMAIN input[i] : text[o + k] = input[i][k]
  BY <1>1, ParsedAt
<1>3. SectionsFit /\ Typed /\ Original(text)
  BY DEF IInv, Holds
<1>4. \A k \in 1 .. Len(input) : input[k] \in Seq(Character)
  BY <1>3, FilesAreTexts
<1>5. i \in 1 .. Len(input) /\ Len(input) \in Nat /\ Len(input) = Len(sections)
  BY <1>3, InputsAssumption DEF Typed
<1>6. \A k \in 1 .. j : k \in DOMAIN input[i] /\ text[o + k] = input[i][k]
  BY <1>2, <1>4, <1>5
<1>7. ASSUME Commented(input[i], j) PROVE Commented(text, o + j)
  <2>1. PICK m \in 1 .. j : input[i][m] = Semicolon /\ \A k \in m .. j : input[i][k] # "\n"
    BY <1>7 DEF Commented
  <2>2. o + m \in 1 .. o + j /\ text[o + m] = Semicolon
    BY <1>2, <1>6, <2>1
  <2>3. ASSUME NEW k \in o + m .. o + j PROVE text[k] # "\n"
    <3>1. PICK l \in m .. j : o + l = k
      <4>1. k - o \in m .. j /\ o + (k - o) = k
        BY <1>2
      <4> QED BY <4>1
    <3>2. l \in 1 .. j
      BY <1>2
    <3> QED BY <1>6, <2>1, <3>1, <3>2
  <2> QED BY <2>2, <2>3 DEF Commented
<1>8. ASSUME Commented(text, o + j) PROVE Commented(input[i], j)
  <2>1. PICK m \in 1 .. o + j : text[m] = Semicolon /\ \A k \in m .. o + j : text[k] # "\n"
    BY <1>8 DEF Commented
  <2>2. ASSUME m <= o PROVE FALSE
    <3>1. i # 1 /\ i - 1 \in DOMAIN input /\ i - 1 < Len(input) /\ i - 1 \in 1 .. Len(input)
      <4>1. i = 1 => o = 0
        BY <1>1, <1>2, <1>3 DEF SectionsFit
      <4> QED BY <1>5, <2>2, <4>1
    <3>2. input[i - 1] # << >> /\ input[i - 1][Len(input[i - 1])] = "\n"
      BY <3>1 DEF EndsItsLines
    <3>3. PICK n \in DOMAIN input[i - 1] : n = Len(input[i - 1])
      BY <1>4, <3>1, <3>2
    <3>4. o = sections[i - 1].position + n
      BY <1>1, <1>2, <1>3, <3>1, <3>3 DEF SectionsFit
    <3>5. text[o] = "\n"
      BY <3>1, <3>2, <3>3, <3>4, ParsedAt
    <3> QED BY <1>2, <2>1, <2>2, <3>5
  <2>3. PICK l \in 1 .. j : o + l = m
    <3>1. m - o \in 1 .. j /\ o + (m - o) = m
      BY <1>2, <2>2
    <3> QED BY <3>1
  <2>4. input[i][l] = Semicolon
    BY <1>6, <2>1, <2>3
  <2>5. ASSUME NEW k \in l .. j PROVE input[i][k] # "\n"
    <3>1. k \in 1 .. j /\ o + k \in m .. o + j
      BY <1>2, <2>3
    <3> QED BY <1>6, <2>1, <3>1
  <2> QED BY <2>4, <2>5 DEF Commented
<1> QED BY <1>1, <1>7, <1>8

\* For all files that end their lines, what the parser gets to see is each file in
\* lower case with a blank for each character of a comment, at the character's own place:
\* removeComments removes what is a comment, and nothing else, also where a comment
\* borders on another one or on the next file.
THEOREM CommentsAreRemoved == Spec => []CommentsRemoved
<1>1. IInv => CommentsRemoved
  <2> SUFFICES ASSUME IInv, stage = "parse", language = "PDDL", EndsItsLines,
                      NEW i \in DOMAIN input, NEW j \in DOMAIN input[i]
               PROVE  tokenizer.content[sections[i].position + j] =
                        IF Commented(input[i], j) THEN Space ELSE transformCharacter(input[i][j])
    BY DEF CommentsRemoved
  <2> PICK text \in Seq(Character) : Holds(text)
    BY DEF IInv
  <2> QED BY ParsedAt, CommentsStayInFiles
<1> QED BY <1>1, IInvHolds, PTL

\* For all files: if detectLanguage decided on PDDL, then what the parser gets to see
\* once comments are removed begins with a parenthesis and one of the words detection
\* looks for, so that it skipped the comments that are removed later and no others; and
\* parsing starts at the beginning of the stream, wherever detection stopped.
THEOREM DetectionAgrees == Spec => []DetectionAgreesWithParser
<1>1. IInv => DetectionAgreesWithParser
  <2> SUFFICES ASSUME IInv PROVE DetectionAgreesWithParser
    OBVIOUS
  <2> PICK text \in Seq(Character) : Holds(text)
    BY DEF IInv
  <2>1. stage = "parse" => tokenizer.position = 0
    BY DEF Holds, Positioned
  <2>2. ASSUME stage = "parse", option = "Automatic", language = "PDDL"
        PROVE  \E a, b \in DOMAIN tokenizer.content : Opens(tokenizer.content, a, b)
    <3>1. PICK a \in 1 .. Len(text), b \in 1 .. Len(text) : Opens(Visible(text), a, b)
      BY <2>2 DEF Holds, Known
    <3>2. PICK clean \in Seq(Character) :
            /\ clean = tokenizer.content /\ Len(clean) = Len(text)
            /\ \A k \in 1 .. Len(text) :
                 clean[k] = IF Commented(text, k) THEN Space ELSE transformCharacter(text[k])
      <4>1. tokenizer.content = Cleaned(text, Len(text))
        BY <2>2 DEF Holds, Content
      <4>2. Len(text) \in Nat
        OBVIOUS
      <4>3. \A k \in 1 .. Len(text) : k <= Len(text)
        OBVIOUS
      <4> QED BY <4>1, <4>2, <4>3, CleanedType
    <3>3. \A k \in 1 .. Len(text) :
            /\ Visible(text)[k] \in WhiteSpace => clean[k] \in WhiteSpace
            /\ Visible(text)[k] = "(" => clean[k] = "("
            /\ Visible(text)[k] \in {"define", "in-package"} => clean[k] = Visible(text)[k]
      <4> TAKE k \in 1 .. Len(text)
      <4>1. text[k] \in Character
        OBVIOUS
      <4>2. CASE Commented(text, k)
        BY <3>2, <4>2, VisibleAt, Characters
      <4>3. CASE ~Commented(text, k)
        <5>1. Visible(text)[k] = text[k] /\ clean[k] = transformCharacter(text[k])
          BY <3>2, <4>3, VisibleAt
        <5> QED BY <4>1, <5>1, TransformKeeps
      <4> QED BY <4>2, <4>3
    <3>4. \A k \in 1 .. b - 1 : k \in 1 .. Len(text)
      OBVIOUS
    <3>5. Opens(clean, a, b)
      BY <3>1, <3>3, <3>4 DEF Opens
    <3>6. DOMAIN clean = 1 .. Len(text)
      BY <3>2
    <3> QED BY <3>2, <3>5, <3>6
  <2> QED BY <2>1, <2>2 DEF DetectionAgreesWithParser
<1> QED BY <1>1, IInvHolds, PTL

\* For all files: if they can be read and detectLanguage throws, then the first file does not open PDDL, or
\* only with a comment between the parenthesis and the word; the comments in front of
\* it, however many, never hide it.
THEOREM PDDLRecognized == Spec => []PDDLIsRecognized
<1>1. IInv => PDDLIsRecognized
  <2> SUFFICES ASSUME IInv, stage = "failed", input # << >>, Len(sections) = Len(input),
                      NEW a \in DOMAIN input[1], NEW b \in DOMAIN input[1],
                      Opens(Visible(input[1]), a, b)
               PROVE  \E k \in a .. b : input[1][k] = Semicolon
    BY DEF PDDLIsRecognized
  <2> PICK text \in Seq(Character) : Holds(text)
    BY DEF IInv
  <2>1. Typed /\ SectionsFit /\ Original(text) /\ Known(text)
    BY DEF IInv, Holds
  <2>2. Len(sections) = Len(input) /\ 1 \in 1 .. Len(input) /\ 1 \in DOMAIN sections
    BY <2>1, InputsAssumption DEF Typed
  <2>3. PICK file \in Seq(Character) : file = input[1]
    BY <2>1, <2>2, FilesAreTexts
  <2>4. sections[1].position = 0
    BY <2>1, <2>2 DEF SectionsFit
  <2>5. Len(file) <= Len(text)
    BY <2>1, <2>2, <2>3, <2>4, FilesAreTexts, SectionEnds DEF Original
  <2>6. \A k \in 1 .. Len(file) : text[k] = file[k]
    BY <2>1, <2>2, <2>3, <2>4 DEF Original
  <2>7. \A k \in 1 .. Len(file) : Commented(text, k) <=> Commented(file, k)
    BY <2>5, <2>6 DEF Commented
  <2>8. \A k \in 1 .. Len(file) : Visible(text)[k] = Visible(file)[k]
    BY <2>5, <2>6, <2>7, VisibleAt
  <2>9. a \in 1 .. Len(file) /\ b \in 1 .. Len(file)
    BY <2>3
  <2>10. Opens(Visible(text), a, b)
    BY <2>3, <2>8, <2>9 DEF Opens
  <2>11. \A c, d \in 1 .. Len(text) :
           Opens(Visible(text), c, d) => \E k \in c .. d : text[k] = Semicolon
    BY <2>1, <2>2 DEF Known
  <2>12. PICK k \in a .. b : text[k] = Semicolon
    BY <2>5, <2>9, <2>10, <2>11
  <2> QED BY <2>3, <2>6, <2>9, <2>12
<1> QED BY <1>1, IInvHolds, PTL

\* The lines before a position in a file: as many as there are newlines, and the
\* beginning of the file.
LEMMA LinesOf ==
  ASSUME NEW file \in Seq(Character), NEW q \in 1 .. Len(file)
  PROVE  \E l \in Lines(file), i \in 0 .. q - 1 :
           /\ i = 0 \/ file[i] = "\n"
           /\ \A k \in i + 1 .. q - 1 : file[k] # "\n"
           /\ l.row = Cardinality({k \in 1 .. q - 1 : file[k] = "\n"}) + 1
           /\ q - i \in DOMAIN l.text /\ l.text[q - i] = file[q]
<1> DEFINE ends == {0} \cup {i \in DOMAIN file : file[i] = "\n"} \cup {Len(file)}
           next(i) == CHOOSE j \in ends : j > i /\ \A k \in ends : k > i => j <= k
           before == {k \in ends : k < q}
           newlines == {k \in 1 .. q - 1 : file[k] = "\n"}
<1>1. ends \in SUBSET (0 .. Len(file)) /\ Len(file) \in Nat
  OBVIOUS
<1>2. PICK i \in before : \A k \in before : k <= i
  <2>1. before \in SUBSET (0 .. Len(file)) /\ 0 \in before
    BY <1>1
  <2> HIDE DEF before
  <2> QED BY <1>1, <2>1, GreatestNatural
<1>3. i \in 0 .. q - 1 /\ i \in ends /\ i < Len(file)
  BY <1>1, <1>2
<1>4. (i = 0 \/ file[i] = "\n") /\ \A k \in i + 1 .. q - 1 : file[k] # "\n"
  <2>1. i = 0 \/ file[i] = "\n"
    BY <1>3
  <2>2. ASSUME NEW k \in i + 1 .. q - 1, file[k] = "\n" PROVE FALSE
    <3>1. k \in before
      BY <1>3, <2>2
    <3> QED BY <1>2, <1>3, <3>1
  <2> QED BY <2>1, <2>2
<1>5. PICK j \in ends : j = next(i) /\ j > i /\ \A k \in ends : k > i => j <= k
  <2> DEFINE after == {k \in ends : k > i}
  <2>1. after \in SUBSET Nat /\ Len(file) \in after
    BY <1>1, <1>3
  <2>2. PICK m \in after : \A k \in after : m <= k
    <3> HIDE DEF after
    <3> QED BY <2>1, LeastNatural
  <2>3. m \in ends /\ m > i /\ \A k \in ends : k > i => m <= k
    BY <2>2
  <2> HIDE DEF ends, after
  <2> QED BY <2>3
<1>6. j >= q /\ j <= Len(file)
  BY <1>1, <1>2, <1>5
<1>7. SubSeq(file, i + 1, j) \in Seq(Character) /\ Len(SubSeq(file, i + 1, j)) = j - i
  BY <1>3, <1>5, <1>6
<1>8. q - i \in DOMAIN SubSeq(file, i + 1, j) /\ SubSeq(file, i + 1, j)[q - i] = file[q]
  BY <1>3, <1>5, <1>6, <1>7
<1>9. Cardinality({k \in ends : k <= i}) = Cardinality(newlines) + 1
  <2>1. {k \in ends : k <= i} = newlines \cup {0}
    BY <1>2, <1>3
  <2>2. IsFiniteSet(newlines) /\ 0 \notin newlines
    <3>1. IsFiniteSet(1 .. q - 1)
      BY FS_Interval
    <3> QED BY <3>1, FS_Subset
  <2> HIDE DEF newlines, ends
  <2> QED BY <2>1, <2>2, FS_AddElement
<1> DEFINE line == [row |-> Cardinality({k \in ends : k <= i}), text |-> SubSeq(file, i + 1, next(i))]
<1>10. line \in Lines(file)
  <2>1. i \in {k \in ends : k < Len(file)}
    BY <1>3
  <2> QED BY <2>1, Zenon DEF Lines
<1>11. line.row = Cardinality(newlines) + 1 /\ line.text = SubSeq(file, i + 1, j)
  BY <1>5, <1>9
<1> HIDE DEF line
<1> QED BY <1>3, <1>4, <1>8, <1>10, <1>11

\* The section that a position lies in is that of the file which it comes from.
LEMMA SectionOf ==
  ASSUME IInv, stage = "parse", NEW p \in 0 .. Len(tokenizer.content) - 1
  PROVE  LET i == location(p).section
         IN  /\ i \in DOMAIN input /\ sections[i].position \in Nat
             /\ p - sections[i].position + 1 \in DOMAIN input[i]
<1> DEFINE Covers(i) == /\ sections[i].position <= p
                       /\ \A j \in DOMAIN sections : j > i => sections[j].position > p
           T == {i \in DOMAIN sections : sections[i].position <= p}
<1>1. Typed /\ SectionsFit
  BY DEF IInv
<1>2. PICK n \in Nat : n = Len(sections)
  BY <1>1 DEF Typed
<1>3. /\ DOMAIN sections = 1 .. n /\ n = Len(input) /\ DOMAIN input = 1 .. n
      /\ sections \in Seq(Section)
  BY <1>1, <1>2, InputsAssumption DEF Typed
<1>4. \A i \in 1 .. n : sections[i].position \in Nat
  <2>1. \A i \in 1 .. n : sections[i] \in Section
    BY <1>2, <1>3
  <2> QED BY <2>1 DEF Section
<1>5. \A i \in 1 .. n : input[i] \in Seq(Character)
  BY <1>1, <1>3, FilesAreTexts
<1>6. PICK c \in Nat : c = Len(tokenizer.content)
  BY <1>1 DEF Typed
<1>7. n > 0 /\ sections[1].position = 0
  <2>1. n > 0
    BY <1>1, <1>2, <1>6 DEF SectionsFit
  <2>2. 1 \in DOMAIN sections
    BY <1>3, <2>1
  <2> QED BY <1>1, <2>1, <2>2 DEF SectionsFit
<1>8. \E i \in DOMAIN sections : Covers(i)
  <2>1. T \in SUBSET (0 .. n) /\ 1 \in T
    BY <1>3, <1>6, <1>7
  <2>2. PICK m \in T : \A k \in T : k <= m
    <3> HIDE DEF T
    <3> QED BY <2>1, GreatestNatural
  <2>3. ASSUME NEW j \in DOMAIN sections, j > m PROVE sections[j].position > p
    <3>1. j \notin T
      BY <1>3, <2>2, <2>3
    <3> QED BY <1>3, <1>4, <1>6, <2>3, <3>1
  <2> QED BY <2>2, <2>3
<1>9. PICK i \in DOMAIN sections : i = location(p).section /\ Covers(i)
  <2> DEFINE sec == CHOOSE i \in DOMAIN sections : Covers(i)
  <2>1. location(p).section = sec
    BY DEF location
  <2>2. sec \in DOMAIN sections /\ Covers(sec)
    <3> HIDE DEF Covers
    <3> QED BY <1>8
  <2> QED BY <2>1, <2>2
<1>10. p < sections[i].position + Len(input[i])
  <2>1. CASE i = n
    BY <1>1, <1>2, <1>3, <1>6, <1>7, <2>1 DEF SectionsFit
  <2>2. CASE i # n
    <3>1. i + 1 \in 1 .. n /\ i + 1 # 1 /\ (i + 1) - 1 = i /\ i + 1 > i
      BY <1>3, <2>2
    <3>2. sections[i + 1].position = sections[i].position + Len(input[i])
      BY <1>1, <1>3, <3>1 DEF SectionsFit
    <3> QED BY <1>3, <1>9, <3>1, <3>2
  <2> QED BY <2>1, <2>2
<1>11. sections[i].position \in Nat /\ sections[i].position <= p /\ input[i] \in Seq(Character)
  BY <1>3, <1>4, <1>5, <1>9
<1>12. p - sections[i].position + 1 \in 1 .. Len(input[i])
  <2>1. Len(input[i]) \in Nat /\ p \in Nat
    BY <1>6, <1>11
  <2> QED BY <1>10, <1>11, <2>1
<1> QED BY <1>3, <1>9, <1>11, <1>12

\* For all files: the location that an error reports for a position of the stream which
\* the parser stops at is the file, line and column where this character was written:
\* detection and the removal of comments move nothing, each position belongs to the
\* section of its file, and newlines are counted from there (Stream::location).
THEOREM LocationsPoint == Spec => []LocationsPointIntoFiles
<1>1. IInv => LocationsPointIntoFiles
  <2> SUFFICES ASSUME IInv, stage = "parse", NEW p \in 0 .. Len(tokenizer.content) - 1,
                      tokenizer.content[p + 1] \notin WhiteSpace
               PROVE  \E l \in Lines(input[location(p).section]) :
                        /\ l.row = location(p).row /\ location(p).column \in DOMAIN l.text
                        /\ tokenizer.content[p + 1] \in {l.text[location(p).column],
                                                         transformCharacter(l.text[location(p).column])}
    BY DEF LocationsPointIntoFiles
  <2> PICK text \in Seq(Character) : Holds(text)
    BY DEF IInv
  <2>1. PICK s \in DOMAIN input : s = location(p).section
    BY SectionOf
  <2>2. PICK o \in Nat : o = sections[s].position
    BY <2>1, SectionOf
  <2>3. PICK file \in Seq(Character) : file = input[s]
    <3>1. Typed
      BY DEF IInv
    <3>2. s \in 1 .. Len(input)
      BY <3>1, InputsAssumption DEF Typed
    <3> QED BY <3>1, <3>2, FilesAreTexts
  <2>4. PICK q \in 1 .. Len(file) : q = p - o + 1
    BY <2>1, <2>2, <2>3, SectionOf
  <2>5. q \in DOMAIN input[s] /\ o + q = p + 1 /\ p \in Nat /\ q \in Nat
    <3>1. tokenizer.content \in Seq(Character)
      BY DEF IInv, Typed
    <3>2. Len(tokenizer.content) \in Nat
      BY <3>1
    <3>3. p \in Nat
      BY <3>2
    <3> QED BY <2>2, <2>3, <2>4, <3>3
  <2>6. tokenizer.content[p + 1] \in {file[q], transformCharacter(file[q])}
    <3>1. tokenizer.content[sections[s].position + q] =
            IF language = "PDDL" /\ Commented(text, sections[s].position + q) THEN Space
            ELSE IF language = "PDDL" THEN transformCharacter(input[s][q]) ELSE input[s][q]
      BY <2>5, ParsedAt
    <3> QED BY <2>2, <2>3, <2>5, <3>1, Characters
  <2>7. PICK l \in Lines(file), i \in 0 .. q - 1 :
          /\ i = 0 \/ file[i] = "\n"
          /\ \A k \in i + 1 .. q - 1 : file[k] # "\n"
          /\ l.row = Cardinality({k \in 1 .. q - 1 : file[k] = "\n"}) + 1
          /\ q - i \in DOMAIN l.text /\ l.text[q - i] = file[q]
    BY LinesOf
  <2> DEFINE N == {k \in 1 .. q - 1 : file[k] = "\n"}
             before == {n \in sections[s].newlines : n < p}
  <2>8. before = {o + k - 1 : k \in N}
    <3>1. sections[s].newlines = {o + j - 1 : j \in {k \in DOMAIN file : file[k] = "\n"}}
      <4>1. s \in DOMAIN sections
        BY <2>5, ParsedAt
      <4> QED BY <2>2, <2>3, <4>1 DEF IInv, NewlinesFit
    <3>2. \A k \in DOMAIN file : k \in 1 .. Len(file) /\ (o + k - 1 < p <=> k \in 1 .. q - 1)
      BY <2>5
    <3>3. \A k \in 1 .. q - 1 : k \in DOMAIN file
      BY <2>4
    <3> QED BY <3>1, <3>2, <3>3
  <2>9. /\ N \in SUBSET (Nat \ {0}) /\ IsFiniteSet(N) /\ i \in Nat
        /\ i = 0 => N = {}
        /\ i > 0 => i \in N
        /\ \A k \in N : k <= i
    <3>1. IsFiniteSet(1 .. q - 1)
      BY FS_Interval
    <3>2. IsFiniteSet(N)
      BY <3>1, FS_Subset
    <3>3. \A k \in N : k <= i
      BY <2>7
    <3> QED BY <2>7, <3>2, <3>3
  <2>10. /\ Cardinality(before) = Cardinality(N)
         /\ before = {} <=> i = 0
         /\ i > 0 => Max(before) = o + i - 1
    <3>1. PICK M : M = N
      OBVIOUS
    <3>2. PICK B : B = before
      OBVIOUS
    <3>3. /\ M \in SUBSET (Nat \ {0}) /\ IsFiniteSet(M) /\ o \in Nat /\ i \in Nat
          /\ i = 0 => M = {}
          /\ i > 0 => i \in M
          /\ \A k \in M : k <= i
      <4> HIDE DEF N
      <4> QED BY <2>2, <2>9, <3>1
    <3>4. \A y : y \in B <=> \E k \in M : y = o + k - 1
      <4> HIDE DEF N, before
      <4> QED BY <2>8, <3>1, <3>2
    <3> HIDE DEF N, before
    <3>5. /\ Cardinality(B) = Cardinality(M)
          /\ B = {} <=> i = 0
          /\ i > 0 => Max(B) = o + i - 1
      <4> USE <3>3, <3>4
      <4> DEFINE f == [k \in M |-> o + k - 1]
      <4>1. f \in Bijection(M, B)
        <5>1. f \in [M -> B] /\ \A y \in B : \E k \in M : f[k] = y
          OBVIOUS
        <5>2. ASSUME NEW j \in M, NEW k \in M, f[j] = f[k] PROVE j = k
          BY <5>2
        <5> QED BY <5>1, <5>2 DEF Bijection, Injection, Surjection, IsInjective
      <4>2. Cardinality(B) = Cardinality(M)
        <5>1. ExistsBijection(M, B)
          BY <4>1 DEF ExistsBijection
        <5> QED BY <5>1, <3>3, FS_Bijection
      <4>3. B = {} <=> i = 0
        <5>1. i > 0 => o + i - 1 \in B
          OBVIOUS
        <5>2. i = 0 => B = {}
          OBVIOUS
        <5>3. i = 0 \/ i > 0
          OBVIOUS
        <5> QED BY <5>1, <5>2, <5>3
      <4>4. ASSUME i > 0 PROVE Max(B) = o + i - 1
        <5>1. o + i - 1 \in B /\ B \in SUBSET Int
          BY <4>4
        <5>2. \A y \in B : o + i - 1 >= y
          OBVIOUS
        <5>3. \A x \in B : (\A y \in B : x >= y) => x = o + i - 1
          <6> QED BY <5>1, <5>2
        <5> QED BY <5>1, <5>2, <5>3 DEF Max
      <4> QED BY <4>2, <4>3, <4>4
    <3> QED BY <3>1, <3>2, <3>5
  <2>11. /\ location(p).row = Cardinality(before) + 1
         /\ location(p).column = IF before = {} THEN p - o + 1 ELSE p - Max(before)
    <3> DEFINE sec == CHOOSE j \in DOMAIN sections :
                        /\ sections[j].position <= p
                        /\ \A k \in DOMAIN sections : k > j => sections[k].position > p
    <3>1. sec = s
      BY <2>1 DEF location
    <3>2. location(p) = [section |-> sec, row |-> Cardinality({n \in sections[sec].newlines : n < p}) + 1,
                         column |-> IF {n \in sections[sec].newlines : n < p} = {}
                                    THEN p - sections[sec].position + 1
                                    ELSE p - Max({n \in sections[sec].newlines : n < p})]
      BY Zenon DEF location
    <3> HIDE DEF sec
    <3>3. location(p) = [section |-> s, row |-> Cardinality(before) + 1,
                         column |-> IF before = {} THEN p - o + 1 ELSE p - Max(before)]
      BY <2>2, <3>1, <3>2, Zenon
    <3> HIDE DEF before
    <3> QED BY <3>3
  <2>12. location(p).column = q - i
    <3> HIDE DEF before
    <3> QED BY <2>4, <2>5, <2>9, <2>10, <2>11
  <2>13. location(p).row = l.row
    <3> HIDE DEF before
    <3> QED BY <2>7, <2>10, <2>11
  <2> QED BY <2>1, <2>3, <2>6, <2>7, <2>12, <2>13
<1> QED BY <1>1, IInvHolds, PTL
=============================================================================
