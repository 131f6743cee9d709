---------------------------- MODULE InputReading ----------------------------
(***************************************************************************)
(* What the commands do before they parse (CommandTranslate.cpp, 67-127):  *)
(* the files are read one after the other into one stream, the language is *)
(* detected on the text as it is, and the PDDL parser blanks out comments  *)
(* in place, so that positions in the stream stay what they were.          *)
(***************************************************************************)
EXTENDS Tokenizer, SequencesExt

CONSTANTS Inputs,          \* lists of files, a file being what is read from it, a
                           \* sequence of characters
          LanguageOption   \* values of the option --language: Language, "Automatic"

Language == {"PDDL", "SAS", "Unknown"}

\* OptionGroups.cpp, lines 104-107: an unknown language is refused beforehand.
ASSUME InputsAssumption ==
  Inputs \subseteq Seq(Seq(STRING)) /\ LanguageOption \subseteq {"Automatic", "PDDL", "SAS"}

\* What begins a comment, and what a comment is replaced by.
Semicolon == ";"
Space     == " "

\* transformCharacter of CaseInsensitiveTokenizerPolicy, std::tolower.
transformCharacter(c) == CASE c = "DEFINE" -> "define" [] c = "X" -> "x" [] OTHER -> c

VARIABLES input,       \* the files given on the command line, and
          option,      \* the language
          tokenizer,   \* the stream
          sections,    \* where each file read so far begins, and its newlines
          language,    \* the language it is parsed in
          stage,       \* how far the command is
          start        \* where the comment being removed begins
vars == <<input, option, tokenizer, sections, language, stage, start>>

Init ==
  /\ input \in Inputs /\ option \in LanguageOption
  /\ tokenizer = [content |-> <<>>, position |-> 0, threw |-> FALSE, value |-> FALSE]
  /\ sections = <<>> /\ language = "Unknown" /\ stage = "read" /\ start = 0

\* Faulty variant of newlinesFrom: newlines are counted from the file's beginning.
newlinesFromFile(content, from) == {p \in 0 .. Len(content) - from - 1 : content[from + p + 1] = "\n"}

\* Stream::read, lines 77-79; the vector is ascending, and stands here as a set.
newlinesFrom(content, from) == {p \in from .. Len(content) - 1 : content[p + 1] = "\n"}

\* Stream::read, lines 84-85: the next path is no regular file (any more), and
\* reading throws before anything of it is in the stream.
FileMissing ==
  /\ stage = "read" /\ Len(sections) < Len(input) /\ stage' = "failed"
  /\ UNCHANGED <<input, option, tokenizer, sections, language, start>>

\* Stream::read: the next file goes behind what has been read.
Read ==
  LET from    == Len(tokenizer.content)
      content == tokenizer.content \o input[Len(sections) + 1]
  IN  /\ stage = "read" /\ Len(sections) < Len(input)
      /\ tokenizer' = [tokenizer EXCEPT !.content = content]
      /\ sections' = Append(sections, [position |-> from, newlines |-> newlinesFrom(content, from)])
      /\ UNCHANGED <<input, option, language, stage, start>>

\* Detection ends with the language found, or with an exception: the parser gets
\* the stream set back to its beginning.
Detected(found) ==
  /\ language' = found /\ tokenizer' = seek(tokenizer, 0)
  /\ stage' = CASE found = "Unknown" -> "failed" [] found = "SAS" -> "parse" [] found = "PDDL" -> "remove"
  /\ UNCHANGED <<input, option, sections, start>>

\* CommandTranslate.cpp, lines 83-95, and the first lines of detectLanguage.
Detect ==
  LET text == skipWhiteSpace(tokenizer)
  IN  /\ stage = "read" /\ Len(sections) = Len(input)
      /\ IF option # "Automatic" THEN Detected(option)
         ELSE IF testAndSkip(text, <<"begin">>).value = TRUE THEN Detected("SAS")
         ELSE /\ stage' = "detect" /\ tokenizer' = text
              /\ UNCHANGED <<input, option, sections, language, start>>

\* Faulty variant of SkipComment: the loop does not get past the semicolon.
SkipCommentStays ==
  /\ stage = "detect" /\ ~atEnd(tokenizer) /\ Current(tokenizer) = Semicolon
  /\ tokenizer' = seek(tokenizer, PassUntil(tokenizer.content, tokenizer.position, {"\n", Semicolon}))
  /\ UNCHANGED <<input, option, sections, language, stage, start>>

\* One turn of the loop over the comments before the first expression.
SkipComment ==
  /\ stage = "detect" /\ ~atEnd(tokenizer) /\ Current(tokenizer) = Semicolon
  /\ IF skipLine(tokenizer).threw THEN Detected("Unknown")
     ELSE /\ tokenizer' = skipWhiteSpace(skipLine(tokenizer))
          /\ UNCHANGED <<input, option, sections, language, stage, start>>

\* Faulty variant of Recognize: the parenthesis alone is taken for PDDL.
RecognizeEarly ==
  /\ stage = "detect" /\ (~atEnd(tokenizer) => Current(tokenizer) # Semicolon)
  /\ Detected(IF testAndSkip(tokenizer, <<"(">>).value = TRUE THEN "PDDL" ELSE "Unknown")

\* Faulty variant of Recognize: legacy sections are forgotten, and no white space
\* may follow the parenthesis.
RecognizeStrict ==
  /\ stage = "detect" /\ (~atEnd(tokenizer) => Current(tokenizer) # Semicolon)
  /\ Detected(IF testAndSkip(tokenizer, <<"(", "define">>).value = TRUE THEN "PDDL" ELSE "Unknown")

Recognize ==
  LET open == testAndSkip(tokenizer, <<"(">>)
  IN  /\ stage = "detect" /\ (~atEnd(tokenizer) => Current(tokenizer) # Semicolon)
      /\ Detected(IF /\ open.value = TRUE
                     /\ \E word \in {"define", "in-package"} : testAndSkip(open, <<word>>).value = TRUE
                  THEN "PDDL" ELSE "Unknown")

\* removeComments, lines 289-291 and 314: the text is put into lower case.
Transform ==
  /\ stage = "remove" /\ stage' = "comments"
  /\ tokenizer' = [tokenizer EXCEPT !.content = [i \in DOMAIN @ |-> transformCharacter(@[i])], !.position = 0]
  /\ UNCHANGED <<input, option, sections, language, start>>

\* removeComments(";", "\n", false), lines 317-332: the next start sequence.
FindComment ==
  LET begin == PassUntil(tokenizer.content, tokenizer.position, {Semicolon})
  IN  /\ stage = "comments"
      /\ IF begin >= Len(tokenizer.content)
         THEN /\ stage' = "parse" /\ tokenizer' = [tokenizer EXCEPT !.position = 0]
              /\ UNCHANGED start
         ELSE /\ stage' = "comment" /\ start' = begin
              /\ tokenizer' = [tokenizer EXCEPT !.position = begin + 1]
      /\ UNCHANGED <<input, option, sections, language>>

\* Faulty variant of Blank: the newline is removed with the comment.
BlankNewline(content, from, end) ==
  SubSeq(content, 1, from) \o [i \in 1 .. end + 1 - from |-> Space] \o SubSeq(content, end + 2, Len(content))

\* Lines 293-312, removeRange.
Blank(content, from, end) ==
  SubSeq(content, 1, from) \o [i \in 1 .. end - from |-> Space] \o SubSeq(content, end + 1, Len(content))

\* Lines 336-352: the comment goes up to the newline, or to the end of the text.
RemoveComment ==
  LET end == PassUntil(tokenizer.content, tokenizer.position, {"\n"})
  IN  /\ stage = "comment" /\ stage' = "comments"
      /\ tokenizer' = [tokenizer EXCEPT !.content = Blank(@, start, end), !.position = end + 1]
      /\ UNCHANGED <<input, option, sections, language, start>>

Next == Read \/ FileMissing \/ Detect \/ SkipComment \/ Recognize \/ Transform \/ FindComment \/ RemoveComment
\* One thread runs the command to its end.
Spec == Init /\ [][Next]_vars /\ WF_vars(Next)

\* Stream::location: upper_bound finds the section, lower_bound the line.
location(p) ==
  LET section == CHOOSE i \in DOMAIN sections :
                   /\ sections[i].position <= p
                   /\ \A j \in DOMAIN sections : j > i => sections[j].position > p
      before  == {n \in sections[section].newlines : n < p}
  IN  [section |-> section, row |-> Cardinality(before) + 1,
       column |-> IF before = {} THEN p - sections[section].position + 1 ELSE p - Max(before)]
-----------------------------------------------------------------------------
\* The files lie one behind the other in the stream.
SectionsFit ==
  /\ \A i \in DOMAIN sections :
       sections[i].position = IF i = 1 THEN 0 ELSE sections[i - 1].position + Len(input[i - 1])
  /\ Len(tokenizer.content) =
       IF sections = <<>> THEN 0 ELSE sections[Len(sections)].position + Len(input[Len(sections)])

\* Nothing is inserted into the stream or removed from it behind the back of the
\* sections.
TypeOK ==
  /\ stage \in {"read", "detect", "remove", "comments", "comment", "parse", "failed"} /\ language \in Language
  /\ tokenizer.position \in Nat /\ start \in 0 .. Len(tokenizer.content)
  /\ Len(sections) <= Len(input) /\ SectionsFit

\* The lines of a file, and what a reader sees at a row and column of it.
Lines(file) ==
  LET ends == {0} \cup {i \in DOMAIN file : file[i] = "\n"} \cup {Len(file)}
      next(i) == CHOOSE j \in ends : j > i /\ \A k \in ends : k > i => j <= k
  IN  {[row |-> Cardinality({k \in ends : k <= i}), text |-> SubSeq(file, i + 1, next(i))] :
         i \in {k \in ends : k < Len(file)}}

\* Whatever the parser complains about at a position, the message points to the
\* file, line and column where it was written, though files are read into one
\* stream and comments have been blanked out.
LocationsPointIntoFiles ==
  stage = "parse" => \A p \in 0 .. Len(tokenizer.content) - 1 :
    tokenizer.content[p + 1] \notin WhiteSpace =>
      \E l \in Lines(input[location(p).section]) :
        /\ l.row = location(p).row /\ location(p).column \in DOMAIN l.text
        /\ tokenizer.content[p + 1] \in {l.text[location(p).column],
                                         transformCharacter(l.text[location(p).column])}

\* A semicolon makes the rest of its line a comment.
Commented(text, i) == \E j \in 1 .. i : text[j] = Semicolon /\ \A k \in j .. i : text[k] # "\n"

EndsItsLines == \A i \in DOMAIN input : i < Len(input) =>
                  input[i] # <<>> /\ input[i][Len(input[i])] = "\n"

\* The parser sees every file's text without its comments, and nothing else is
\* lost, if all files but the last end with a newline.
CommentsRemoved ==
  stage = "parse" /\ language = "PDDL" /\ EndsItsLines =>
    \A i \in DOMAIN input : \A j \in DOMAIN input[i] :
      tokenizer.content[sections[i].position + j] =
        IF Commented(input[i], j) THEN Space ELSE transformCharacter(input[i][j])

\* The text begins with a parenthesis, at a, and one of the words, at b.
Opens(text, a, b) ==
  /\ a < b /\ text[a] = "(" /\ text[b] \in {"define", "in-package"}
  /\ \A k \in 1 .. b - 1 : k # a => text[k] \in WhiteSpace

\* Detection, which looks at the text with its comments, and the parser, which
\* sees it without, agree: what is taken for PDDL begins as the PDDL parser
\* expects, and parsing starts at the beginning.
DetectionAgreesWithParser ==
  /\ stage = "parse" => tokenizer.position = 0
  /\ stage = "parse" /\ option = "Automatic" /\ language = "PDDL" =>
       \E a, b \in DOMAIN tokenizer.content : Opens(tokenizer.content, a, b)

\* What is left of a text without its comments.
Visible(text) == [i \in DOMAIN text |-> IF Commented(text, i) THEN Space ELSE text[i]]

\* If all files could be read, the only ones beginning with "(define" that are
\* refused are those with a comment between the two, and those that write it in
\* capitals.
PDDLIsRecognized ==
  stage = "failed" /\ input # <<>> /\ Len(sections) = Len(input) =>
    \A a, b \in DOMAIN input[1] :
      Opens(Visible(input[1]), a, b) => \E k \in a .. b : input[1][k] = Semicolon

\* The command reaches the parser or reports an error: skipping lines, finding
\* and removing comments come to an end on every input.
Terminates == <>(stage \in {"parse", "failed"})
=============================================================================
