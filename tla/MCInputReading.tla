--------------------------- MODULE MCInputReading ---------------------------
(***************************************************************************)
(* All files of up to four characters, and pairs of short ones, over the   *)
(* characters on which reading decides.                                    *)
(***************************************************************************)
EXTENDS InputReading

MCPunctuation == {"?", "(", ")", ";"}
MCWide == 256
MCNarrow == 64

Character == {" ", "\n", ";", "(", "define", "DEFINE", "begin"}
Files(n)  == UNION {[1 .. k -> Character] : k \in 0 .. n}
MCInputs  == {<<f>> : f \in Files(4)}
               \cup {<<f, g>> : f \in UNION {[1 .. k -> {"X", "\n", ";", "("}] : k \in 0 .. 3},
                                g \in UNION {[1 .. k -> {"(", "\n", ";", "define"}] : k \in 0 .. 3}}
MCLanguageOption == {"Automatic", "PDDL"}
=============================================================================
