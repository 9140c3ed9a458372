------------------------------ MODULE MCMarkup ------------------------------
(***************************************************************************)
(* A document of three characters, the middle one a line break, open in the  *)
(* editors of two of its three users.                                        *)
(***************************************************************************)
EXTENDS Markup

CONSTANTS plain, bold, italic

MCFormats == {plain, bold, italic}
MCParOf == [b \in {3} |-> 3]
MCAuthor == [s \in Symbols |-> IF s \in {1, 2, 4} THEN 2 ELSE 1]

\* The kinds of work one behaviour mixes: formats with deletions, formats with
\* comings and goings, lines with comings and goings, comments with those.
MCMixes == {[kinds |-> {"format", "erase"}, acts |-> 3],
            [kinds |-> {"format", "visit", "reload"}, acts |-> 3],
            [kinds |-> {"line", "erase", "visit"}, acts |-> 3],
            [kinds |-> {"comment", "visit"}, acts |-> 5]}
MCRanges == {{3}, {3, 4}}

\* The formats a user chooses are alike.
Alike == Permutations({bold, italic})
=============================================================================
