-------------------------- MODULE MCLogStatements --------------------------
(* Instances of LogStatements for TLC. *)
EXTENDS LogStatements

CONSTANTS e1, e2, e3, a, cr, lf, nul, mark, ansi, other, bad

\* Below VERBOSE, the default, FATAL and above.
MCLevels == {-2, 0, 3, 4}

\* The text of one error just has room in both buffers, that of another only
\* in the first of them, the third has none.
MCAscii == {a, cr, lf, nul, mark}
MCSystemText == [e \in Errors |-> CASE e = e1 -> <<ansi, cr, lf>>
                                    [] e = e2 -> <<a, ansi, cr, lf>>
                                    [] e = e3 -> <<>>]
MCCodeText == [e \in Errors |-> <<a>>]

\* Text with a character of each kind.
MCTexts == {<<a, ansi>>, <<other, a>>, <<a, nul, a>>}
=============================================================================
