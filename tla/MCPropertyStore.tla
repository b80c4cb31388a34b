-------------------------- MODULE MCPropertyStore --------------------------
EXTENDS PropertyStore

CONSTANTS url0, tempAdj, w1, b

\* Two plain names, and one of them with a blank before it and with an = in it.
MCNames == {Plain(url0), Plain(tempAdj),
            [Plain(tempAdj) EXCEPT !.lead = TRUE], [Plain(tempAdj) EXCEPT !.head = b]}

\* A value with an = in it and one with blanks around it.
MCTexts == {[NoValue EXCEPT !.word = w1, !.head = b],
            [NoValue EXCEPT !.word = w1, !.lead = TRUE, !.trail = TRUE]}
=============================================================================
