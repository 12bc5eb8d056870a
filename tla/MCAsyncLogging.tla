--------------------------- MODULE MCAsyncLogging ---------------------------
(***************************************************************************)
(* AsyncLogging for TLC.  Sizes are scaled down so that a buffer is full   *)
(* after two or three lines: buffers fill up, backlogs are dropped and     *)
(* files are rolled within a few lines.                                    *)
(***************************************************************************)
EXTENDS AsyncLogging

Statement(body, errno, function) ==
    [body |-> body, errno |-> errno, message |-> 17, function |-> function,
     file |-> 11, line |-> 62]

\* Every kind of piece, an error, a function name; and texts that end around
\* every position near the end of the buffer, a number behind each.
ShortStatements ==
    << Statement(<< <<"text", 12>>, <<"int", 80>> >>, 0, 0),
       Statement(<< <<"text", 12>>, <<"real", 19>>, <<"int", -345>> >>, 0, 0),
       Statement(<< <<"text", 12>>, <<"pointer", 2147483647>> >>, 0, 0),
       Statement(<< <<"text", 12>> >>, 24, 0),
       Statement(<< <<"text", 12>> >>, 0, 9) >>

EndStatements ==
    [n \in 1..60 |->
        Statement(<< <<"text", 60 + n>>, <<"int", 2147483647>>,
                     <<"pointer", 255>> >>, 0, 0)]

MCStatements == ShortStatements \o EndStatements

MCNumbers == (0..1100) \union {65535, 65536, 1000000000, 2147483647}
=============================================================================
