----------------------------- MODULE MCDownload -----------------------------
(***************************************************************************)
(* Instances of Download for TLC.                                          *)
(***************************************************************************)
EXTENDS Download

CONSTANTS a, b

\* Version a is longer than version b.
MCBodyLen == [v \in {a, b} |-> IF v = a THEN 2 ELSE 1]

\* Two mirrors of the first file that agree, one source for the second.
Agreeing == <<<<a, a>>, <<b>>>>

\* Mirrors that disagree: the first serves the longer, or the shorter, body.
Disagreeing == <<<<a, b>>, <<b, a>>>>
=============================================================================
