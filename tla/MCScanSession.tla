--------------------------- MODULE MCScanSession ---------------------------
EXTENDS ScanSession, TLC

\* A mode and a root stand for all files or, like a root that is not there, for none.
AllOrNone == {Files, {}}
AllOnly == {Files}

\* No file is treated unlike another.
Symmetry == Permutations(Files)

\* The window is closed in the nested run only.
StaysOpen == win = "loop" /\ ~Up("exit")
=============================================================================
