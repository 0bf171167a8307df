----------------------------- MODULE MCFileLog -----------------------------
(* A small instance of FileLog: two long lines, three short ones, and one    *)
(* that the level filters.                                                   *)
EXTENDS FileLog, TLC

CONSTANTS long1, long2, short1, short2, short3, quiet

Long  == {long1, long2}
Short == {short1, short2, short3}

LogLines  == Long \cup Short \cup {quiet}
LogLength == [l \in LogLines |-> IF l \in Long THEN 2 ELSE 1]
LogLevel  == [l \in LogLines |-> IF l = quiet THEN 4 ELSE 3]
LogFaults == {"crash", "rename", "open"}

Symmetry == Permutations(Threads) \cup Permutations(Long) \cup Permutations(Short)
==============================================================================
