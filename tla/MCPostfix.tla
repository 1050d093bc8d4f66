----------------------------- MODULE MCPostfix ------------------------------
(* All well-formed expressions of up to nine characters, and whatever can  *)
(* be typed in five.                                                       *)
EXTENDS Postfix

Expressions ==
  LET of[n \in 1 .. 9] ==
        IF n = 1 THEN {<<"a">>}
        ELSE {<<"(">> \o s \o <<")">> : s \in IF n > 2 THEN of[n - 2] ELSE {}}
             \cup UNION {{l \o <<o>> \o r : l \in of[k], o \in Operators, r \in of[n - 1 - k]} :
                           k \in 1 .. n - 2}
  IN  UNION {of[n] : n \in 1 .. 9}

Garbage == UNION {[1 .. n -> Characters] : n \in 0 .. 5}

MCInputs == Expressions \cup Garbage

=============================================================================
