--------------------------- MODULE LineDiscipline ---------------------------
(***************************************************************************)
(* The canonical line discipline of spec 4.6 as a function of the bytes    *)
(* typed so far: what has been echoed, what sits in the in-flight line,     *)
(* and what has been released to readers.  It is the sequential reference  *)
(* the concurrent PTY pipeline of Pty is checked against.  LineCap is the   *)
(* size of the in-flight line; bytes that do not fit are dropped.          *)
(***************************************************************************)
EXTENDS Sequences, SequencesExt

CONSTANTS BS,     \* '\b'
          SP,     \* ' '
          NL,     \* '\n'
          ETX     \* 0x03

Terminators == {NL, ETX}

Initial == [line |-> << >>, out |-> << >>, echo |-> << >>]

\* The effect of one typed byte, with ICANON and ECHO set.
Step(LineCap, st, c) ==
    LET erases  == c = BS
        shown   == IF ~erases THEN <<c>>
                   ELSE IF st.line # << >> THEN <<BS, SP, BS>> ELSE << >>
        edited  == IF erases THEN Front(st.line)
                   ELSE IF Len(st.line) < LineCap THEN Append(st.line, c)
                   ELSE st.line
        flushes == c \in Terminators
    IN [line |-> IF flushes THEN << >> ELSE edited,
        out  |-> IF flushes THEN st.out \o edited ELSE st.out,
        echo |-> st.echo \o shown]

Discipline(LineCap, input) ==
    FoldLeft(LAMBDA st, c : Step(LineCap, st, c), Initial, input)

\* The discipline with a line that never fills: what spec property 7
\* promises a reader of a line with no backspace.
Unbounded(input) == Discipline(Len(input) + 1, input)

=============================================================================
