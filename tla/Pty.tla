-------------------------------- MODULE Pty --------------------------------
(***************************************************************************)
(* A pseudo-terminal pair of kernel/dev/pty.c and the four threads that    *)
(* use it: the keyboard side of the terminal (MasterWrite), the screen side *)
(* (MasterRead), the pair's LineProcessor thread, and one program using    *)
(* the subordinate (SubordinateRead, SubordinateWrite).                     *)
(*                                                                          *)
(* The three mailboxes are bounded FIFOs; MailboxAdd(-1) blocks while full *)
(* and MailboxGet(-1) while empty (mailbox.c is not under src/; spec 5).    *)
(* Every blocking call is a step boundary; everything between two of them  *)
(* runs as one step.  termios is ICANON | ECHO as CreatePseudoTerminal     *)
(* sets it, and nothing under src/ changes it.                             *)
(*                                                                          *)
(* typed, processed, got and shown are history: the bytes the terminal has *)
(* typed, the bytes the line processor has applied, the bytes the program  *)
(* has read, and the bytes the screen has displayed.                       *)
(***************************************************************************)
EXTENDS Naturals, Sequences, SequencesExt

CONSTANTS Keys,            \* bytes the terminal may type
          Out,             \* the byte the program writes
          BS, SP, NL, ETX,
          KbdSize, DisplaySize, FlushedSize,   \* mailbox capacities
          LineBufferSize,  \* LINE_BUFFER_SIZE
          MaxTyped,        \* bound on the bytes typed
          MaxWritten,      \* bound on the bytes the program writes
          ReadMax          \* largest transfer of a SubordinateRead

LD == INSTANCE LineDiscipline

VARIABLES kbd, display, flushed,   \* keybrd_buffer, display_buffer, flushed_buffer
          line,                    \* line_buffer[0 .. line_buffer_pos)
          lp_pc, lp_c, echoQ, fi,  \* LineProcessor: place, c, echo left, flush index
          sub_pc, sub_left,        \* the program's call and its length_remaining
          written,                 \* bytes the program has written
          typed, processed, got, shown

vars == <<kbd, display, flushed, line, lp_pc, lp_c, echoQ, fi, sub_pc, sub_left,
          written, typed, processed, got, shown>>

lpVars  == <<line, lp_pc, lp_c, echoQ, fi, processed>>
subVars == <<sub_pc, sub_left, written, got>>

\* CreatePseudoTerminal: empty mailboxes and line; the line processor
\* starts at the top of its loop.
Init == /\ kbd = << >> /\ display = << >> /\ flushed = << >>
        /\ line = << >>
        /\ lp_pc = "Get" /\ lp_c = SP /\ echoQ = << >> /\ fi = 1
        /\ sub_pc = "Idle" /\ sub_left = 0 /\ written = 0
        /\ typed = << >> /\ processed = << >> /\ got = << >> /\ shown = << >>

-----------------------------------------------------------------------------
(* The terminal.                                                            *)

\* One iteration of MasterWrite's loop: take a byte and MailboxAdd it.
MasterWriteUnbounded(c) ==
    /\ Len(typed) < MaxTyped
    /\ kbd' = Append(kbd, c)
    /\ typed' = Append(typed, c)
    /\ UNCHANGED <<display, flushed, lpVars, subVars, shown>>

MasterWrite(c) ==
    /\ Len(typed) < MaxTyped
    /\ Len(kbd) < KbdSize
    /\ kbd' = Append(kbd, c)
    /\ typed' = Append(typed, c)
    /\ UNCHANGED <<display, flushed, lpVars, subVars, shown>>

\* One iteration of MasterRead's loop: MailboxGet a byte and pass it on.
MasterRead ==
    /\ display # << >>
    /\ shown' = Append(shown, Head(display))
    /\ display' = Tail(display)
    /\ UNCHANGED <<kbd, flushed, lpVars, subVars, typed>>

-----------------------------------------------------------------------------
(* LineProcessor.                                                           *)

\* What lines 116-126 echo for c, given the line before c is applied.
EchoBytesOffByOne(c, ln) ==
    IF c = BS THEN (IF Len(ln) > 1 THEN <<BS, SP, BS>> ELSE << >>) ELSE <<c>>

EchoBytes(c, ln) ==
    IF c = BS THEN (IF Len(ln) > 0 THEN <<BS, SP, BS>> ELSE << >>) ELSE <<c>>

\* MailboxGet(keybrd_buffer): the byte, and the echo it will produce.
LineProcessorGet ==
    /\ lp_pc = "Get" /\ kbd # << >>
    /\ lp_c' = Head(kbd)
    /\ kbd' = Tail(kbd)
    /\ echoQ' = EchoBytes(Head(kbd), line)
    /\ lp_pc' = "Echo"
    /\ UNCHANGED <<display, flushed, line, fi, processed, subVars, typed, shown>>

\* One MailboxAdd(display_buffer) of the echo.
LineProcessorEcho ==
    /\ lp_pc = "Echo" /\ echoQ # << >>
    /\ Len(display) < DisplaySize
    /\ display' = Append(display, Head(echoQ))
    /\ echoQ' = Tail(echoQ)
    /\ UNCHANGED <<kbd, flushed, line, lp_pc, lp_c, fi, processed, subVars, typed, shown>>

\* RemoveFromSubordinateLineBuffer and AddToSubordinateLineBuffer.
Edited(c, ln) ==
    IF c = BS THEN (IF ln = << >> THEN ln ELSE Front(ln))
    ELSE IF Len(ln) = LineBufferSize THEN ln
    ELSE Append(ln, c)

\* Lines 128-137: edit the line, then either start the flush or go back
\* to the top of the loop.
LineProcessorEditNoNL ==
    /\ lp_pc = "Echo" /\ echoQ = << >>
    /\ line' = Edited(lp_c, line)
    /\ processed' = Append(processed, lp_c)
    /\ lp_pc' = IF lp_c = ETX THEN "Flush" ELSE "Get"
    /\ fi' = 1
    /\ UNCHANGED <<kbd, display, flushed, lp_c, echoQ, subVars, typed, shown>>

LineProcessorEdit ==
    /\ lp_pc = "Echo" /\ echoQ = << >>
    /\ line' = Edited(lp_c, line)
    /\ processed' = Append(processed, lp_c)
    /\ lp_pc' = IF lp_c \in {NL, ETX} THEN "Flush" ELSE "Get"
    /\ fi' = 1
    /\ UNCHANGED <<kbd, display, flushed, lp_c, echoQ, subVars, typed, shown>>

\* FlushSubordinateLineBuffer: one MailboxAdd(flushed_buffer) per byte.
LineProcessorFlush ==
    /\ lp_pc = "Flush" /\ fi <= Len(line)
    /\ Len(flushed) < FlushedSize
    /\ flushed' = Append(flushed, line[fi])
    /\ fi' = fi + 1
    /\ UNCHANGED <<kbd, display, line, lp_pc, lp_c, echoQ, processed, subVars, typed, shown>>

\* line_buffer_pos = 0 once every byte is in the mailbox.
FlushDoneNoReset ==
    /\ lp_pc = "Flush" /\ fi > Len(line)
    /\ lp_pc' = "Get"
    /\ UNCHANGED <<kbd, display, flushed, line, lp_c, echoQ, fi, processed, subVars,
                   typed, shown>>

FlushDone ==
    /\ lp_pc = "Flush" /\ fi > Len(line)
    /\ line' = << >>
    /\ lp_pc' = "Get"
    /\ UNCHANGED <<kbd, display, flushed, lp_c, echoQ, fi, processed, subVars,
                   typed, shown>>

-----------------------------------------------------------------------------
(* The program.                                                             *)

\* SubordinateRead with a transfer of n > 0 bytes (n = 0 returns at once).
SubordinateRead(n) ==
    /\ sub_pc = "Idle"
    /\ sub_pc' = "ReadFirst" /\ sub_left' = n
    /\ UNCHANGED <<kbd, display, flushed, lpVars, written, got, typed, shown>>

\* The blocking MailboxGet(flushed_buffer, -1) of the first byte.
ReadFirst ==
    /\ sub_pc = "ReadFirst" /\ flushed # << >>
    /\ got' = Append(got, Head(flushed))
    /\ flushed' = Tail(flushed)
    /\ sub_left' = sub_left - 1
    /\ sub_pc' = "ReadMore"
    /\ UNCHANGED <<kbd, display, lpVars, written, typed, shown>>

\* The greedy loop: MailboxGet(flushed_buffer, 0) while room is left.
ReadMore ==
    /\ sub_pc = "ReadMore" /\ sub_left > 0 /\ flushed # << >>
    /\ got' = Append(got, Head(flushed))
    /\ flushed' = Tail(flushed)
    /\ sub_left' = sub_left - 1
    /\ UNCHANGED <<kbd, display, lpVars, sub_pc, written, typed, shown>>

ReadReturn ==
    /\ sub_pc = "ReadMore" /\ (sub_left = 0 \/ flushed = << >>)
    /\ sub_pc' = "Idle" /\ sub_left' = 0
    /\ UNCHANGED <<kbd, display, flushed, lpVars, written, got, typed, shown>>

\* SubordinateWrite of n bytes, then one MailboxAdd(display_buffer) each.
SubordinateWrite(n) ==
    /\ sub_pc = "Idle" /\ written + n <= MaxWritten
    /\ sub_pc' = "Write" /\ sub_left' = n
    /\ UNCHANGED <<kbd, display, flushed, lpVars, written, got, typed, shown>>

WriteByte ==
    /\ sub_pc = "Write"
    /\ Len(display) < DisplaySize
    /\ display' = Append(display, Out)
    /\ written' = written + 1
    /\ sub_left' = sub_left - 1
    /\ sub_pc' = IF sub_left = 1 THEN "Idle" ELSE "Write"
    /\ UNCHANGED <<kbd, flushed, lpVars, got, typed, shown>>

-----------------------------------------------------------------------------

LineProcessorStep == \/ LineProcessorGet \/ LineProcessorEcho \/ LineProcessorEdit
                     \/ LineProcessorFlush \/ FlushDone

ProgramKernelStep == ReadFirst \/ ReadMore \/ ReadReturn \/ WriteByte

Next == \/ \E c \in Keys : MasterWrite(c)
        \/ MasterRead
        \/ LineProcessorStep
        \/ \E n \in 1 .. ReadMax : SubordinateRead(n)
        \/ \E n \in 1 .. MaxWritten : SubordinateWrite(n)
        \/ ProgramKernelStep

\* The line processor runs at a fixed high priority and the program's
\* thread is scheduled while it is inside the kernel; the screen side of
\* the terminal keeps reading.  Nothing obliges anyone to type, or the
\* program to call read or write.
Fairness == /\ WF_vars(LineProcessorStep)
            /\ WF_vars(ProgramKernelStep)
            /\ WF_vars(MasterRead)

Spec == Init /\ [][Next]_vars /\ Fairness

-----------------------------------------------------------------------------
(* Properties                                                               *)

Bytes == Keys \cup {Out, SP}

TypeOK == /\ kbd \in Seq(Keys) /\ Len(kbd) <= KbdSize
          /\ display \in Seq(Bytes) /\ Len(display) <= DisplaySize
          /\ flushed \in Seq(Keys) /\ Len(flushed) <= FlushedSize
          /\ line \in Seq(Keys) /\ Len(line) <= LineBufferSize
          /\ lp_pc \in {"Get", "Echo", "Flush"}
          /\ echoQ \in Seq(Bytes) /\ fi \in 1 .. LineBufferSize + 1
          /\ sub_pc \in {"Idle", "ReadFirst", "ReadMore", "Write"}
          /\ sub_left \in 0 .. ReadMax \cup 1 .. MaxWritten
          /\ written \in 0 .. MaxWritten

\* The bytes of the line still to be added to flushed_buffer by a flush
\* in progress, and the line as the discipline sees it (already reset).
Unflushed == IF lp_pc = "Flush" THEN SubSeq(line, fi, Len(line)) ELSE << >>
InFlight  == IF lp_pc = "Flush" THEN << >> ELSE line

\* The concurrent pipeline computes the sequential line discipline: what
\* the program has read, then what waits in flushed_buffer, then what a
\* flush in progress has still to add, is exactly the output of the
\* discipline (with LINE_BUFFER_SIZE) applied to the bytes the line
\* processor has taken, and the line buffer is the discipline's line.
\* Blocking MailboxAdds in FlushSubordinateLineBuffer, the greedy drain of
\* SubordinateRead and the line reset after the flush all bear on it.
DeliveredIsCooked ==
    /\ got \o flushed \o Unflushed = LD!Discipline(LineBufferSize, processed).out
    /\ InFlight = LD!Discipline(LineBufferSize, processed).line

\* The screen shows the canonical echo (spec 4.6 step 1 and property 8):
\* with the program's own output taken out, the bytes shown and queued for
\* display, then the echo the line processor still has to add, are the
\* discipline's echo of every byte it has taken, in order.
TakenNow == IF lp_pc = "Echo" THEN <<lp_c>> ELSE << >>

EchoIsCanonical ==
    SelectSeq(shown \o display, LAMBDA b : b # Out) \o echoQ
        = LD!Discipline(LineBufferSize, processed \o TakenNow).echo

\* A SubordinateRead blocked on an empty flushed_buffer returns once the
\* terminal has typed a line the program has not read: the line processor
\* gets every byte through, even when the echo or the flush has to wait
\* for the screen or the reader.
ReadReturns ==
    (sub_pc = "ReadFirst" /\ Len(LD!Discipline(LineBufferSize, typed).out) > Len(got))
        ~> sub_pc # "ReadFirst"

\* Spec property 7: in canonical mode, a line typed with no backspace and
\* ended by a terminator reaches the reader exactly, terminator included.
\* Checked whenever the line processor is back at the top of its loop.
CanonicalLineDelivered ==
    (lp_pc = "Get" /\ BS \notin ToSet(processed))
        => got \o flushed = LD!Unbounded(processed).out

=============================================================================
