--------------------------- MODULE TransferString ---------------------------
(***************************************************************************)
(* The transfer layer of kernel/vfs/transfer.c with its callers: either a  *)
(* caller that holds a cursor of its own and calls PerformTransfer on it   *)
(* (module Transfer), or one of the wrappers built on PerformTransfer:     *)
(* WriteStringToUsermode copies a kernel string out to a user buffer of    *)
(* max_length bytes, ReadStringFromUsermode copies a user string into a    *)
(* kernel buffer one byte at a time, and the word wrappers move one size_t. *)
(*                                                                          *)
(* The caller is chosen at the start.  The two kinds of caller share only  *)
(* the page permissions and never interfere, so checking them side by side *)
(* reaches every state of each.  Each wrapper runs on one thread with no   *)
(* blocking point that matters here, so one call is one step.  Bytes are   *)
(* "c" (any non-NUL byte) and NUL.  max_length is a uint64_t: LongBits     *)
(* wide.                                                                    *)
(***************************************************************************)
EXTENDS Transfer, Sequences, TLC

CONSTANTS LongBits,     \* width of uint64_t
          WordSize,     \* sizeof(size_t)
          MaxString,    \* longest kernel string
          MaxMax        \* largest max_length passed

VARIABLES umem,     \* user memory: the byte at each address
          kbuf,     \* the kernel buffer: index -> byte, for the indices written
          word,     \* the size_t ReadWordFromUsermode stored into *output
          call,     \* the wrapper call made: its operation and arguments
          result

wrapperVars == <<umem, kbuf, word, call, result>>
cursorVars  == <<tr, start, touched, calls, res>>
layerVars   == <<perms, umem, kbuf, word, call, result, tr, start, touched, calls, res>>

NUL == "nul"   \* the byte 0

\* uint64_t subtraction.
SubLong(x, y) == (x - y) % (2 ^ LongBits)

UserAddrs == {a \in Addrs : UserBase <= a /\ a < UserLimit}

\* The cursor of a caller that has none yet.
NoCursor == [address |-> 0, length_remaining |-> 0, offset |-> 0,
             direction |-> "READ", type |-> "INTRA_KERNEL"]

\* Either a caller with a cursor of its own (Transfer's initial states), or
\* a wrapper about to be called, with user memory holding "c" everywhere
\* but at most one NUL in the user area.
LayerInit ==
    /\ PermsInit
    /\ \/ /\ CursorInit
          /\ umem = [a \in Addrs |-> "c"]
          /\ call = [op |-> "cursor"]
       \/ /\ tr = NoCursor /\ start = NoCursor /\ touched = {} /\ calls = 0 /\ res = OK
          /\ umem \in {[a \in Addrs |-> IF a = z THEN NUL ELSE "c"] : z \in UserAddrs \cup {Word}}
          /\ call = [op |-> "none"]
    /\ kbuf = << >>
    /\ word = << >>
    /\ result = OK

\* The cursor CreateTransfer builds for a user buffer.
UserCursor(addr, len, dir) ==
    [address |-> addr, length_remaining |-> len, offset |-> 0,
     direction |-> dir, type |-> "USERMODE"]

\* Write the bytes bs at the user addresses of span, in address order
\* from the cursor's address.
Store(m, t, bs) ==
    [a \in Addrs |-> IF \E i \in 1 .. Len(bs) : AddSize(t.address, i - 1) = a
                      THEN bs[CHOOSE i \in 1 .. Len(bs) : AddSize(t.address, i - 1) = a]
                      ELSE m[a]]

-----------------------------------------------------------------------------
\* WriteStringToUsermode(s, untrusted_buffer, max_length): the string,
\* cut to max_length - 1 bytes when it does not fit, then one NUL byte.
WriteStringToUsermodeLe(s, addr, max) ==
    LET tr0  == UserCursor(addr, max, "READ")
        size == IF Len(s) <= max THEN Len(s) ELSE SubLong(max, 1)
        r1   == Perform(tr0, size)
        n1   == tr0.length_remaining - r1.tr.length_remaining
        m1   == Store(umem, tr0, SubSeq(s, 1, n1))
        r2   == Perform(r1.tr, 1)
        n2   == r1.tr.length_remaining - r2.tr.length_remaining
    IN /\ call.op = "none"
       /\ call' = [op |-> "WriteString", s |-> s, addr |-> addr, max |-> max]
       /\ IF r1.res # OK
          THEN /\ result' = r1.res /\ UNCHANGED umem
          ELSE /\ result' = r2.res
               /\ umem' = IF r2.res = OK THEN Store(m1, r1.tr, SubSeq(<<NUL>>, 1, n2)) ELSE m1
       /\ UNCHANGED <<perms, kbuf, word>> /\ UNCHANGED cursorVars

WriteStringToUsermode(s, addr, max) ==
    LET tr0  == UserCursor(addr, max, "READ")
        size == IF Len(s) < max THEN Len(s) ELSE SubLong(max, 1)
        r1   == Perform(tr0, size)
        n1   == tr0.length_remaining - r1.tr.length_remaining
        m1   == Store(umem, tr0, SubSeq(s, 1, n1))
        r2   == Perform(r1.tr, 1)
        n2   == r1.tr.length_remaining - r2.tr.length_remaining
    IN /\ call.op = "none"
       /\ call' = [op |-> "WriteString", s |-> s, addr |-> addr, max |-> max]
       /\ IF r1.res # OK
          THEN /\ result' = r1.res /\ UNCHANGED umem
          ELSE /\ result' = r2.res
               /\ umem' = IF r2.res = OK THEN Store(m1, r1.tr, SubSeq(<<NUL>>, 1, n2)) ELSE m1
       /\ UNCHANGED <<perms, kbuf, word>> /\ UNCHANGED cursorVars

\* ReadStringFromUsermode(trusted_buffer, untrusted_string, max_length):
\* while (max_length-- > 1) read one byte, store it, stop after a NUL;
\* then trusted_buffer[i] = 0.
RECURSIVE ReadLoopNoFinalStore(_, _, _, _)
ReadLoopNoFinalStore(t, max, i, kb) ==
    IF ~(max > 1)
    THEN [kb |-> kb, res |-> OK]
    ELSE LET r == Perform(t, 1)
             c == umem[t.address]
         IN IF r.res # OK THEN [kb |-> kb, res |-> r.res]
            ELSE IF c = NUL THEN [kb |-> kb @@ (i :> c), res |-> OK]
            ELSE ReadLoopNoFinalStore(r.tr, SubLong(max, 1), i + 1, kb @@ (i :> c))

RECURSIVE ReadLoopOffByOne(_, _, _, _)
ReadLoopOffByOne(t, max, i, kb) ==
    IF ~(max > 0)
    THEN [kb |-> kb @@ (i :> NUL), res |-> OK]
    ELSE LET r == Perform(t, 1)
             c == umem[t.address]
         IN IF r.res # OK THEN [kb |-> kb, res |-> r.res]
            ELSE IF c = NUL THEN [kb |-> (i + 1 :> NUL) @@ kb @@ (i :> c), res |-> OK]
            ELSE ReadLoopOffByOne(r.tr, SubLong(max, 1), i + 1, kb @@ (i :> c))

RECURSIVE ReadLoop(_, _, _, _)
ReadLoop(t, max, i, kb) ==
    IF ~(max > 1)
    THEN [kb |-> kb @@ (i :> NUL), res |-> OK]
    ELSE LET r == Perform(t, 1)
             c == umem[t.address]
         IN IF r.res # OK THEN [kb |-> kb, res |-> r.res]
            ELSE IF c = NUL THEN [kb |-> (i + 1 :> NUL) @@ kb @@ (i :> c), res |-> OK]
            ELSE ReadLoop(r.tr, SubLong(max, 1), i + 1, kb @@ (i :> c))

ReadStringFromUsermode(addr, max) ==
    LET r == ReadLoop(UserCursor(addr, max, "WRITE"), max, 0, << >>)
    IN /\ call.op = "none"
       /\ call' = [op |-> "ReadString", addr |-> addr, max |-> max]
       /\ kbuf' = r.kb
       /\ result' = r.res
       /\ UNCHANGED <<perms, umem, word>> /\ UNCHANGED cursorVars

\* WriteWordToUsermode(location, value): one PerformTransfer of
\* sizeof(size_t) bytes, EINVAL unless all of them were copied.  The value
\* is a word of non-NUL bytes.
WriteWordToUsermode(addr) ==
    LET r == Perform(UserCursor(addr, WordSize, "READ"), WordSize)
    IN /\ call.op = "none"
       /\ call' = [op |-> "WriteWord", addr |-> addr]
       /\ result' = IF r.tr.length_remaining # 0 THEN EINVAL ELSE r.res
       /\ umem' = IF r.res = OK
                  THEN Store(umem, UserCursor(addr, WordSize, "READ"),
                             [i \in 1 .. WordSize |-> "c"])
                  ELSE umem
       /\ UNCHANGED <<perms, kbuf, word>> /\ UNCHANGED cursorVars

\* ReadWordFromUsermode(location, output).
ReadWordFromUsermode(addr) ==
    LET r == Perform(UserCursor(addr, WordSize, "WRITE"), WordSize)
    IN /\ call.op = "none"
       /\ call' = [op |-> "ReadWord", addr |-> addr]
       /\ result' = IF r.tr.length_remaining # 0 THEN EINVAL ELSE r.res
       /\ word' = IF r.res = OK
                  THEN [i \in 1 .. WordSize |-> umem[AddSize(addr, i - 1)]]
                  ELSE word
       /\ UNCHANGED <<perms, umem, kbuf>> /\ UNCHANGED cursorVars

\* The cursor's holder calls PerformTransfer on it.
CursorCall ==
    /\ call.op = "cursor"
    /\ Next
    /\ UNCHANGED wrapperVars

LayerNext ==
        \/ CursorCall
        \/ \E n \in 0 .. MaxString, addr \in Addrs, max \in 0 .. MaxMax :
              WriteStringToUsermode([i \in 1 .. n |-> "c"], addr, max)
        \/ \E addr \in Addrs, max \in 0 .. MaxMax :
              ReadStringFromUsermode(addr, max)
        \/ \E addr \in Addrs : WriteWordToUsermode(addr) \/ ReadWordFromUsermode(addr)

LayerSpec == LayerInit /\ [][LayerNext]_layerVars

-----------------------------------------------------------------------------
(* Properties                                                               *)

\* ReadStringFromUsermode stores only inside the caller's buffer: for a
\* max_length of at least 1, every index written, by the loop (line 147)
\* or by the final store after a break or the end of the loop (line 153),
\* is below max_length, whether the call succeeds or a copy fails midway.
ReadStringStaysInBuffer ==
    (call.op = "ReadString" /\ call.max >= 1)
        => DOMAIN kbuf \subseteq 0 .. call.max - 1

\* The length of the NUL-terminated string at addr, cut at n bytes.
UserStrLen(addr, n) ==
    LET nul == {i \in 0 .. n - 1 : umem[AddSize(addr, i)] = NUL}
    IN IF nul = {} THEN n ELSE CHOOSE i \in nul : \A j \in nul : i <= j

\* The first k + 1 bytes at addr are the first k bytes of s and a NUL.
HoldsString(addr, s, k) ==
    /\ \A j \in 0 .. k - 1 : umem[AddSize(addr, j)] = s[j + 1]
    /\ umem[AddSize(addr, k)] = NUL

\* WriteStringToUsermode with room for at least the terminator: on
\* success the user buffer holds the string, cut to max_length - 1 bytes,
\* and its NUL, so the two PerformTransfer calls on one cursor (line 126
\* and 134) place the terminator right after the bytes copied.
WriteStringCopiesString ==
    (call.op = "WriteString" /\ result = OK /\ call.max >= 1)
        => LET k == IF Len(call.s) < call.max THEN Len(call.s) ELSE call.max - 1
           IN HoldsString(call.addr, call.s, k)

\* ReadStringFromUsermode with max_length >= 1: on success the kernel
\* buffer holds the user string, cut to max_length - 1 bytes, then a NUL,
\* whether the loop stopped at the user's NUL (line 149) or ran out of
\* room (line 141) before the final store of line 153.
ReadStringCopiesString ==
    (call.op = "ReadString" /\ result = OK /\ call.max >= 1)
        => LET k == UserStrLen(call.addr, call.max - 1)
           IN /\ 0 .. k \subseteq DOMAIN kbuf
              /\ \A j \in 0 .. k - 1 : kbuf[j] = umem[AddSize(call.addr, j)]
              /\ kbuf[k] = NUL

=============================================================================
