------------------------------ MODULE Transfer ------------------------------
(***************************************************************************)
(* The transfer layer of kernel/vfs/transfer.c: a transfer cursor and the  *)
(* PerformTransfer calls made on it, with ValidateCopy checking user       *)
(* buffers against the page permissions of the address space.              *)
(*                                                                          *)
(* Addresses are size_t: AddrBits wide, arithmetic modulo 2^AddrBits.      *)
(* The model shrinks the 32-bit space to a few pages so that a buffer can  *)
(* start anywhere, wrap around the top of memory, and straddle pages; the  *)
(* user area, page size and word width are constants.  Lengths stay below *)
(* 2^AddrBits, so the uint64 -> size_t narrowing of amount_to_copy never   *)
(* bites here.  GetVirtPermissions and BytesToPages are not under src/.    *)
(***************************************************************************)
EXTENDS Naturals, FiniteSets

CONSTANTS AddrBits,      \* width of size_t
          PageSize,      \* ARCH_PAGE_SIZE
          UserBase,      \* ARCH_USER_AREA_BASE
          UserLimit,     \* ARCH_USER_AREA_LIMIT
          MaxLen,        \* longest transfer and longest call
          MaxCalls,      \* PerformTransfer calls on one cursor
          PermChoices    \* the permission sets a user page may carry

Word  == 2 ^ AddrBits
Addrs == 0 .. Word - 1
Pages == 0 .. (Word \div PageSize) - 1
UserPages == {p \in Pages : UserBase <= p * PageSize /\ p * PageSize < UserLimit}

\* size_t addition.
AddSize(x, y) == (x + y) % Word

\* BytesToPages: pages needed to hold n bytes.
BytesToPages(n) == (n + PageSize - 1) \div PageSize

OK     == "OK"
EINVAL == "EINVAL"

VARIABLES perms,      \* GetVirtPermissions of each page
          tr,         \* struct transfer
          start,      \* the cursor as it was created
          touched,    \* user addresses the kernel has read or written
          calls,      \* PerformTransfer calls made
          res         \* what the last call returned

vars == <<perms, tr, start, touched, calls, res>>

\* Pages outside the user area are kernel pages: no USER bit.
PermsInit == perms \in {f \in [Pages -> SUBSET {"R", "W", "X", "U"}] :
                          /\ \A p \in UserPages : f[p] \in PermChoices
                          /\ \A p \in Pages \ UserPages : f[p] = {"R", "W"}}

\* CreateTransfer with any address, length, direction and type.
CursorInit ==
        /\ \E a \in Addrs, n \in 0 .. MaxLen, d \in {"READ", "WRITE"},
              t \in {"USERMODE", "INTRA_KERNEL"} :
              tr = [address |-> a, length_remaining |-> n, offset |-> 0,
                    direction |-> d, type |-> t]
        /\ start = tr
        /\ touched = {}
        /\ calls = 0
        /\ res = OK

Init == PermsInit /\ CursorInit

-----------------------------------------------------------------------------
\* The page loop of lines 31-50: the permission test of one page.
PageAllows(p, write) ==
    /\ perms[p] # {}
    /\ "R" \in perms[p]
    /\ "U" \in perms[p]
    /\ write => "W" \in perms[p]
    /\ write => "X" \notin perms[p]

\* ValidateCopy: the range tests of lines 14-22, then BytesToPages(size)
\* pages from the page of the first byte.
ValidateCopyNoEndCheck(addr, size, write) ==
    LET final == AddSize(addr, size)
    IN IF \/ addr < UserBase \/ addr >= UserLimit
          \/ final < addr
       THEN EINVAL
       ELSE IF \A i \in 0 .. BytesToPages(size) - 1 :
                   PageAllows(addr \div PageSize + i, write)
            THEN OK ELSE EINVAL

ValidateCopy(addr, size, write) ==
    LET final == AddSize(addr, size)
    IN IF \/ addr < UserBase \/ addr >= UserLimit
          \/ final < addr
          \/ final < UserBase \/ final >= UserLimit
       THEN EINVAL
       ELSE IF \A i \in 0 .. BytesToPages(size) - 1 :
                   PageAllows(addr \div PageSize + i, write)
            THEN OK ELSE EINVAL

\* The bytes inline_memcpy reads or writes at the user address.
Span(addr, size) == {AddSize(addr, i) : i \in 0 .. size - 1}

\* One PerformTransfer on cursor t, as a value: the cursor after the call,
\* what it returns, and the user bytes it copies.
Perform(t, len) ==
    LET amount == IF len < t.length_remaining THEN len ELSE t.length_remaining
        user   == t.type = "USERMODE"
        status == IF user THEN ValidateCopy(t.address, amount, t.direction = "READ")
                  ELSE OK
    IN IF amount = 0 \/ status # OK
       THEN [tr |-> t, res |-> IF amount = 0 THEN OK ELSE status, span |-> {}]
       ELSE [tr |-> [t EXCEPT !.length_remaining = @ - amount,
                              !.offset = @ + amount,
                              !.address = AddSize(@, amount)],
             res |-> OK,
             span |-> IF user THEN Span(t.address, amount) ELSE {}]

\* PerformTransfer(trusted, tr, len).  A TRANSFER_READ writes to the
\* user (CopyOutOfKernel validates for write); a TRANSFER_WRITE reads
\* from the user.  Intra-kernel transfers skip validation.
PerformTransferAdvanceFirst(len) ==
    LET amount == IF len < tr.length_remaining THEN len ELSE tr.length_remaining
        user   == tr.type = "USERMODE"
        status == IF user THEN ValidateCopy(tr.address, amount, tr.direction = "READ")
                  ELSE OK
    IN /\ calls < MaxCalls
       /\ calls' = calls + 1
       /\ IF amount = 0
          THEN /\ res' = OK /\ UNCHANGED <<tr, touched>>
          ELSE /\ res' = status
               /\ tr' = [tr EXCEPT !.length_remaining = @ - amount,
                                   !.offset = @ + amount,
                                   !.address = AddSize(@, amount)]
               /\ touched' = IF user /\ status = OK
                             THEN touched \cup Span(tr.address, amount) ELSE touched
       /\ UNCHANGED <<perms, start>>

PerformTransferNoAddressAdvance(len) ==
    LET amount == IF len < tr.length_remaining THEN len ELSE tr.length_remaining
        user   == tr.type = "USERMODE"
        status == IF user THEN ValidateCopy(tr.address, amount, tr.direction = "READ")
                  ELSE OK
    IN /\ calls < MaxCalls
       /\ calls' = calls + 1
       /\ IF amount = 0 \/ status # OK
          THEN /\ res' = IF amount = 0 THEN OK ELSE status
               /\ UNCHANGED <<tr, touched>>
          ELSE /\ res' = OK
               /\ tr' = [tr EXCEPT !.length_remaining = @ - amount,
                                   !.offset = @ + amount]
               /\ touched' = IF user THEN touched \cup Span(tr.address, amount)
                             ELSE touched
       /\ UNCHANGED <<perms, start>>

PerformTransferNoMin(len) ==
    LET amount == len
        user   == tr.type = "USERMODE"
        status == IF user THEN ValidateCopy(tr.address, amount, tr.direction = "READ")
                  ELSE OK
    IN /\ calls < MaxCalls
       /\ calls' = calls + 1
       /\ IF amount = 0 \/ status # OK
          THEN /\ res' = IF amount = 0 THEN OK ELSE status
               /\ UNCHANGED <<tr, touched>>
          ELSE /\ res' = OK
               /\ tr' = [tr EXCEPT !.length_remaining = @ - amount,
                                   !.offset = @ + amount,
                                   !.address = AddSize(@, amount)]
               /\ touched' = IF user THEN touched \cup Span(tr.address, amount)
                             ELSE touched
       /\ UNCHANGED <<perms, start>>

PerformTransfer(len) ==
    LET r == Perform(tr, len)
    IN /\ calls < MaxCalls
       /\ calls' = calls + 1
       /\ res' = r.res
       /\ tr' = r.tr
       /\ touched' = touched \cup r.span
       /\ UNCHANGED <<perms, start>>

Next == \E len \in 0 .. MaxLen : PerformTransfer(len)

Spec == Init /\ [][Next]_vars

-----------------------------------------------------------------------------
(* Properties                                                               *)

TypeOK == /\ tr.address \in Addrs
          /\ tr.length_remaining \in 0 .. MaxLen
          /\ tr.offset \in 0 .. MaxLen
          /\ touched \subseteq Addrs
          /\ calls \in 0 .. MaxCalls
          /\ res \in {OK, EINVAL}

Moved == start.length_remaining - tr.length_remaining

\* Every user byte PerformTransfer has copied lies inside the user area,
\* however the buffer's end wraps around the top of size_t: the range
\* tests of ValidateCopy (lines 14-22) are what stand between a user
\* pointer and kernel memory.
RangeRespected == \A a \in touched : UserBase <= a /\ a < UserLimit

\* Over any number of calls on one cursor, the user bytes copied are
\* exactly the bytes the cursor has passed over, from the address the
\* transfer was created with, and offset counts them (lines 111-113).
CopiedIsCursorSpan ==
    /\ tr.offset = Moved
    /\ tr.address = AddSize(start.address, Moved)
    /\ start.type = "USERMODE" => touched = Span(start.address, Moved)

\* Spec 7: a call that fails changes neither the cursor nor any user byte.
FailureChangesNothing ==
    [][res' = EINVAL => UNCHANGED <<tr, touched>>]_vars

\* Spec property 1: a user-mode copy succeeds only if every page of the
\* buffer carries the permissions of the direction: READ and USER, and
\* WRITE without EXEC when the kernel writes to the user.
UserCopyRespectsPermissions ==
    \A a \in touched : PageAllows(a \div PageSize, start.direction = "READ")

=============================================================================
