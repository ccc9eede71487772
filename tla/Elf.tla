--------------------------------- MODULE Elf ---------------------------------
(***************************************************************************)
(* The ELF loader of kernel/arch/x86/elf/elf.c: ArchLoadSymbols publishes  *)
(* the kernel's own symbols to the symbol registry at boot, and            *)
(* ArchLoadDriver loads a relocatable driver: it validates the header,     *)
(* sizes the image, maps it at a relocation point, copies the PT_LOAD      *)
(* segments, applies the .rel.dyn relocations (resolving undefined symbols *)
(* through the registry) and locks the pages of .lockedtext/.lockeddata.   *)
(*                                                                          *)
(* Both run to completion on one thread at IRQL_STANDARD, so each is one   *)
(* step; their loops are folds.  size_t is AddrBits wide and every address *)
(* computation is modulo 2^AddrBits.  Memory is a function from addresses  *)
(* to size_t values: each address holds one word, so a relocation patches  *)
(* one cell.  Section names stand for what ElfLookupString finds in the    *)
(* section-header string table.  The R_386 formulas (DO_386 macros),     *)
(* MapVirt, LockVirt and the registry are not under src/ and follow spec  *)
(* 4.7 and 6.                                                               *)
(***************************************************************************)
EXTENDS Naturals, Sequences, SequencesExt

CONSTANTS AddrBits,    \* width of size_t
          PageSize,    \* ARCH_PAGE_SIZE
          Base,        \* the canonical base 0xD0000000
          RelocPoints, \* page-aligned addresses MapVirt may return
          Junk,        \* what an unset *relocation_point may hold
          FileData,    \* the bytes of the driver file: offset -> value
          Images,      \* driver images: header, program and section headers, symbols
          KernelSyms,  \* candidate .symtab contents of the kernel image
          Adjust,      \* the adjust argument of ArchLoadSymbols
          Names        \* symbol names

Word  == 2 ^ AddrBits
Addrs == 0 .. Word - 1
Sz(x) == x % Word          \* size_t arithmetic

\* x & ~(ARCH_PAGE_SIZE - 1)
PageDown(x) == x - (x % PageSize)

OK     == "OK"               \* 0
EINVAL == "EINVAL"
EIO    == "EIO"            \* what a failing GetFileSize returns

VARIABLES phase,     \* "boot", "ready" (symbols loaded), "done", "panicked"
          img,       \* the driver file being loaded
          ksyms,     \* the kernel's .symtab
          registry,  \* the symbol registry: name -> address, 0 if absent
          mem,       \* kernel memory: address -> size_t
          mapped,    \* addresses of the image region MapVirt gave
          locked,    \* pages LockVirt has locked
          rp,        \* *relocation_point
          res        \* what ArchLoadDriver returned

vars == <<phase, img, ksyms, registry, mem, mapped, locked, rp, res>>

Init == /\ phase = "boot"
        /\ img \in Images
        /\ ksyms \in KernelSyms
        /\ registry = [n \in Names |-> 0]
        /\ mem = [a \in Addrs |-> 0]
        /\ mapped = {}
        /\ locked = {}
        /\ rp \in Junk
        /\ res = "none"

-----------------------------------------------------------------------------
(* ArchLoadSymbols: register every symbol with a non-zero value whose     *)
(* visibility is neither hidden nor internal, at st_value + adjust.  A     *)
(* kernel image with no symbol table is a PANIC_BAD_KERNEL.                *)
\* Mutant: the visibility test of st_other dropped.
AddSymbolsAnyVisibility(reg, syms) ==
    FoldLeft(LAMBDA r, s : IF s.value = 0 THEN r
                           ELSE [r EXCEPT ![s.name] = Sz(s.value + Adjust)],
             reg, syms)

AddSymbols(reg, syms) ==
    FoldLeft(LAMBDA r, s : IF s.value = 0 \/ s.other % 4 # 0 THEN r
                           ELSE [r EXCEPT ![s.name] = Sz(s.value + Adjust)],
             reg, syms)

ArchLoadSymbols ==
    /\ phase = "boot"
    /\ IF ksyms = << >>
       THEN phase' = "panicked" /\ UNCHANGED registry
       ELSE phase' = "ready" /\ registry' = AddSymbols(registry, ksyms)
    /\ UNCHANGED <<img, ksyms, mem, mapped, locked, rp, res>>

-----------------------------------------------------------------------------
IsElfValid(i) == i.magic

\* The name ElfLookupString finds for section s.
ElfLookupString(s) == s.name

\* Mutant: the image sized by p_filesz alone, without the bss.
ElfGetSizeOfImageNoBss(i) ==
    LET total == FoldLeft(LAMBDA t, ph :
                     LET e == Sz(Sz(ph.vaddr - Base) + ph.filesz)
                     IN IF ph.type = "LOAD" /\ e >= t THEN e ELSE t,
                 0, i.phdrs)
    IN PageDown(Sz(total + PageSize - 1))

\* The furthest end of a PT_LOAD segment from the canonical base, rounded
\* up to a page.
ElfGetSizeOfImageIncludingBss(i) ==
    LET total == FoldLeft(LAMBDA t, ph :
                     LET e == Sz(Sz(ph.vaddr - Base) + ph.filesz + Sz(ph.memsz - ph.filesz))
                     IN IF ph.type = "LOAD" /\ e >= t THEN e ELSE t,
                 0, i.phdrs)
    IN PageDown(Sz(total + PageSize - 1))

\* memcpy of filesz bytes from the file, then memset of the rest of memsz.
LoadSegment(m, ph, r) ==
    IF ph.type # "LOAD" THEN m
    ELSE LET dst == Sz(ph.vaddr + r - Base)
         IN [a \in Addrs |->
                LET d == Sz(a - dst)
                IN IF d < ph.filesz THEN FileData[ph.offset + d]
                   ELSE IF d < ph.filesz + Sz(ph.memsz - ph.filesz) THEN 0
                   ELSE m[a]]

ElfLoadProgramHeaders(m, i, r) ==
    FoldLeft(LAMBDA mm, ph : LoadSegment(mm, ph, r), m, i.phdrs)

\* ElfGetSymbolValue: the value and the error flag.  Index 0 of the table
\* is the null symbol, so the table has Len(syms) + 1 entries.
ElfGetSymbolValue(i, index, r) ==
    IF index >= Len(i.syms) + 1 THEN [val |-> 0, error |-> TRUE]
    ELSE LET s == i.syms[index]
         IN CASE s.shndx = "UNDEF" ->
                   IF registry[s.name] = 0 THEN [val |-> 0, error |-> ~s.weak]
                   ELSE [val |-> registry[s.name], error |-> FALSE]
              [] s.shndx = "ABS" -> [val |-> s.value, error |-> FALSE]
              [] OTHER -> [val |-> Sz(s.value + r - Base), error |-> FALSE]

\* Mutant: R_386_PC32 treated as R_386_32, the place not subtracted.
ElfPerformRelocationPcAbsolute(i, m, r, rel) ==
    LET addr == Sz(r - Base + rel.offset)
        sym  == IF rel.sym # 0 THEN ElfGetSymbolValue(i, rel.sym, r)
                ELSE [val |-> 0, error |-> FALSE]
        new  == CASE rel.type = "32"       -> Sz(sym.val + m[addr])
                  [] rel.type = "PC32"     -> Sz(sym.val + m[addr])
                  [] rel.type = "RELATIVE" -> Sz(r - Base + m[addr])
                  [] OTHER                 -> 0
    IN IF sym.error \/ rel.type \notin {"32", "PC32", "RELATIVE"}
       THEN [mem |-> m, ok |-> FALSE]
       ELSE [mem |-> [m EXCEPT ![addr] = new], ok |-> TRUE]

\* ElfPerformRelocation: patch the word at r - base + r_offset.
ElfPerformRelocation(i, m, r, rel) ==
    LET addr == Sz(r - Base + rel.offset)
        sym  == IF rel.sym # 0 THEN ElfGetSymbolValue(i, rel.sym, r)
                ELSE [val |-> 0, error |-> FALSE]
        new  == CASE rel.type = "32"       -> Sz(sym.val + m[addr])
                  [] rel.type = "PC32"     -> Sz(sym.val + m[addr] - addr)
                  [] rel.type = "RELATIVE" -> Sz(r - Base + m[addr])
                  [] OTHER                 -> 0
    IN IF sym.error \/ rel.type \notin {"32", "PC32", "RELATIVE"}
       THEN [mem |-> m, ok |-> FALSE]
       ELSE [mem |-> [m EXCEPT ![addr] = new], ok |-> TRUE]

\* ElfPerformRelocations: every entry of every SHT_REL section named
\* .rel.dyn, stopping at the first failure; any SHT_RELA fails the load.
ElfPerformRelocations(i, m, r) ==
    LET entry(st, rel) == IF ~st.ok THEN st ELSE ElfPerformRelocation(i, st.mem, r, rel)
        section(st, s) ==
            CASE ~st.ok -> st
              [] s.type = "REL" /\ ElfLookupString(s) = ".rel.dyn" ->
                    FoldLeft(entry, st, s.rels)
              [] s.type = "RELA" -> [st EXCEPT !.ok = FALSE]
              [] OTHER -> st
    IN FoldLeft(section, [mem |-> m, ok |-> TRUE], i.shdrs)

\* ElfLoad with relocate = true, given the region MapVirt returns.
ElfLoad(i, m, r) ==
    IF ~IsElfValid(i) \/ i.shdrs = << >> \/ i.phdrs = << >>
    THEN [res |-> EINVAL, mem |-> m, mapped |-> {}, set |-> FALSE]
    ELSE LET size == ElfGetSizeOfImageIncludingBss(i)
             rel  == ElfPerformRelocations(i, ElfLoadProgramHeaders(m, i, r), r)
         IN [res |-> IF rel.ok THEN OK ELSE EINVAL, mem |-> rel.mem,
             mapped |-> {Sz(r + k) : k \in 0 .. size - 1}, set |-> TRUE]

\* The lock loop of lines 281-294: from the page of the section's first
\* byte, (sh_size + PAGE - 1) / PAGE pages.
LockSections(i, r) ==
    UNION {LET start == PageDown(Sz(s.addr - Base + r))
           IN {Sz(start + k * PageSize) \div PageSize :
                  k \in 0 .. (s.size + PageSize - 1) \div PageSize - 1} :
           s \in {s \in ToSet(i.shdrs) :
                     ElfLookupString(s) \in {".lockedtext", ".lockeddata"}}}

\* ArchLoadDriver: GetFileSize, ElfLoad, then the lock loop whatever
\* ElfLoad returned, with *relocation_point as ElfLoad left it.
ArchLoadDriver ==
    /\ phase = "ready"
    /\ phase' = "done"
    /\ \/ /\ res' = EIO
          /\ UNCHANGED <<mem, mapped, locked, rp>>
       \/ \E r \in RelocPoints :
             LET l  == ElfLoad(img, mem, r)
                 r2 == IF l.set THEN r ELSE rp
             IN /\ res' = l.res
                /\ mem' = l.mem
                /\ mapped' = l.mapped
                /\ rp' = r2
                /\ locked' = locked \cup LockSections(img, r2)
    /\ UNCHANGED <<img, ksyms, registry>>

Next == ArchLoadSymbols \/ ArchLoadDriver

Spec == Init /\ [][Next]_vars

-----------------------------------------------------------------------------
(* Properties                                                               *)

Loads(i) == {ph \in ToSet(i.phdrs) : ph.type = "LOAD"}

\* The relocations spec 4.7 step 4 applies: those of the SHT_REL sections
\* named .rel.dyn, in order.
RelDyn(i) == FlattenSeq([k \in DOMAIN i.shdrs |->
                 IF i.shdrs[k].type = "REL" /\ i.shdrs[k].name = ".rel.dyn"
                 THEN i.shdrs[k].rels ELSE << >>])

\* The address the kernel's .symtab gives a name, as spec 4.7 "Symbol
\* ingestion" registers it, or 0.
KernelAddr(n) ==
    LET c == {s \in ToSet(ksyms) : s.name = n /\ s.value # 0 /\ s.other % 4 = 0}
    IN IF c = {} THEN 0 ELSE Sz((CHOOSE s \in c : TRUE).value + Adjust)

\* Spec 4.7 symbol resolution for the symbol of relocation rel.
Resolves(i, rel) ==
    \/ rel.sym = 0
    \/ /\ rel.sym <= Len(i.syms)
       /\ i.syms[rel.sym].shndx = "UNDEF" => KernelAddr(i.syms[rel.sym].name) # 0
                                            \/ i.syms[rel.sym].weak
SymVal(i, rel) ==
    IF rel.sym = 0 THEN 0
    ELSE LET s == i.syms[rel.sym]
         IN CASE s.shndx = "UNDEF" -> KernelAddr(s.name)
              [] s.shndx = "ABS"   -> s.value
              [] OTHER             -> Sz(s.value + rp - Base)

\* A driver spec 4.7 accepts: valid magic, both header tables present, no
\* SHT_RELA section, and every .rel.dyn entry of a supported type with a
\* symbol that resolves (or is weak).
Acceptable(i) ==
    /\ IsElfValid(i) /\ i.shdrs # << >> /\ i.phdrs # << >>
    /\ \A k \in DOMAIN i.shdrs : i.shdrs[k].type # "RELA"
    /\ \A rel \in ToSet(RelDyn(i)) :
          Resolves(i, rel) /\ rel.type \in {"32", "PC32", "RELATIVE"}

\* ArchLoadDriver succeeds exactly when spec 4.7 accepts the driver: the
\* early returns of ElfLoad and ElfPerformRelocations, the .rel.dyn name
\* test, the weak-binding rule and the symbols ArchLoadSymbols published
\* (hidden, internal and zero-valued ones left out) all bear on it.
LoadOutcome ==
    (phase = "done" /\ res # EIO) => (res = OK <=> Acceptable(img))

\* Every byte of every PT_LOAD segment, its zeroed bss included, lies in
\* the region MapVirt gave for the size ElfGetSizeOfImageIncludingBss
\* computed.
ImageWithinMapping ==
    (phase = "done" /\ res = OK) =>
        \A ph \in Loads(img) : \A k \in 0 .. ph.memsz - 1 :
            Sz(rp + ph.vaddr - Base + k) \in mapped

\* The contents spec 4.7 steps 3 and 4 give to address a: the file byte a
\* segment copies there, else 0 (bss, or fresh memory).
Loaded(a) ==
    LET at(ph) == Sz(a - Sz(ph.vaddr + rp - Base))
        src    == {ph \in Loads(img) : at(ph) < ph.filesz}
    IN IF src = {} THEN 0
       ELSE LET ph == CHOOSE ph \in src : TRUE IN FileData[ph.offset + at(ph)]

Target(rel) == Sz(rp - Base + rel.offset)

Delta(rel, a) == CASE rel.type = "32"   -> SymVal(img, rel)
                   [] rel.type = "PC32" -> SymVal(img, rel) - a
                   [] OTHER             -> rp - Base

\* Spec property 9: after a successful load every word equals what the
\* loader copied there plus the sum of the R_386_* adjustments of every
\* .rel.dyn entry that targets it, in whatever order they were applied.
RelocationsAreSums ==
    (phase = "done" /\ res = OK) =>
        \A a \in Addrs :
            mem[a] = Sz(Loaded(a) + FoldLeft(LAMBDA acc, rel :
                                        IF Target(rel) = a THEN acc + Delta(rel, a) ELSE acc,
                                    0, RelDyn(img)))

\* Spec 4.7 step 5: after a successful load every page a .lockedtext or
\* .lockeddata section covers is locked ("under-locking is not").
LockedPagesCoverSections ==
    (phase = "done" /\ res = OK) =>
        \A s \in ToSet(img.shdrs) :
            s.name \in {".lockedtext", ".lockeddata"} =>
                \A k \in 0 .. s.size - 1 : Sz(rp + s.addr - Base + k) \div PageSize \in locked

=============================================================================
