-------------------------------- MODULE MCElf --------------------------------
EXTENDS Elf

(* A 6-bit address space of sixteen 4-word pages.  Drivers are linked at  *)
(* Base 48 and MapVirt places them at 8 or 20, so the load delta is       *)
(* 24 or 36 and every patched word wraps somewhere.                        *)
MCFileData == [o \in 0 .. 5 |-> o + 1]

(* The driver's own symbols: index 1 a strong undefined symbol, 2 a weak   *)
(* undefined one, 3 an absolute one, 4 one defined in the image.  A       *)
(* relocation may name index 0 (no symbol) or 5 (past the table).          *)
MCSyms == << [shndx |-> "UNDEF", name |-> "f", weak |-> FALSE, value |-> 0],
             [shndx |-> "UNDEF", name |-> "g", weak |-> TRUE,  value |-> 0],
             [shndx |-> "ABS",   name |-> "a", weak |-> FALSE, value |-> 9],
             [shndx |-> "DEF",   name |-> "d", weak |-> FALSE, value |-> 50] >>

Load(v, o, f, m) == [type |-> "LOAD", vaddr |-> v, offset |-> o, filesz |-> f, memsz |-> m]

(* One segment with two words of bss; or two segments, the second starting *)
(* mid-page, around a non-loadable header; or no program headers.          *)
MCPhdrs == { << Load(48, 0, 3, 5) >>,
             << Load(48, 0, 2, 2), [type |-> "NOTE", vaddr |-> 0, offset |-> 0, filesz |-> 0, memsz |-> 0],
                Load(54, 2, 2, 3) >>,
             << >> }

Rel(o, s, t) == [offset |-> o, sym |-> s, type |-> t]

(* Every single relocation at offset 1 or 6, and two pairs that patch the  *)
(* same word twice.                                                         *)
MCRelTables == {<< Rel(o, s, t) >> : o \in {1, 6}, s \in 0 .. 5,
                                    t \in {"32", "PC32", "RELATIVE", "GOT32"}}
               \cup { << Rel(1, 2, "32"), Rel(1, 0, "RELATIVE") >>,
                      << Rel(6, 4, "PC32"), Rel(6, 3, "32") >> }

Sect(t, n, a, z, r) == [type |-> t, name |-> n, addr |-> a, size |-> z, rels |-> r]

(* A .text section, the .rel.dyn section, then perhaps a REL section of   *)
(* another name holding an unsupported entry, or an SHT_RELA section, and *)
(* perhaps a section to lock: page-aligned, or starting mid-page.          *)
MCShdrs == { << >> } \cup
    { << Sect("PROGBITS", ".text", 48, 3, << >>), Sect("REL", ".rel.dyn", 0, 0, r) >> \o x \o l :
        r \in MCRelTables,
        x \in { << >>, << Sect("REL", ".rel.plt", 0, 0, << Rel(1, 0, "GOT32") >>) >>,
                << Sect("RELA", ".rela.dyn", 0, 0, << >>) >> },
        l \in { << >>, << Sect("PROGBITS", ".lockedtext", 48, 4, << >>) >>,
                << Sect("PROGBITS", ".lockedtext", 50, 4, << >>) >>,
                << Sect("PROGBITS", ".lockeddata", 54, 3, << >>) >> } }

MCImages == {[magic |-> TRUE, phdrs |-> p, shdrs |-> s, syms |-> MCSyms] :
                p \in MCPhdrs, s \in MCShdrs}
            \cup {[magic |-> FALSE, phdrs |-> p, shdrs |-> s, syms |-> MCSyms] :
                p \in MCPhdrs, s \in {<< >>, << Sect("PROGBITS", ".lockedtext", 48, 4, << >>) >>}}

KSym(n, v, o) == [name |-> n, value |-> v, other |-> o]

(* The kernel exports f and g; or f is hidden; or g has no value; or the  *)
(* kernel image has no symbol table.                                        *)
MCKernelSyms == { << KSym("f", 12, 0), KSym("g", 14, 0) >>,
                  << KSym("f", 12, 2), KSym("g", 14, 0) >>,
                  << KSym("f", 12, 0), KSym("g", 0, 0) >>,
                  << >> }

MCNames == {"f", "g", "a", "d"}

=============================================================================
