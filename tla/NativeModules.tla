--------------------------- MODULE NativeModules ---------------------------
(***************************************************************************)
(* How an address of the target becomes an address of a file, and back:    *)
(* UserUnwinder::new of src/unwind.rs reads /proc/pid/maps once and gives  *)
(* framehop a module per file and load bias; src/syms.rs turns a symbol's  *)
(* address into the file offset of a uprobe. The target loads and unloads  *)
(* files before and after that, and a file's path may come to hold another *)
(* file while the target runs the old one.                                 *)
(*                                                                         *)
(* A result that may be missing (Option, `?`) is a set of at most one      *)
(* element. A file stands for its path, device and inode (FileId); maps    *)
(* lines that are no file give no module and are left out. What a path     *)
(* holds that does not parse, or is for another machine, gives none either *)
(* and is a layout without segments or unwind data.                        *)
(***************************************************************************)
EXTENDS Naturals, Sequences, FiniteSetsExt

CONSTANTS
  Files,     \* files the target may map
  PageSize,
  AddrMax,   \* 2^64 - 1
  Elfs,      \* layouts of files that can be loaded
  Damaged,   \* layouts that only a path's new file may have
  Biases,    \* where the loader may put a position independent file
  MaxImages  \* bound: files loaded at once

Segment == [offset : 0 .. AddrMax, vaddr : 0 .. AddrMax, memsz : 0 .. AddrMax, executable : BOOLEAN]

Elf == [segments : Seq(Segment), cfi : BOOLEAN, pie : BOOLEAN]

(* The last page ends at the last address. What is mapped as code has a    *)
(* segment that is, and segments with nothing in them are not loaded.      *)
ASSUME NativeModulesAssumption ==
  /\ PageSize \in Nat \ {0}
  /\ AddrMax \in Nat /\ (AddrMax + 1) % PageSize = 0
  /\ Elfs \cup Damaged \subseteq Elf
  /\ \A e \in Elfs : /\ \A n \in DOMAIN e.segments : e.segments[n].memsz > 0
                     /\ \E n \in DOMAIN e.segments : e.segments[n].executable
  /\ \A b \in Biases : b \in Nat /\ b % PageSize = 0
  /\ MaxImages \in Nat

VARIABLES
  elf,     \* elf[f]: the layout of file f; it does not change
  disk,    \* disk[f]: what the path of f holds now
  images,  \* the target's loaded files and their biases
  built,   \* UserUnwinder::new has run
  modules, \* the modules it gave framehop
  seen     \* history: the images new saw, and which files it read right

vars == <<elf, disk, images, built, modules, seen>>

Gone == [segments |-> <<>>, cfi |-> FALSE, pie |-> FALSE]

Image == [file : Files, bias : Nat]

Module == [file : Files, bias : Nat, start : Nat, end : Nat]

TypeOK ==
  /\ elf \in [Files -> Elfs]
  /\ disk \in [Files -> Elfs \cup Damaged \cup {Gone}]
  /\ images \subseteq Image
  /\ built \in BOOLEAN
  /\ modules \subseteq Module
  /\ \A m \in modules : m.start < m.end /\ m.end <= AddrMax
  /\ seen.images \subseteq Image /\ seen.files \subseteq Files

-----------------------------------------------------------------------------
unchecked_add(a, b) == {a + b}

checked_add(a, b) == IF a + b <= AddrMax THEN {a + b} ELSE {}

checked_sub(a, b) == IF b <= a THEN {a - b} ELSE {}

align_down(v) == (v \div PageSize) * PageSize

align_up(v) == {align_down(x) : x \in checked_add(v, PageSize - 1)}

Segments(e) == {e.segments[i] : i \in DOMAIN e.segments}

(* The loader and the kernel: the pages a segment of an image takes, and   *)
(* the pages an image takes.                                               *)
Mapping(i, seg) ==
  [file |-> i.file,
   start |-> i.bias + align_down(seg.vaddr),
   end |-> i.bias + align_down(seg.vaddr + seg.memsz + PageSize - 1),
   offset |-> align_down(seg.offset)]

Pages(i) == {Mapping(i, seg) : seg \in Segments(elf[i.file])}

Hull(i) == [start |-> Min({m.start : m \in Pages(i)}), end |-> Max({m.end : m \in Pages(i)})]

Code(i) == {Mapping(i, seg) : seg \in {s \in Segments(elf[i.file]) : s.executable}}

-----------------------------------------------------------------------------
(* read_mapped_file: the path, in the target's root or in ours; only when  *)
(* neither can be read, the mapped file itself.                            *)
read_mapped_file(f) == IF disk[f] = Gone THEN elf[f] ELSE disk[f]

load_bias_for_segment(m, seg) ==
  IF align_down(seg.offset) = m.offset THEN checked_sub(m.start, align_down(seg.vaddr)) ELSE {}

load_bias_by_offset(m, e) == checked_sub(m.start, m.offset)

load_bias_for_mapping(m, e) ==
  LET hits == {n \in DOMAIN e.segments : load_bias_for_segment(m, e.segments[n]) # {}}
  IN IF hits = {} THEN {} ELSE load_bias_for_segment(m, e.segments[Min(hits)])

(* From the first page of a segment to the last; missing when any address  *)
(* on the way does not fit 64 bits.                                        *)
module_avma_range_unaligned(bias, e) ==
  {[start |-> bias + Min({s.vaddr : s \in Segments(e)}), end |-> end] :
     end \in checked_add(bias, Max({s.vaddr + s.memsz : s \in Segments(e)}))}

segment_end(s) == UNION {align_up(x) : x \in checked_add(s.vaddr, s.memsz)}

module_avma_range(bias, e) ==
  LET start == Min({align_down(s.vaddr) : s \in Segments(e)})
      end == Max(UNION {segment_end(s) : s \in Segments(e)})
  IN IF Segments(e) = {} \/ (\E s \in Segments(e) : segment_end(s) = {}) \/ start >= end THEN {}
     ELSE UNION {{[start |-> a, end |-> b] : b \in checked_add(bias, end)} : a \in checked_add(bias, start)}

ModulesOf(f) ==
  LET e == read_mapped_file(f)
      mappings == UNION {Code(i) : i \in {j \in images : j.file = f}}
      load_biases == UNION {load_bias_for_mapping(m, e) : m \in mappings}
  IN IF ~e.cfi THEN {}
     ELSE UNION {{[file |-> f, bias |-> b, start |-> r.start, end |-> r.end] :
                    r \in module_avma_range(b, e)} : b \in load_biases}

(* vaddr_to_file_offset: through the first executable segment around it.   *)
vaddr_to_file_offset_raw(e, vaddr) == {vaddr}

vaddr_to_file_offset(e, vaddr) ==
  LET Around(s) == s.executable /\ s.vaddr <= vaddr /\ vaddr < Min({s.vaddr + s.memsz, AddrMax})
      hits == {n \in DOMAIN e.segments : Around(e.segments[n])}
      seg == e.segments[Min(hits)]
  IN IF hits = {} THEN {} ELSE {vaddr - seg.vaddr + seg.offset}

-----------------------------------------------------------------------------
Init ==
  /\ elf \in [Files -> Elfs]
  /\ disk = elf
  /\ images = {}
  /\ built = FALSE
  /\ modules = {}
  /\ seen = [images |-> {}, files |-> {}]

(* exec or dlopen: a file goes where nothing else is.                      *)
Load(f, b) ==
  LET i == [file |-> f, bias |-> b]
  IN /\ Cardinality(images) < MaxImages /\ i \notin images
     /\ elf[f].pie \/ b = 0
     /\ Hull(i).end <= AddrMax
     /\ \A j \in images : Hull(j).end <= Hull(i).start \/ Hull(i).end <= Hull(j).start
     /\ images' = images \cup {i}
     /\ UNCHANGED <<elf, disk, built, modules, seen>>

Unload(i) ==
  /\ images' = images \ {i}
  /\ UNCHANGED <<elf, disk, built, modules, seen>>

(* The file is deleted, upgraded, or another one where the profiler looks. *)
(* After new nobody looks.                                                 *)
Replace(f, e) ==
  /\ ~built
  /\ disk' = [disk EXCEPT ![f] = e]
  /\ UNCHANGED <<elf, images, built, modules, seen>>

New ==
  /\ ~built
  /\ built' = TRUE
  /\ modules' = UNION {ModulesOf(f) : f \in Files}
  /\ seen' = [images |-> images, files |-> {f \in Files : read_mapped_file(f) = elf[f]}]
  /\ UNCHANGED <<elf, disk, images>>

Next ==
  \/ \E f \in Files, b \in Biases : Load(f, b)
  \/ \E i \in images : Unload(i)
  \/ \E f \in Files, e \in Elfs \cup Damaged \cup {Gone} : Replace(f, e)
  \/ New

Spec == Init /\ [][Next]_vars

-----------------------------------------------------------------------------
(* An executable segment of e starts in the page of the file in which an   *)
(* earlier segment starts, which is loaded elsewhere.                      *)
SharesPage(e) ==
  \E n \in DOMAIN e.segments : \E k \in 1 .. n - 1 :
    /\ e.segments[n].executable
    /\ align_down(e.segments[k].offset) = align_down(e.segments[n].offset)
    /\ align_down(e.segments[k].vaddr) # align_down(e.segments[n].vaddr)

(* Files whose modules new can get right.                                  *)
Sound(f) == f \in seen.files /\ ~SharesPage(elf[f])

ModuleFor(i) == [file |-> i.file, bias |-> i.bias, start |-> Hull(i).start, end |-> Hull(i).end]

(* unwind.rs:85-111: every image with unwind data has its one module, with *)
(* the bias it was loaded at and all of its pages, and a file has no other *)
(* module, however often it is mapped and wherever its segments are. Not   *)
(* so for a file that was read in another version than is mapped, or whose *)
(* code shares a page of the file.                                         *)
ModulesExact ==
  built => \A f \in Files : Sound(f) =>
    {m \in modules : m.file = f} = {ModuleFor(i) : i \in {j \in seen.images : j.file = f /\ elf[f].cfi}}

Overlap(c, m) == c.start < m.end /\ m.start < c.end

(* main.rs:171-177, unwind.rs:52-120: new runs once, and files are loaded  *)
(* and unloaded after it. Of the modules of sound files, code of an image  *)
(* that new saw falls into its own and code that was loaded later into     *)
(* none of its own, and either also into those of the images that new saw, *)
(* that are gone since and whose pages it now has: it is unwound with      *)
(* their data.                                                             *)
LookupExact ==
  built => \A i \in images : \A c \in Code(i) :
    LET known == {j \in seen.images : Sound(j.file) /\ elf[j.file].cfi}
    IN {m \in modules : Sound(m.file) /\ Overlap(c, m)} =
         {ModuleFor(j) : j \in known \cap {i}}
           \cup {ModuleFor(j) : j \in {k \in known \ images : Overlap(c, ModuleFor(k))}}

(* Whether code of e has one address: an executable segment is as far into *)
(* its page in the file as in memory, and two of them put the bytes of the *)
(* file that both show in one place.                                       *)
Shown(seg) ==
  LET length == align_down(seg.vaddr + seg.memsz + PageSize - 1) - align_down(seg.vaddr)
  IN align_down(seg.offset) .. align_down(seg.offset) + length - 1

OneAddress(e) ==
  \A s, t \in {x \in Segments(e) : x.executable} :
    /\ s.offset % PageSize = s.vaddr % PageSize
    /\ s.vaddr + t.offset = t.vaddr + s.offset \/ Shown(s) \cap Shown(t) = {}

(* Where the kernel puts the breakpoints of a uprobe at a symbol's file    *)
(* offset: wherever a mapping of code shows that offset.                   *)
Breakpoints(i, vaddr) ==
  UNION {{m.start + (o - m.offset) : o \in {p \in vaddr_to_file_offset(elf[i.file], vaddr) :
             m.offset <= p /\ p < m.offset + (m.end - m.start)}} : m \in Code(i)}

(* syms.rs:76-93: a uprobe is on its symbol and nowhere else, in every     *)
(* image of the library whose code has one address.                        *)
ProbeExact ==
  \A i \in images : OneAddress(elf[i.file]) =>
    \A s \in {x \in Segments(elf[i.file]) : x.executable} :
      \A vaddr \in s.vaddr .. s.vaddr + s.memsz - 1 : Breakpoints(i, vaddr) = {i.bias + vaddr}
=============================================================================
