------------------------- MODULE NativeModulesProofs -------------------------
(***************************************************************************)
(* Proofs about NativeModules, for any files, page size, width of an       *)
(* address and layouts: no module wraps, whatever a file says; the modules *)
(* of sound files are exact; which of them code falls into, also when it   *)
(* was loaded later; and uprobes are on their symbols.                     *)
(***************************************************************************)
EXTENDS NativeModules, HelperProofs

-----------------------------------------------------------------------------
(* Pages.                                                                  *)
LEMMA AlignDown ==
  ASSUME NEW v \in Nat
  PROVE  /\ align_down(v) \in Nat
         /\ align_down(v) <= v
         /\ v < align_down(v) + PageSize
         /\ align_down(v) <= AddrMax => v <= AddrMax
<1>1. PageSize \in Nat \ {0} /\ AddrMax \in Nat /\ (AddrMax + 1) % PageSize = 0
  BY NativeModulesAssumption
<1> DEFINE q == v \div PageSize
           p == (AddrMax + 1) \div PageSize
<1>2. q \in Nat /\ v = q * PageSize + (v % PageSize) /\ v % PageSize \in 0 .. PageSize - 1
  BY <1>1
<1>3. p \in Nat /\ AddrMax + 1 = p * PageSize
  BY <1>1
<1>4. align_down(v) = q * PageSize
  BY DEF align_down
<1> HIDE DEF q, p
<1>5. q * PageSize \in Nat
  BY <1>1, <1>2
<1>6. q * PageSize < p * PageSize => q + 1 <= p /\ (q + 1) * PageSize <= p * PageSize
  BY <1>1, <1>2, <1>3
<1>7. (q + 1) * PageSize = q * PageSize + PageSize
  BY <1>1, <1>2
<1> QED BY <1>1, <1>2, <1>3, <1>4, <1>5, <1>6, <1>7

LEMMA AlignDownMonotone ==
  ASSUME NEW v \in Nat, NEW w \in Nat, v <= w
  PROVE  align_down(v) <= align_down(w)
<1>1. PageSize \in Nat \ {0}
  BY NativeModulesAssumption
<1> DEFINE q == v \div PageSize
           r == w \div PageSize
<1>2. q \in Nat /\ r \in Nat /\ align_down(v) = q * PageSize /\ align_down(w) = r * PageSize
  BY <1>1 DEF align_down
<1>3. q * PageSize <= v /\ w < r * PageSize + PageSize
  BY <1>1, <1>2, AlignDown
<1> HIDE DEF q, r
<1>4. q <= r \/ r + 1 <= q
  BY <1>2
<1>5. r + 1 <= q => (r + 1) * PageSize <= q * PageSize
  BY <1>1, <1>2
<1>6. (r + 1) * PageSize = r * PageSize + PageSize
  BY <1>1, <1>2
<1>7. q * PageSize \in Nat /\ r * PageSize \in Nat
  BY <1>1, <1>2
<1>8. q <= r => q * PageSize <= r * PageSize
  BY <1>1, <1>2
<1> QED BY <1>1, <1>2, <1>3, <1>4, <1>5, <1>6, <1>7, <1>8

LEMMA AlignUp ==
  ASSUME NEW v \in Nat
  PROVE  /\ align_up(v) \subseteq 0 .. AddrMax
         /\ align_down(v + PageSize - 1) <= AddrMax => align_up(v) = {align_down(v + PageSize - 1)}
<1>1. PageSize \in Nat \ {0} /\ AddrMax \in Nat
  BY NativeModulesAssumption
<1>2. v + PageSize - 1 \in Nat /\ v + (PageSize - 1) = v + PageSize - 1
  BY <1>1
<1> DEFINE w == v + PageSize - 1
<1>3. align_up(v) = IF w <= AddrMax THEN {align_down(w)} ELSE {}
  BY <1>2 DEF align_up, checked_add
<1>4. align_down(w) \in Nat /\ align_down(w) <= w /\ (align_down(w) <= AddrMax => w <= AddrMax)
  BY <1>2, AlignDown
<1> HIDE DEF w
<1>5. w \in Nat
  BY <1>2 DEF w
<1> QED BY <1>1, <1>3, <1>4, <1>5 DEF w

-----------------------------------------------------------------------------
(* Segments.                                                               *)
LEMMA SegmentsType ==
  ASSUME NEW e \in Elf
  PROVE  /\ e.segments \in Seq(Segment)
         /\ Segments(e) \subseteq Segment
         /\ \A s \in Segments(e) : /\ s.vaddr \in Nat /\ s.memsz \in Nat /\ s.offset \in Nat
                                   /\ s.vaddr <= AddrMax /\ s.memsz <= AddrMax
<1>1. e.segments \in Seq(Segment)
  BY DEF Elf
<1>2. Segments(e) \subseteq Segment
  BY <1>1 DEF Segments
<1>3. AddrMax \in Nat
  BY NativeModulesAssumption
<1> QED BY <1>1, <1>2, <1>3 DEF Segment

(* Where a segment's last page ends, in the file's own addresses.          *)
LastPage(s) == align_down(s.vaddr + s.memsz + PageSize - 1)

LEMMA LastPageBounds ==
  ASSUME NEW s \in Segment
  PROVE  /\ LastPage(s) \in Nat
         /\ LastPage(s) <= AddrMax + AddrMax + PageSize
         /\ s.memsz > 0 => align_down(s.vaddr) < LastPage(s)
<1>1. PageSize \in Nat \ {0} /\ AddrMax \in Nat
  BY NativeModulesAssumption
<1> DEFINE v == s.vaddr
           w == s.vaddr + s.memsz + PageSize - 1
<1>2. v \in Nat /\ w \in Nat /\ w <= AddrMax + AddrMax + PageSize
  BY <1>1 DEF Segment
<1>3. s.memsz > 0 => v + PageSize <= w
  BY <1>1, <1>2 DEF Segment
<1>4. LastPage(s) = align_down(w)
  BY DEF LastPage
<1> HIDE DEF v, w
<1>5. /\ align_down(w) \in Nat /\ align_down(w) <= w /\ w < align_down(w) + PageSize
      /\ align_down(v) \in Nat /\ align_down(v) <= v
  BY <1>2, AlignDown
<1>6. LastPage(s) \in Nat /\ LastPage(s) <= AddrMax + AddrMax + PageSize
  BY <1>1, <1>2, <1>4, <1>5
<1>7. s.memsz > 0 => align_down(v) < align_down(w)
  BY <1>1, <1>2, <1>3, <1>5
<1> QED BY <1>4, <1>6, <1>7 DEF v

LEMMA SegmentEnd ==
  ASSUME NEW s \in Segment
  PROVE  /\ segment_end(s) \subseteq 0 .. AddrMax
         /\ LastPage(s) <= AddrMax => segment_end(s) = {LastPage(s)}
<1>1. PageSize \in Nat \ {0} /\ AddrMax \in Nat
  BY NativeModulesAssumption
<1> DEFINE x == s.vaddr + s.memsz
<1>2. x \in Nat /\ x + PageSize - 1 \in Nat
  BY <1>1 DEF Segment
<1>3. segment_end(s) = IF x <= AddrMax THEN align_up(x) ELSE {}
  BY DEF segment_end, checked_add
<1>4. LastPage(s) = align_down(x + PageSize - 1)
  BY DEF LastPage
<1> HIDE DEF x
<1>5. align_up(x) \subseteq 0 .. AddrMax
  BY <1>2, AlignUp
<1>6. align_down(x + PageSize - 1) <= AddrMax =>
        /\ align_up(x) = {align_down(x + PageSize - 1)}
        /\ x + PageSize - 1 <= AddrMax
  BY <1>2, AlignUp, AlignDown
<1>7. x + PageSize - 1 <= AddrMax => x <= AddrMax
  BY <1>1, <1>2
<1> QED BY <1>3, <1>4, <1>5, <1>6, <1>7

LEMMA ModuleRange ==
  ASSUME NEW e \in Elf, NEW bias \in Nat, NEW r \in module_avma_range(bias, e)
  PROVE  r.start \in Nat /\ r.end \in Nat /\ r.start < r.end /\ r.end <= AddrMax
<1> DEFINE Starts == {align_down(s.vaddr) : s \in Segments(e)}
           AllEnds == UNION {segment_end(s) : s \in Segments(e)}
<1>1. /\ Segments(e) # {}
      /\ \A s \in Segments(e) : segment_end(s) # {}
      /\ ~(Min(Starts) >= Max(AllEnds))
      /\ r \in UNION {{[start |-> a, end |-> b] : b \in checked_add(bias, Max(AllEnds))} :
                      a \in checked_add(bias, Min(Starts))}
  <2>1. r \in IF Segments(e) = {} \/ (\E s \in Segments(e) : segment_end(s) = {})
                   \/ Min(Starts) >= Max(AllEnds)
              THEN {}
              ELSE UNION {{[start |-> a, end |-> b] : b \in checked_add(bias, Max(AllEnds))} :
                            a \in checked_add(bias, Min(Starts))}
    BY Zenon DEF module_avma_range
  <2> HIDE DEF Starts, AllEnds
  <2> QED BY <2>1
<1>2. Starts \subseteq Nat /\ Starts # {}
  BY <1>1, SegmentsType, AlignDown
<1>3. AllEnds \subseteq 0 .. AddrMax /\ AllEnds # {}
  BY <1>1, SegmentsType, SegmentEnd
<1> HIDE DEF Starts, AllEnds
<1>4. Min(Starts) \in Nat
  BY <1>2, MinExists
<1>5. Max(AllEnds) \in Nat
  <2>1. AddrMax \in Nat
    BY NativeModulesAssumption
  <2>2. AllEnds \subseteq Nat /\ \A x \in AllEnds : x <= AddrMax
    BY <1>3, <2>1
  <2> QED BY <1>3, <2>1, <2>2, MaxBounded
<1> QED BY <1>1, <1>4, <1>5 DEF checked_add

-----------------------------------------------------------------------------
(* Images.                                                                 *)
Starts(e) == {align_down(s.vaddr) : s \in Segments(e)}

LastPages(e) == {LastPage(s) : s \in Segments(e)}

LEMMA LoadableElf ==
  ASSUME NEW e \in Elfs
  PROVE  /\ e \in Elf
         /\ \A s \in Segments(e) : s.memsz > 0
         /\ \E s \in Segments(e) : s.executable
BY NativeModulesAssumption DEF Segments

(* The least and the greatest address of a file that can be loaded.        *)
LEMMA Extent ==
  ASSUME NEW e \in Elfs
  PROVE  /\ Min(Starts(e)) \in Starts(e) /\ \A x \in Starts(e) : x \in Nat /\ Min(Starts(e)) <= x
         /\ Max(LastPages(e)) \in LastPages(e) /\ \A x \in LastPages(e) : x \in Nat /\ x <= Max(LastPages(e))
         /\ Min(Starts(e)) < Max(LastPages(e))
<1>1. e \in Elf /\ Segments(e) # {} /\ Segments(e) \subseteq Segment
  BY LoadableElf, SegmentsType
<1>2. Starts(e) \subseteq Nat /\ Starts(e) # {}
  BY <1>1, SegmentsType, AlignDown DEF Starts
<1>3. Min(Starts(e)) \in Starts(e) /\ \A x \in Starts(e) : x \in Nat /\ Min(Starts(e)) <= x
  BY <1>2, MinExists
<1>4. /\ LastPages(e) \subseteq Nat /\ LastPages(e) # {}
      /\ \A x \in LastPages(e) : x <= AddrMax + AddrMax + PageSize
  BY <1>1, LastPageBounds DEF LastPages
<1>5. AddrMax + AddrMax + PageSize \in Nat
  BY NativeModulesAssumption
<1>6. Max(LastPages(e)) \in LastPages(e) /\ \A x \in LastPages(e) : x \in Nat /\ x <= Max(LastPages(e))
  BY <1>4, <1>5, MaxBounded
<1>7. PICK s \in Segments(e) : align_down(s.vaddr) = Min(Starts(e))
  BY <1>3 DEF Starts
<1>8. Min(Starts(e)) < LastPage(s) /\ LastPage(s) \in LastPages(e)
  BY <1>1, <1>7, LoadableElf, LastPageBounds DEF LastPages
<1>9. Min(Starts(e)) \in Nat /\ LastPage(s) \in Nat /\ Max(LastPages(e)) \in Nat
      /\ LastPage(s) <= Max(LastPages(e))
  BY <1>3, <1>6, <1>8
<1> QED BY <1>3, <1>6, <1>8, <1>9

LEMMA HullExtent ==
  ASSUME TypeOK, NEW i \in Image
  PROVE  /\ i.file \in Files /\ i.bias \in Nat /\ elf[i.file] \in Elfs
         /\ Hull(i).start = i.bias + Min(Starts(elf[i.file]))
         /\ Hull(i).end = i.bias + Max(LastPages(elf[i.file]))
         /\ Hull(i).start \in Nat /\ Hull(i).end \in Nat
         /\ \A m \in Pages(i) : /\ m.start \in Nat /\ m.end \in Nat
                                /\ Hull(i).start <= m.start /\ m.end <= Hull(i).end
<1> DEFINE e == elf[i.file]
<1>1. i.file \in Files /\ i.bias \in Nat /\ e \in Elfs
  BY DEF TypeOK, Image
<1>2. /\ Min(Starts(e)) \in Starts(e) /\ \A x \in Starts(e) : x \in Nat /\ Min(Starts(e)) <= x
      /\ Max(LastPages(e)) \in LastPages(e) /\ \A x \in LastPages(e) : x \in Nat /\ x <= Max(LastPages(e))
  BY <1>1, Extent
<1>3. \A s \in Segments(e) : /\ Mapping(i, s) \in Pages(i)
                             /\ Mapping(i, s).start = i.bias + align_down(s.vaddr)
                             /\ Mapping(i, s).end = i.bias + LastPage(s)
  BY DEF Pages, Mapping, LastPage
<1>4. \A m \in Pages(i) : \E x \in Starts(e), y \in LastPages(e) : m.start = i.bias + x /\ m.end = i.bias + y
  BY <1>3 DEF Pages, Starts, LastPages
<1>5. PICK s \in Segments(e) : align_down(s.vaddr) = Min(Starts(e))
  BY <1>2 DEF Starts
<1>6. PICK t \in Segments(e) : LastPage(t) = Max(LastPages(e))
  BY <1>2 DEF LastPages
<1> DEFINE A == {m.start : m \in Pages(i)}
           B == {m.end : m \in Pages(i)}
           a == i.bias + Min(Starts(e))
           b == i.bias + Max(LastPages(e))
<1>7. a \in A /\ b \in B
  BY <1>3, <1>5, <1>6
<1>8. \A m \in Pages(i) : m.start \in Nat /\ m.end \in Nat /\ a <= m.start /\ m.end <= b
  BY <1>1, <1>2, <1>4
<1>9. A \subseteq Int /\ B \subseteq Int /\ (\A x \in A : a <= x) /\ (\A x \in B : x <= b)
  BY <1>8
<1>10. Hull(i).start = Min(A) /\ Hull(i).end = Max(B)
  BY DEF Hull
<1>11. a \in Nat /\ b \in Nat
  BY <1>1, <1>2
<1> HIDE DEF A, B, a, b
<1>12. Min(A) = a /\ Max(B) = b
  BY <1>7, <1>9, MinIs, MaxIs
<1> QED BY <1>1, <1>8, <1>10, <1>11, <1>12 DEF a, b

(* What module_avma_range computes is where the image is.                  *)
LEMMA RangeOfImage ==
  ASSUME TypeOK, NEW i \in Image, Hull(i).end <= AddrMax
  PROVE  module_avma_range(i.bias, elf[i.file]) = {[start |-> Hull(i).start, end |-> Hull(i).end]}
<1> DEFINE e == elf[i.file]
           AllEnds == UNION {segment_end(s) : s \in Segments(e)}
<1>1. /\ i.bias \in Nat /\ e \in Elfs
      /\ Hull(i).start = i.bias + Min(Starts(e))
      /\ Hull(i).end = i.bias + Max(LastPages(e))
  BY HullExtent
<1>2. Segments(e) # {} /\ Segments(e) \subseteq Segment
  BY <1>1, LoadableElf, SegmentsType
<1>3. /\ Min(Starts(e)) \in Nat /\ Max(LastPages(e)) \in Nat
      /\ Min(Starts(e)) < Max(LastPages(e))
      /\ \A x \in LastPages(e) : x \in Nat /\ x <= Max(LastPages(e))
  BY <1>1, Extent
<1>4. AddrMax \in Nat
  BY NativeModulesAssumption
<1>5. \A s \in Segments(e) : LastPage(s) \in LastPages(e)
  BY DEF LastPages
<1>6. Max(LastPages(e)) <= AddrMax
  BY <1>1, <1>3, <1>4
<1>7. \A s \in Segments(e) : LastPage(s) <= AddrMax
  BY <1>3, <1>4, <1>5, <1>6
<1>8. \A s \in Segments(e) : segment_end(s) = {LastPage(s)}
  BY <1>2, <1>7, SegmentEnd
<1>9. AllEnds = LastPages(e)
  BY <1>8 DEF LastPages
<1>10. module_avma_range(i.bias, e) =
         IF Segments(e) = {} \/ (\E s \in Segments(e) : segment_end(s) = {})
              \/ Min(Starts(e)) >= Max(AllEnds)
         THEN {} ELSE UNION {{[start |-> a, end |-> b] : b \in checked_add(i.bias, Max(AllEnds))} :
                               a \in checked_add(i.bias, Min(Starts(e)))}
  BY Zenon DEF module_avma_range, Starts
<1> HIDE DEF e, AllEnds
<1>11. checked_add(i.bias, Max(LastPages(e))) = {Hull(i).end}
  BY <1>1 DEF checked_add
<1>12. checked_add(i.bias, Min(Starts(e))) = {Hull(i).start}
  BY <1>1, <1>3, <1>4, <1>6 DEF checked_add
<1>13. ~(Min(Starts(e)) >= Max(AllEnds))
  BY <1>3, <1>9
<1>14. module_avma_range(i.bias, e) =
         UNION {{[start |-> a, end |-> b] : b \in {Hull(i).end}} : a \in {Hull(i).start}}
  BY <1>2, <1>8, <1>9, <1>10, <1>11, <1>12, <1>13
<1> QED BY <1>14 DEF e

(* The load bias of a mapping of code, unless another segment claims it.   *)
LEMMA BiasOfCode ==
  ASSUME TypeOK, NEW i \in Image, ~SharesPage(elf[i.file]), NEW m \in Code(i)
  PROVE  load_bias_for_mapping(m, elf[i.file]) = {i.bias}
<1> DEFINE e == elf[i.file]
           hits == {n \in DOMAIN e.segments : load_bias_for_segment(m, e.segments[n]) # {}}
<1>1. i.bias \in Nat /\ e \in Elfs
  BY HullExtent
<1>2. /\ e.segments \in Seq(Segment)
      /\ DOMAIN e.segments \subseteq Nat
      /\ \A n \in DOMAIN e.segments : align_down(e.segments[n].vaddr) \in Nat
  BY <1>1, LoadableElf, SegmentsType, AlignDown DEF Segments
<1>3. PICK n \in DOMAIN e.segments : e.segments[n].executable /\ m = Mapping(i, e.segments[n])
  BY DEF Code, Segments
<1>4. m.start = i.bias + align_down(e.segments[n].vaddr) /\ m.offset = align_down(e.segments[n].offset)
  BY <1>3 DEF Mapping
<1>5. \A k \in DOMAIN e.segments :
        /\ align_down(e.segments[k].vaddr) = align_down(e.segments[n].vaddr)
        /\ align_down(e.segments[k].offset) = align_down(e.segments[n].offset)
        => load_bias_for_segment(m, e.segments[k]) = {i.bias}
  <2> SUFFICES ASSUME NEW k \in DOMAIN e.segments,
                      align_down(e.segments[k].vaddr) = align_down(e.segments[n].vaddr),
                      align_down(e.segments[k].offset) = align_down(e.segments[n].offset)
               PROVE  load_bias_for_segment(m, e.segments[k]) = {i.bias}
    OBVIOUS
  <2>1. load_bias_for_segment(m, e.segments[k]) = checked_sub(m.start, align_down(e.segments[k].vaddr))
    BY <1>4 DEF load_bias_for_segment
  <2>2. /\ align_down(e.segments[n].vaddr) \in Nat
        /\ m.start - align_down(e.segments[k].vaddr) = i.bias
        /\ align_down(e.segments[k].vaddr) <= m.start
    BY <1>1, <1>2, <1>4
  <2> QED BY <2>1, <2>2 DEF checked_sub
<1>6. n \in hits /\ hits \subseteq Nat
  BY <1>2, <1>5
<1> HIDE DEF hits
<1>7. Min(hits) \in hits /\ Min(hits) \in Nat /\ Min(hits) <= n
  BY <1>6, MinExists
<1> DEFINE k == Min(hits)
<1>8. k \in DOMAIN e.segments /\ load_bias_for_segment(m, e.segments[k]) # {}
  BY <1>7 DEF hits
<1>9. align_down(e.segments[k].offset) = align_down(e.segments[n].offset)
  BY <1>4, <1>8 DEF load_bias_for_segment
<1>10. k = n \/ k \in 1 .. n - 1
  BY <1>2, <1>7, <1>8
<1>11. align_down(e.segments[k].vaddr) = align_down(e.segments[n].vaddr)
  BY <1>3, <1>9, <1>10 DEF SharesPage
<1>12. load_bias_for_segment(m, e.segments[k]) = {i.bias}
  BY <1>5, <1>8, <1>9, <1>11
<1> QED BY <1>6, <1>12 DEF load_bias_for_mapping, hits

-----------------------------------------------------------------------------
(* Modules.                                                                *)
LEMMA BiasType ==
  ASSUME TypeOK, NEW i \in Image, NEW m \in Code(i), NEW e \in Elf
  PROVE  load_bias_for_mapping(m, e) \subseteq Nat
<1> DEFINE hits == {n \in DOMAIN e.segments : load_bias_for_segment(m, e.segments[n]) # {}}
<1>1. m \in Pages(i)
  BY DEF Code, Pages
<1>2. m.start \in Nat
  BY <1>1, HullExtent
<1>3. hits \subseteq Nat
  BY SegmentsType
<1>4. \A n \in DOMAIN e.segments : load_bias_for_segment(m, e.segments[n]) \subseteq Nat
  <2> SUFFICES ASSUME NEW n \in DOMAIN e.segments
               PROVE  load_bias_for_segment(m, e.segments[n]) \subseteq Nat
    OBVIOUS
  <2>1. align_down(e.segments[n].vaddr) \in Nat
    BY SegmentsType, AlignDown DEF Segments
  <2> QED BY <1>2, <2>1 DEF load_bias_for_segment, checked_sub
<1>5. hits # {} => Min(hits) \in DOMAIN e.segments
  BY <1>3, MinExists
<1> QED BY <1>4, <1>5 DEF load_bias_for_mapping

LEMMA ReadFile ==
  ASSUME TypeOK, NEW f \in Files
  PROVE  read_mapped_file(f) \in Elf
BY NativeModulesAssumption DEF TypeOK, read_mapped_file

(* Whatever the files say, a module has a range.                           *)
LEMMA ModulesType ==
  ASSUME TypeOK, NEW f \in Files, NEW m \in ModulesOf(f)
  PROVE  m \in Module /\ m.start < m.end /\ m.end <= AddrMax
<1> DEFINE e == read_mapped_file(f)
           mappings == UNION {Code(i) : i \in {j \in images : j.file = f}}
           load_biases == UNION {load_bias_for_mapping(c, e) : c \in mappings}
<1>1. PICK b \in load_biases : \E r \in module_avma_range(b, e) :
        m = [file |-> f, bias |-> b, start |-> r.start, end |-> r.end]
  BY DEF ModulesOf
<1>2. e \in Elf
  BY ReadFile
<1>3. load_biases \subseteq Nat
  BY <1>2, BiasType DEF TypeOK
<1> HIDE DEF e, load_biases
<1>4. PICK r \in module_avma_range(b, e) : m = [file |-> f, bias |-> b, start |-> r.start, end |-> r.end]
  BY <1>1
<1>5. b \in Nat /\ r.start \in Nat /\ r.end \in Nat /\ r.start < r.end /\ r.end <= AddrMax
  BY <1>2, <1>3, ModuleRange
<1> QED BY <1>4, <1>5 DEF Module

(* What the loader keeps to; and there are no modules before new.          *)
ImagesInv ==
  /\ \A i \in images : Hull(i).end <= AddrMax
  /\ \A i, j \in images : i = j \/ Hull(j).end <= Hull(i).start \/ Hull(i).end <= Hull(j).start
  /\ ~built => modules = {}

LEMMA ModulesOfSound ==
  ASSUME TypeOK, ImagesInv, NEW f \in Files, read_mapped_file(f) = elf[f], ~SharesPage(elf[f])
  PROVE  ModulesOf(f) = {ModuleFor(i) : i \in {j \in images : j.file = f /\ elf[f].cfi}}
<1> DEFINE e == elf[f]
           mine == {j \in images : j.file = f}
           mappings == UNION {Code(i) : i \in mine}
           load_biases == UNION {load_bias_for_mapping(m, e) : m \in mappings}
<1>1. ModulesOf(f) = IF ~e.cfi THEN {} ELSE
        UNION {{[file |-> f, bias |-> b, start |-> r.start, end |-> r.end] :
                  r \in module_avma_range(b, e)} : b \in load_biases}
  BY DEF ModulesOf
<1>2. \A i \in mine : i \in Image /\ i.file = f /\ Hull(i).end <= AddrMax
  BY DEF TypeOK, ImagesInv
<1>3. \A i \in mine : \A m \in Code(i) : load_bias_for_mapping(m, e) = {i.bias}
  BY <1>2, BiasOfCode
<1>4. \A i \in mine : Code(i) # {}
  BY <1>2, HullExtent, LoadableElf DEF Code
<1>5. load_biases = {i.bias : i \in mine}
  BY <1>3, <1>4
<1>6. \A i \in mine : module_avma_range(i.bias, e) = {[start |-> Hull(i).start, end |-> Hull(i).end]}
  BY <1>2, RangeOfImage
<1>7. \A i \in mine :
        ModuleFor(i) = [file |-> f, bias |-> i.bias, start |-> Hull(i).start, end |-> Hull(i).end]
  BY DEF ModuleFor
<1> HIDE DEF load_biases, mine, e
<1>8. \A i \in mine : {[file |-> f, bias |-> i.bias, start |-> r.start, end |-> r.end] :
                          r \in module_avma_range(i.bias, e)} = {ModuleFor(i)}
  <2> SUFFICES ASSUME NEW i \in mine
               PROVE  {[file |-> f, bias |-> i.bias, start |-> r.start, end |-> r.end] :
                          r \in module_avma_range(i.bias, e)} = {ModuleFor(i)}
    OBVIOUS
  <2> DEFINE r0 == [start |-> Hull(i).start, end |-> Hull(i).end]
  <2>1. r0.start = Hull(i).start /\ r0.end = Hull(i).end
    OBVIOUS
  <2>2. module_avma_range(i.bias, e) = {r0}
    BY <1>6
  <2> HIDE DEF r0
  <2> QED BY <1>7, <2>1, <2>2
<1>9. e.cfi => ModulesOf(f) = {ModuleFor(i) : i \in mine}
  BY <1>1, <1>5, <1>8
<1>10. ~e.cfi => ModulesOf(f) = {}
  BY <1>1
<1> QED BY <1>9, <1>10 DEF mine, e

-----------------------------------------------------------------------------
LEMMA TypeInit == Init => TypeOK
<1> SUFFICES ASSUME Init PROVE TypeOK
  OBVIOUS
<1>1. elf \in [Files -> Elfs] /\ disk \in [Files -> Elfs \cup Damaged \cup {Gone}]
  BY DEF Init
<1>2. images = {} /\ built \in BOOLEAN /\ modules = {}
  BY DEF Init
<1>3. seen.images = {} /\ seen.files = {}
  BY DEF Init
<1> QED BY <1>1, <1>2, <1>3 DEF TypeOK

LEMMA TypeStep == TypeOK /\ [Next]_vars => TypeOK'
<1> SUFFICES ASSUME TypeOK, [Next]_vars PROVE TypeOK'
  OBVIOUS
<1>1. CASE UNCHANGED vars
  BY <1>1 DEF TypeOK, vars
<1>2. ASSUME NEW f \in Files, NEW b \in Biases, Load(f, b) PROVE TypeOK'
  <2>1. [file |-> f, bias |-> b] \in Image
    BY NativeModulesAssumption DEF Image
  <2> QED BY <1>2, <2>1 DEF TypeOK, Load
<1>3. ASSUME NEW i \in images, Unload(i) PROVE TypeOK'
  BY <1>3 DEF TypeOK, Unload
<1>4. ASSUME NEW f \in Files, NEW e \in Elfs \cup Damaged \cup {Gone}, Replace(f, e) PROVE TypeOK'
  BY <1>4 DEF TypeOK, Replace
<1>5. CASE New
  <2>1. \A m \in modules' : m \in Module /\ m.start < m.end /\ m.end <= AddrMax
    BY <1>5, ModulesType DEF New
  <2>2. seen'.images = images /\ seen'.files \subseteq Files
    BY <1>5 DEF New
  <2> QED BY <1>5, <2>1, <2>2 DEF TypeOK, New
<1> QED BY <1>1, <1>2, <1>3, <1>4, <1>5 DEF Next

(* No range of a module wraps or is empty, whatever the files say that new *)
(* reads: the checked sums of module_avma_range are all there are.         *)
THEOREM TypeCorrect == Spec => []TypeOK
BY TypeInit, TypeStep, PTL DEF Spec

-----------------------------------------------------------------------------
LEMMA SameFiles ==
  ASSUME UNCHANGED elf
  PROVE  /\ \A i : Hull(i)' = Hull(i) /\ ModuleFor(i)' = ModuleFor(i) /\ Code(i)' = Code(i)
         /\ UNCHANGED seen => \A f : Sound(f)' = Sound(f)
<1>1. \A i : Hull(i)' = Hull(i)
  BY DEF Hull, Pages
<1>2. \A i : ModuleFor(i)' = ModuleFor(i) /\ Code(i)' = Code(i)
  BY <1>1 DEF ModuleFor, Code
<1>3. UNCHANGED seen => \A f : Sound(f)' = Sound(f)
  BY DEF Sound
<1> QED BY <1>1, <1>2, <1>3

LEMMA ImagesStep == TypeOK /\ ImagesInv /\ [Next]_vars => ImagesInv'
<1> SUFFICES ASSUME TypeOK, ImagesInv, [Next]_vars PROVE ImagesInv'
  OBVIOUS
<1>1. UNCHANGED elf
  BY DEF Next, Load, Unload, Replace, New, vars
<1>2. \A i : Hull(i)' = Hull(i)
  BY <1>1, SameFiles
<1>3. ASSUME NEW f \in Files, NEW b \in Biases, Load(f, b) PROVE ImagesInv'
  <2> DEFINE i == [file |-> f, bias |-> b]
  <2>1. /\ images' = images \cup {i}
        /\ Hull(i).end <= AddrMax
        /\ \A j \in images : Hull(j).end <= Hull(i).start \/ Hull(i).end <= Hull(j).start
        /\ UNCHANGED <<built, modules>>
    BY <1>3 DEF Load
  <2> HIDE DEF i
  <2> QED BY <1>2, <2>1 DEF ImagesInv
<1>4. CASE (\E i \in images : Unload(i)) \/ UNCHANGED vars
           \/ \E f \in Files, e \in Elfs \cup Damaged \cup {Gone} : Replace(f, e)
  <2>1. images' \subseteq images /\ UNCHANGED <<built, modules>>
    BY <1>4 DEF Unload, Replace, vars
  <2> QED BY <1>2, <2>1 DEF ImagesInv
<1>5. CASE New
  BY <1>2, <1>5 DEF New, ImagesInv
<1> QED BY <1>3, <1>4, <1>5 DEF Next

LEMMA ModulesStep == TypeOK /\ ImagesInv /\ ModulesExact /\ [Next]_vars => ModulesExact'
<1> SUFFICES ASSUME TypeOK, ImagesInv, ModulesExact, [Next]_vars PROVE ModulesExact'
  OBVIOUS
<1>1. UNCHANGED elf
  BY DEF Next, Load, Unload, Replace, New, vars
<1>2. \A i : ModuleFor(i)' = ModuleFor(i)
  BY <1>1, SameFiles
<1>3. CASE New
  <2> SUFFICES ASSUME NEW f \in Files, Sound(f)'
               PROVE  {m \in modules' : m.file = f}
                        = {ModuleFor(i)' : i \in {j \in seen'.images : j.file = f /\ elf'[f].cfi}}
    BY DEF ModulesExact
  <2>1. read_mapped_file(f) = elf[f] /\ ~SharesPage(elf[f])
    BY <1>1, <1>3 DEF New, Sound
  <2>2. {m \in modules' : m.file = f} = ModulesOf(f)
    <3>1. \A g \in Files : \A m \in ModulesOf(g) : m.file = g
      BY DEF ModulesOf
    <3>2. modules' = UNION {ModulesOf(g) : g \in Files}
      BY <1>3 DEF New
    <3> QED BY <3>1, <3>2
  <2>3. seen'.images = images
    BY <1>3 DEF New
  <2> QED BY <1>1, <1>2, <2>1, <2>2, <2>3, ModulesOfSound
<1>4. CASE UNCHANGED <<built, modules, seen>>
  <2>1. \A f : Sound(f)' = Sound(f)
    BY <1>1, <1>4, SameFiles
  <2> SUFFICES ASSUME built', NEW f \in Files, Sound(f)'
               PROVE  {m \in modules' : m.file = f}
                        = {ModuleFor(i)' : i \in {j \in seen'.images : j.file = f /\ elf'[f].cfi}}
    BY DEF ModulesExact
  <2>2. {m \in modules : m.file = f}
          = {ModuleFor(i) : i \in {j \in seen.images : j.file = f /\ elf[f].cfi}}
    BY <1>4, <2>1 DEF ModulesExact
  <2> QED BY <1>1, <1>2, <1>4, <2>2
<1> QED BY <1>3, <1>4 DEF Next, Load, Unload, Replace, vars

LEMMA ModulesAlways == Spec => [](TypeOK /\ ImagesInv /\ ModulesExact)
<1>1. Init => ImagesInv /\ ModulesExact
  BY DEF Init, ImagesInv, ModulesExact
<1> QED BY <1>1, TypeInit, TypeStep, ImagesStep, ModulesStep, PTL DEF Spec

(* unwind.rs:85-111: every image of a sound file has its one module, at    *)
(* the bias it was loaded at and with all of its pages. The loader's       *)
(* images fit the address space, so the checked sums lose none.            *)
THEOREM ModulesAlwaysExact == Spec => []ModulesExact
BY ModulesAlways, PTL

(* Images that are loaded at once have no address in common, so a module   *)
(* that code falls into is its own image's or that of one that is gone;    *)
(* and an image's code is inside the module of the image.                  *)
THEOREM LookupAlwaysExact == Spec => []LookupExact
<1>1. TypeOK /\ ImagesInv /\ ModulesExact => LookupExact
  <2> DEFINE known == {j \in seen.images : Sound(j.file) /\ elf[j.file].cfi}
  <2> SUFFICES ASSUME TypeOK, ImagesInv, ModulesExact, built,
                      NEW i \in images, NEW c \in Code(i)
               PROVE  {m \in modules : Sound(m.file) /\ Overlap(c, m)} =
                        {ModuleFor(j) : j \in known \cap {i}}
                          \cup {ModuleFor(j) : j \in {k \in known \ images : Overlap(c, ModuleFor(k))}}
    BY Zenon DEF LookupExact
  <2>1. ASSUME NEW m PROVE m \in modules /\ Sound(m.file) <=> \E j \in known : m = ModuleFor(j)
    <3>1. \A j \in seen.images : j.file \in Files /\ ModuleFor(j).file = j.file
      BY DEF TypeOK, Image, ModuleFor
    <3>2. m \in modules => m.file \in Files
      BY DEF TypeOK, Module
    <3>3. m.file \in Files /\ Sound(m.file) =>
            (m \in modules <=> \E j \in seen.images : j.file = m.file /\ elf[m.file].cfi /\ m = ModuleFor(j))
      BY DEF ModulesExact
    <3> QED BY <3>1, <3>2, <3>3
  <2>2. /\ Hull(i).start \in Nat /\ Hull(i).end \in Nat /\ c.start \in Nat /\ c.end \in Nat
        /\ Hull(i).start <= c.start /\ c.start < c.end /\ c.end <= Hull(i).end
    <3>1. i \in Image /\ c \in Pages(i)
      BY DEF TypeOK, Code, Pages
    <3>2. PICK s \in Segments(elf[i.file]) : c = Mapping(i, s)
      BY DEF Code
    <3>3. s \in Segment /\ s.memsz > 0
      BY <3>1, HullExtent, LoadableElf, SegmentsType
    <3>4. /\ i.bias \in Nat /\ align_down(s.vaddr) < LastPage(s) /\ LastPage(s) \in Nat
          /\ align_down(s.vaddr) \in Nat
      BY <3>1, <3>3, HullExtent, LastPageBounds, AlignDown, NativeModulesAssumption DEF Segment
    <3>5. c.start = i.bias + align_down(s.vaddr) /\ c.end = i.bias + LastPage(s)
      BY <3>2 DEF Mapping, LastPage
    <3> QED BY <3>1, <3>4, <3>5, HullExtent
  <2>3. Overlap(c, ModuleFor(i))
    BY <2>2 DEF Overlap, ModuleFor
  <2>4. ASSUME NEW j \in images, j # i PROVE ~Overlap(c, ModuleFor(j))
    <3>1. Hull(j).end <= Hull(i).start \/ Hull(i).end <= Hull(j).start
      BY <2>4 DEF ImagesInv
    <3>2. Hull(j).start \in Nat /\ Hull(j).end \in Nat
      BY HullExtent DEF TypeOK
    <3> QED BY <2>2, <3>1, <3>2 DEF Overlap, ModuleFor
  <2> HIDE DEF known
  <2>5. ASSUME NEW m
        PROVE  m \in modules /\ Sound(m.file) /\ Overlap(c, m) <=>
                 \/ \E j \in known \cap {i} : m = ModuleFor(j)
                 \/ \E j \in known \ images : Overlap(c, ModuleFor(j)) /\ m = ModuleFor(j)
    BY <2>1, <2>3, <2>4
  <2> QED BY <2>5
<1> QED BY <1>1, ModulesAlways, PTL

-----------------------------------------------------------------------------
(* Uprobes. How far an address is into its page.                           *)
LEMMA IntoPage ==
  ASSUME NEW v \in Nat
  PROVE  v = align_down(v) + (v % PageSize)
BY NativeModulesAssumption DEF align_down

(* The last page of a segment has all of it.                               *)
LEMMA LastPageEnds ==
  ASSUME NEW s \in Segment
  PROVE  s.vaddr + s.memsz <= LastPage(s)
<1>1. PageSize \in Nat \ {0} /\ AddrMax \in Nat
  BY NativeModulesAssumption
<1> DEFINE w == s.vaddr + s.memsz + PageSize - 1
<1>2. w \in Nat /\ s.vaddr + s.memsz \in Nat /\ w = s.vaddr + s.memsz + PageSize - 1
  BY <1>1 DEF Segment
<1>3. LastPage(s) = align_down(w)
  BY DEF LastPage
<1> HIDE DEF w
<1>4. align_down(w) \in Nat /\ w < align_down(w) + PageSize
  BY <1>2, AlignDown
<1> QED BY <1>1, <1>2, <1>3, <1>4

(* Segment t has address vaddr; its file offset is o.                      *)
OffsetThrough(t, vaddr, o) ==
  t.vaddr <= vaddr /\ vaddr < t.vaddr + t.memsz /\ o = vaddr - t.vaddr + t.offset

(* The mapping of a segment shows the offsets of the segment's addresses,  *)
(* where the segment is.                                                   *)
LEMMA ShowsItsOwn ==
  ASSUME NEW t \in Segment, t.offset % PageSize = t.vaddr % PageSize,
         NEW vaddr \in Nat, NEW o, OffsetThrough(t, vaddr, o)
  PROVE  /\ o \in Nat /\ o \in Shown(t)
         /\ align_down(t.vaddr) + (o - align_down(t.offset)) = vaddr
<1> DEFINE a == align_down(t.vaddr)
           b == align_down(t.offset)
           c == LastPage(t)
<1>1. t.vaddr \in Nat /\ t.offset \in Nat /\ t.memsz \in Nat
  BY NativeModulesAssumption DEF Segment
<1>2. a \in Nat /\ b \in Nat /\ c \in Nat /\ b <= t.offset /\ t.vaddr + t.memsz <= c
  BY <1>1, AlignDown, LastPageBounds, LastPageEnds
<1>3. t.vaddr = a + (t.vaddr % PageSize) /\ t.offset = b + (t.vaddr % PageSize)
  BY <1>1, IntoPage
<1>4. t.vaddr % PageSize \in Nat
  BY <1>1, NativeModulesAssumption
<1>5. Shown(t) = b .. b + (c - a) - 1
  BY DEF Shown, LastPage
<1> HIDE DEF a, b, c
<1>6. o \in Nat /\ a + (o - b) = vaddr /\ b <= o /\ o < b + (c - a)
  BY <1>1, <1>2, <1>3, <1>4 DEF OffsetThrough
<1> QED BY <1>2, <1>5, <1>6 DEF a, b

(* A mapping of code that shows the offset shows it there too.             *)
LEMMA ShowsThere ==
  ASSUME TypeOK, NEW i \in Image, OneAddress(elf[i.file]),
         NEW t \in Segments(elf[i.file]), t.executable,
         NEW x \in Segments(elf[i.file]), x.executable,
         NEW vaddr \in Nat, NEW o, OffsetThrough(t, vaddr, o), o \in Shown(x)
  PROVE  align_down(x.vaddr) + (o - align_down(x.offset)) = vaddr
<1>1. t \in Segment /\ x \in Segment
  BY HullExtent, LoadableElf, SegmentsType
<1>2. /\ t.offset % PageSize = t.vaddr % PageSize /\ x.offset % PageSize = x.vaddr % PageSize
      /\ t.vaddr + x.offset = x.vaddr + t.offset \/ Shown(t) \cap Shown(x) = {}
  BY DEF OneAddress
<1>3. o \in Nat /\ o \in Shown(t)
  BY <1>1, <1>2, ShowsItsOwn
<1>4. t.vaddr + x.offset = x.vaddr + t.offset
  BY <1>2, <1>3
<1>5. /\ t.vaddr \in Nat /\ t.offset \in Nat /\ x.vaddr \in Nat /\ x.offset \in Nat
  BY <1>1, NativeModulesAssumption DEF Segment
<1>6. /\ x.vaddr = align_down(x.vaddr) + (x.vaddr % PageSize)
      /\ x.offset = align_down(x.offset) + (x.vaddr % PageSize)
      /\ x.vaddr % PageSize \in Nat /\ align_down(x.vaddr) \in Nat /\ align_down(x.offset) \in Nat
  <2>1. x.vaddr = align_down(x.vaddr) + (x.vaddr % PageSize) /\ align_down(x.vaddr) \in Nat
    BY <1>5, IntoPage, AlignDown
  <2>2. x.offset = align_down(x.offset) + (x.offset % PageSize) /\ align_down(x.offset) \in Nat
    BY <1>5, IntoPage, AlignDown
  <2>3. x.vaddr % PageSize \in Nat
    BY <1>5, NativeModulesAssumption
  <2> QED BY <1>2, <2>1, <2>2, <2>3
<1>7. o = vaddr - t.vaddr + t.offset
  BY DEF OffsetThrough
<1> QED BY <1>3, <1>4, <1>5, <1>6, <1>7

(* The offset that is found for an address of a loaded image.              *)
LEMMA OffsetFound ==
  ASSUME TypeOK, NEW i \in Image, Hull(i).end <= AddrMax,
         NEW s \in Segments(elf[i.file]), s.executable,
         NEW vaddr \in s.vaddr .. s.vaddr + s.memsz - 1
  PROVE  \E t \in Segments(elf[i.file]) : \E o :
           /\ t.executable /\ OffsetThrough(t, vaddr, o)
           /\ vaddr_to_file_offset(elf[i.file], vaddr) = {o}
<1> DEFINE e == elf[i.file]
           Around(x) == x.executable /\ x.vaddr <= vaddr /\ vaddr < Min({x.vaddr + x.memsz, AddrMax})
           hits == {n \in DOMAIN e.segments : Around(e.segments[n])}
           seg == e.segments[Min(hits)]
<1>1. e \in Elf /\ e.segments \in Seq(Segment) /\ Segments(e) \subseteq Segment
  BY HullExtent, LoadableElf, SegmentsType
<1>2. \A x \in Segments(e) : x.vaddr \in Nat /\ x.memsz \in Nat
  BY <1>1, SegmentsType
<1>3. AddrMax \in Nat
  BY NativeModulesAssumption
<1>4. \A x \in Segments(e) : Min({x.vaddr + x.memsz, AddrMax}) <= x.vaddr + x.memsz
  BY <1>2, <1>3, MinOfTwo
<1>5. s.vaddr + s.memsz <= AddrMax
  <2>1. s.vaddr + s.memsz <= LastPage(s) /\ LastPage(s) \in LastPages(e)
    BY <1>1, LastPageEnds DEF LastPages
  <2>2. /\ LastPage(s) \in Nat /\ LastPage(s) <= Max(LastPages(e)) /\ Max(LastPages(e)) \in Nat
        /\ i.bias \in Nat /\ Hull(i).end = i.bias + Max(LastPages(e))
    BY <2>1, HullExtent, Extent
  <2> QED BY <1>2, <1>3, <2>1, <2>2
<1>6. Around(s)
  BY <1>2, <1>3, <1>5, MinOfTwo
<1>7. hits # {} /\ hits \in SUBSET Nat
  <2>1. PICK n \in DOMAIN e.segments : s = e.segments[n]
    BY DEF Segments
  <2>2. n \in hits
    BY <1>6, <2>1
  <2>3. DOMAIN e.segments \subseteq Nat
    BY <1>1
  <2> QED BY <2>2, <2>3
<1>8. vaddr_to_file_offset(e, vaddr) = IF hits = {} THEN {} ELSE {vaddr - seg.vaddr + seg.offset}
  BY Zenon DEF vaddr_to_file_offset
<1>9. Min(hits) \in hits
  <2> HIDE DEF hits
  <2> QED BY <1>7, MinExists
<1>10. seg \in Segments(e) /\ Around(seg)
  BY <1>9 DEF Segments
<1> HIDE DEF hits, seg
<1>11. OffsetThrough(seg, vaddr, vaddr - seg.vaddr + seg.offset)
  <2>1. Min({seg.vaddr + seg.memsz, AddrMax}) = IF seg.vaddr + seg.memsz <= AddrMax
                                                THEN seg.vaddr + seg.memsz ELSE AddrMax
    BY <1>2, <1>3, <1>10, MinOfTwo
  <2> QED BY <1>2, <1>3, <1>10, <2>1 DEF OffsetThrough
<1> QED BY <1>7, <1>8, <1>10, <1>11

(* syms.rs:76-93: a uprobe is on its symbol and nowhere else. The segment  *)
(* that gives the offset has a mapping that shows it, and every other one  *)
(* that does shows it in the same place.                                   *)
THEOREM ProbesAlwaysExact == Spec => []ProbeExact
<1>1. TypeOK /\ ImagesInv => ProbeExact
  <2> SUFFICES ASSUME TypeOK, ImagesInv, NEW i \in images, OneAddress(elf[i.file]),
                      NEW s \in Segments(elf[i.file]), s.executable,
                      NEW vaddr \in s.vaddr .. s.vaddr + s.memsz - 1
               PROVE  Breakpoints(i, vaddr) = {i.bias + vaddr}
    BY DEF ProbeExact
  <2> DEFINE e == elf[i.file]
  <2>1. i \in Image /\ Hull(i).end <= AddrMax /\ i.bias \in Nat
    BY HullExtent DEF TypeOK, ImagesInv
  <2>2. PICK t \in Segments(e) : \E o : t.executable /\ OffsetThrough(t, vaddr, o)
                                       /\ vaddr_to_file_offset(e, vaddr) = {o}
    BY <2>1, OffsetFound
  <2>3. PICK o : t.executable /\ OffsetThrough(t, vaddr, o) /\ vaddr_to_file_offset(e, vaddr) = {o}
    BY <2>2
  <2>4. Segments(e) \subseteq Segment /\ vaddr \in Nat
    <3>1. Segments(e) \subseteq Segment
      BY <2>1, HullExtent, LoadableElf, SegmentsType
    <3>2. s.vaddr \in Nat /\ s.memsz \in Nat
      BY <2>1, HullExtent, LoadableElf, SegmentsType
    <3> QED BY <3>1, <3>2
  <2>5. o \in Nat /\ o \in Shown(t)
    BY <2>3, <2>4, ShowsItsOwn DEF OneAddress
  <2> DEFINE Shows(m) == m.offset <= o /\ o < m.offset + (m.end - m.start)
  <2>6. ASSUME NEW x \in Segments(e), x.executable
        PROVE  /\ Shows(Mapping(i, x)) <=> o \in Shown(x)
               /\ o \in Shown(x) => Mapping(i, x).start + (o - Mapping(i, x).offset) = i.bias + vaddr
    <3> DEFINE a == align_down(x.vaddr)
               b == align_down(x.offset)
               c == LastPage(x)
    <3>1. a \in Nat /\ b \in Nat /\ c \in Nat
      BY <2>4, AlignDown, LastPageBounds, SegmentsType, NativeModulesAssumption DEF Segment
    <3>2. /\ Mapping(i, x).start = i.bias + a /\ Mapping(i, x).end = i.bias + c
          /\ Mapping(i, x).offset = b /\ Shown(x) = b .. b + (c - a) - 1
      BY DEF Mapping, Shown, LastPage
    <3>3. o \in Shown(x) => a + (o - b) = vaddr
      BY <2>1, <2>3, <2>4, <2>6, ShowsThere
    <3> HIDE DEF a, b, c
    <3> QED BY <2>1, <2>4, <2>5, <3>1, <3>2, <3>3
  <2>7. Breakpoints(i, vaddr)
          = UNION {{m.start + (p - m.offset) : p \in {q \in {o} : m.offset <= q /\ q < m.offset + (m.end - m.start)}} :
                     m \in Code(i)}
    BY <2>3 DEF Breakpoints
  <2>8. Code(i) = {Mapping(i, x) : x \in {y \in Segments(e) : y.executable}}
    BY DEF Code
  <2>9. \A v : v \in Breakpoints(i, vaddr) <=> \E m \in Code(i) : Shows(m) /\ v = m.start + (o - m.offset)
    BY <2>7
  <2>10. Mapping(i, t) \in Code(i) /\ Shows(Mapping(i, t))
         /\ Mapping(i, t).start + (o - Mapping(i, t).offset) = i.bias + vaddr
    BY <2>3, <2>5, <2>6, <2>8
  <2>11. \A m \in Code(i) : Shows(m) => m.start + (o - m.offset) = i.bias + vaddr
    BY <2>6, <2>8
  <2> HIDE DEF Shows
  <2> QED BY <2>9, <2>10, <2>11
<1> QED BY <1>1, ModulesAlways, PTL
=============================================================================
