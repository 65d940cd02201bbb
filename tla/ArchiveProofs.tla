----------------------------- MODULE ArchiveProofs -----------------------------
(***************************************************************************)
(* Proofs about the archive of a pack.  First its checks, for every width  *)
(* of its machine words, every size of its headers and entries, and every  *)
(* file a volume may hold; then the search of its titles, for every        *)
(* library, every query, every page and every size of the window.          *)
(***************************************************************************)
EXTENDS ContentArchive, TitleLookup, SequenceTheorems, WellFoundedInduction,
        NaturalsInduction, TLAPS

LEMMA WrapSmall ==
    ASSUME NEW n \in Nat, n < WordSize
    PROVE  Wrap(n) = n
<1>1. WordSize \in Nat /\ 0 < WordSize
    BY ArchiveAssumption
<1> QED BY <1>1 DEF Wrap

LEMMA DivTimes ==
    ASSUME NEW a \in Nat, NEW b \in Nat, 0 < b, NEW c \in Nat, c <= a \div b
    PROVE  c * b <= a
<1> DEFINE q == a \div b
           r == a % b
<1>1. q \in Int
    OBVIOUS
<1>2. r \in 0 .. b - 1
    OBVIOUS
<1>3. a = b * q + r
    OBVIOUS
<1> HIDE DEF q, r
<1>4. b * q <= a
    BY <1>1, <1>2, <1>3
<1>5. q \in Nat /\ c <= q
    BY <1>1 DEF q
<1>6. \A x, y, z \in Nat : x <= y => x * z <= z * y
    OBVIOUS
<1>7. c * b <= b * q
    BY <1>5, <1>6
<1>8. c * b \in Nat /\ b * q \in Nat
    BY <1>5
<1> QED BY <1>4, <1>7, <1>8

LEMMA Constants ==
    /\ WordSize \in Nat /\ 0 < WordSize
    /\ PackHeader \in Nat /\ ContentHeader \in Nat /\ IndexHeader \in Nat
    /\ EntrySize \in Nat /\ 0 < EntrySize
    /\ Word \subseteq Nat
<1>1. WordSize \in Nat /\ 0 < WordSize
    BY ArchiveAssumption
<1>2. {PackHeader, ContentHeader, IndexHeader, EntrySize} \subseteq 1 .. WordSize - 1
    BY ArchiveAssumption
<1> QED BY <1>1, <1>2 DEF Word

------------------------------------------------------------------------------

(* What validation establishes. *)

(* A region that starts at base and does not reach the end of the words.   *)
LEMMA PayloadFits ==
    ASSUME NEW f, IsFile(f), ContentValid(f.content, f.contentLen)
    PROVE  /\ f.content.payload \in Nat /\ f.contentLen \in Nat /\ f.contentLen < WordSize
           /\ ContentHeader + f.content.payload <= f.contentLen
           /\ f.content.dictOff \in Nat /\ f.content.dictLen \in Nat
           /\ Within(f.content.dictOff, f.content.dictLen, f.content.payload)
<1>1. /\ f.contentLen \in Word /\ f.content.headerSize \in Word /\ f.content.payload \in Word
      /\ f.content.dictOff \in Word /\ f.content.dictLen \in Word
    BY DEF IsFile
<1>2. /\ f.content.headerSize = ContentHeader /\ f.content.headerSize <= f.contentLen
      /\ f.content.payload <= f.contentLen - f.content.headerSize
      /\ f.content.dictLen <= f.content.payload
      /\ IF f.content.dictLen = 0 THEN f.content.dictOff = 0
         ELSE f.content.dictOff = f.content.payload - f.content.dictLen
    BY DEF ContentValid
<1>3. WordSize \in Nat
    BY Constants
<1>4. f.contentLen \in Nat /\ f.content.payload \in Nat /\ f.content.dictOff \in Nat /\ f.content.dictLen \in Nat
      /\ f.contentLen < WordSize
    BY <1>1, <1>3 DEF Word
<1>5. ContentHeader + f.content.payload <= f.contentLen
    BY <1>2, <1>4, Constants
<1>6. f.content.dictOff <= f.content.payload /\ f.content.dictLen <= f.content.payload - f.content.dictOff
    BY <1>2, <1>4
<1> QED BY <1>4, <1>5, <1>6 DEF Within

(* The entries lie in the index, behind its header, and no sum wraps.      *)
LEMMA EntriesFit ==
    ASSUME NEW f, IsFile(f), NEW payload \in Nat, IndexValid(f.index, f.indexLen, payload)
    PROVE  /\ f.index.size \in Nat /\ f.index.size <= f.indexLen /\ f.indexLen \in Nat
           /\ f.index.count \in Nat
           /\ f.index.entriesOff = IndexHeader
           /\ \A i \in 1 .. f.index.count :
                 /\ (i - 1) * EntrySize \in Nat
                 /\ IndexHeader + (i - 1) * EntrySize + EntrySize = IndexHeader + i * EntrySize
                 /\ IndexHeader + i * EntrySize <= f.index.size
                 /\ Wrap(f.index.entriesOff + (i - 1) * EntrySize) = IndexHeader + (i - 1) * EntrySize
                 /\ EntryValid(f.index.entry[i], i, f.index.size, payload)
                 /\ EntryFields(f.index.entry[i]) \subseteq Word
<1> DEFINE x == f.index
<1>1. /\ f.indexLen \in Nat /\ x.size \in Nat /\ x.count \in Nat /\ x.size < WordSize
    <2>1. f.indexLen \in Word /\ x.size \in Word /\ x.count \in Word
        BY DEF IsFile
    <2> QED BY <2>1, Constants DEF Word
<1>2. /\ x.entriesOff = IndexHeader
      /\ x.size <= f.indexLen /\ x.size >= IndexHeader
      /\ x.count <= (x.size - IndexHeader) \div EntrySize
    BY DEF IndexValid
<1>3. x.count * EntrySize <= x.size - IndexHeader
    <2>1. x.size - IndexHeader \in Nat
        BY <1>1, <1>2, Constants
    <2> QED BY <1>1, <1>2, <2>1, Constants, DivTimes
<1>4. ASSUME NEW i \in 1 .. x.count
      PROVE  /\ (i - 1) * EntrySize \in Nat
             /\ IndexHeader + (i - 1) * EntrySize + EntrySize = IndexHeader + i * EntrySize
             /\ IndexHeader + i * EntrySize <= x.size
             /\ IndexHeader + (i - 1) * EntrySize < WordSize
    <2>1. i \in Nat /\ i - 1 \in Nat /\ i <= x.count
        BY <1>1
    <2>2. \A a, b, c \in Nat : a <= b => a * c <= b * c
        OBVIOUS
    <2>3. i * EntrySize <= x.count * EntrySize
        BY <1>1, <2>1, <2>2, Constants
    <2>4. (i - 1) * EntrySize \in Nat /\ i * EntrySize \in Nat /\ x.count * EntrySize \in Nat
        BY <1>1, <2>1, Constants
    <2>5. \A a, c \in Int : (a - 1) * c + c = a * c
        OBVIOUS
    <2>6. (i - 1) * EntrySize + EntrySize = i * EntrySize
        BY <2>1, <2>5, Constants
    <2> HIDE DEF x
    <2> QED BY <1>1, <1>3, <2>3, <2>4, <2>6, Constants
<1>5. ASSUME NEW i \in 1 .. x.count
      PROVE  /\ Wrap(x.entriesOff + (i - 1) * EntrySize) = IndexHeader + (i - 1) * EntrySize
             /\ EntryValid(x.entry[i], i, x.size, payload)
             /\ EntryFields(x.entry[i]) \subseteq Word
    <2>1. IndexHeader + (i - 1) * EntrySize \in Nat
        BY <1>4, Constants
    <2>2. Wrap(IndexHeader + (i - 1) * EntrySize) = IndexHeader + (i - 1) * EntrySize
        BY <1>4, <2>1, WrapSmall
    <2>3. EntryValid(x.entry[i], i, x.size, payload)
        BY DEF IndexValid
    <2>4. IndexHeader + i * EntrySize <= f.indexLen
        <3>1. i * EntrySize \in Int
            BY Constants
        <3> QED BY <1>1, <1>2, <1>4, <3>1, Constants
    <2>5. EntryFields(x.entry[i]) \subseteq Word
        BY <2>4 DEF IsFile
    <2> QED BY <1>2, <2>2, <2>3, <2>5
<1> QED BY <1>1, <1>2, <1>4, <1>5

------------------------------------------------------------------------------

(* The open archive. *)

(* What is open is what was validated: the flash partitions or a file of   *)
(* the volume, and a copy in memory is of that file's index.               *)
FlashOpen ==
    /\ file = NoFile
    /\ archive = FromFlash
    /\ indexCopy = NoFile /\ indexSource = "storage"

PackOpen ==
    /\ file \in onVolume
    /\ PackValid(file)
    /\ archive = Opened(file, PackHeader, file.contentLen, file.indexLen)
    /\ \/ indexCopy = file /\ indexSource = "memory"
       \/ indexCopy = NoFile /\ indexSource = "storage"

ArchiveInv == onVolume \in Volumes /\ (FlashOpen \/ PackOpen)

LEMMA ArchiveInitial == ArchiveInit => ArchiveInv
BY DEF ArchiveInit, ArchiveInv, FlashOpen

LEMMA ArchiveKept == ArchiveInv /\ [ArchiveNext]_archiveVars => ArchiveInv'
<1> SUFFICES ASSUME ArchiveInv, [ArchiveNext]_archiveVars PROVE ArchiveInv'
    OBVIOUS
<1>1. CASE UNCHANGED archiveVars
    <2>1. UNCHANGED <<onVolume, archive, indexCopy, indexSource, file>>
        BY <1>1 DEF archiveVars
    <2> QED BY <2>1 DEF ArchiveInv, FlashOpen, PackOpen
<1>2. CASE RevertToFlash
    BY <1>2 DEF RevertToFlash, ArchiveInv, FlashOpen
<1>3. CASE \E f \in onVolume : LoadPack(f)
    <2>1. PICK f \in onVolume : LoadPack(f)
        BY <1>3
    <2>2. CASE PackValid(f)
        <3>1. file' = f /\ archive' = Opened(f, PackHeader, f.contentLen, f.indexLen) /\ onVolume' = onVolume
              /\ \/ indexCopy' = f /\ indexSource' = "memory"
                 \/ indexCopy' = NoFile /\ indexSource' = "storage"
            BY <2>1, <2>2 DEF LoadPack, CopyIndex
        <3> QED BY <2>2, <3>1 DEF ArchiveInv, PackOpen
    <2>3. CASE ~ PackValid(f)
        BY <1>1, <2>1, <2>3 DEF LoadPack
    <2> QED BY <2>2, <2>3
<1> QED BY <1>1, <1>2, <1>3 DEF ArchiveNext

LEMMA ArchiveInvariance == ArchiveSpec => []ArchiveInv
BY ArchiveInitial, ArchiveKept, PTL DEF ArchiveSpec

(* The variables of the archive keep their types: the file that is open    *)
(* and the one whose index is in memory are files of the volume, and the   *)
(* archive is one of them or the one in flash (content_archive.c:409-468). *)
THEOREM ArchiveTypeCorrect == ArchiveSpec => []ArchiveTypeOK
<1>1. ArchiveInv => ArchiveTypeOK
    <2> SUFFICES ASSUME ArchiveInv PROVE ArchiveTypeOK
        OBVIOUS
    <2>1. CASE FlashOpen
        <3>1. archive.valid => archive.name = Flash.name
            BY <2>1 DEF FlashOpen, FromFlash, Opened, Invalid
        <3> QED BY <2>1, <3>1 DEF FlashOpen, ArchiveTypeOK
    <2>2. CASE PackOpen
        <3>1. archive.name = file.name
            BY <2>2 DEF PackOpen, Opened
        <3> QED BY <2>2, <3>1 DEF PackOpen, ArchiveTypeOK
    <2> QED BY <2>1, <2>2 DEF ArchiveInv
<1> QED BY <1>1, ArchiveInvariance, PTL

(* The index in memory, the open file and the archive always belong to the *)
(* same library, whatever is loaded, refused or reverted                   *)
(* (content_archive.c:409-468).                                            *)
THEOREM IndexBelongsToContent == ArchiveSpec => []IndexMatchesContent
<1>1. ArchiveInv => IndexMatchesContent
    <2> SUFFICES ASSUME ArchiveInv PROVE IndexMatchesContent
        OBVIOUS
    <2>1. CASE FlashOpen
        BY <2>1 DEF FlashOpen, IndexMatchesContent
    <2>2. CASE PackOpen
        <3>1. file # NoFile
            BY <2>2, ArchiveAssumption DEF ArchiveInv, PackOpen, IsFile
        <3>2. archive.valid /\ archive.name = file.name
            BY <2>2 DEF PackOpen, Opened
        <3> QED BY <2>2, <3>1, <3>2 DEF PackOpen, IndexMatchesContent
    <2> QED BY <2>1, <2>2 DEF ArchiveInv
<1> QED BY ArchiveInvariance, <1>1, PTL

------------------------------------------------------------------------------

(* Reads. *)

(* An archive opened from a valid file, whose regions end before the words *)
(* do: in a pack because the wrapper's size is checked in 64 bits.         *)
OpenedFrom(f, base) ==
    /\ IsFile(f)
    /\ base \in Nat
    /\ base + f.contentLen + f.indexLen < WordSize
    /\ ContentValid(f.content, f.contentLen)
    /\ IndexValid(f.index, f.indexLen, f.content.payload)
    /\ archive = Opened(f, base, f.contentLen, f.indexLen)
    /\ indexSource = "memory" => indexCopy = f

LEMMA OpenIsValidated ==
    ASSUME ArchiveInv, archive.valid
    PROVE  \/ file = NoFile /\ OpenedFrom(Flash, 0)
           \/ OpenedFrom(file, PackHeader) /\ file.length = PackHeader + file.contentLen + file.indexLen
<1>1. CASE FlashOpen
    <2>1. FlashValid
        BY <1>1 DEF FlashOpen, FromFlash, Invalid
    <2>2. archive = Opened(Flash, 0, Flash.contentLen, Flash.indexLen)
        BY <1>1, <2>1 DEF FlashOpen, FromFlash
    <2>3. IsFile(Flash) /\ Flash.contentLen + Flash.indexLen < WordSize
        BY ArchiveAssumption
    <2>4. Flash.contentLen \in Nat /\ Flash.indexLen \in Nat
        BY <2>3, Constants DEF IsFile
    <2>5. 0 + Flash.contentLen + Flash.indexLen < WordSize
        BY <2>3, <2>4
    <2> QED BY <1>1, <2>1, <2>2, <2>3, <2>5 DEF OpenedFrom, FlashOpen, FlashValid
<1>2. CASE PackOpen
    <2>1. IsFile(file)
        BY <1>2, ArchiveAssumption DEF ArchiveInv, PackOpen
    <2>2. PackHeader + file.contentLen + file.indexLen < WordSize
          /\ file.length = PackHeader + file.contentLen + file.indexLen
        BY <1>2 DEF PackOpen, PackValid, WrapperSize
    <2> QED BY <1>2, <2>1, <2>2, Constants DEF PackOpen, PackValid, OpenedFrom
<1> QED BY <1>1, <1>2 DEF ArchiveInv

(* The fields of the archive, and its regions one behind the other.        *)
LEMMA Regions ==
    ASSUME NEW f, NEW base, OpenedFrom(f, base)
    PROVE  /\ archive.valid
           /\ archive.contentBase = base /\ archive.contentSize = f.contentLen
           /\ archive.indexBase = base + f.contentLen /\ archive.indexSize = f.indexLen
           /\ archive.payload = f.content.payload
           /\ archive.dictOff = f.content.dictOff /\ archive.dictLen = f.content.dictLen
           /\ archive.count = f.index.count /\ archive.entriesOff = f.index.entriesOff
           /\ archive.size = f.index.size /\ archive.entry = f.index.entry
<1>1. base \in Nat /\ f.contentLen \in Nat /\ f.indexLen \in Nat
      /\ base + f.contentLen + f.indexLen < WordSize
    BY Constants DEF OpenedFrom, IsFile
<1>2. base + f.contentLen \in Nat /\ base + f.contentLen < WordSize
    BY <1>1, Constants
<1>3. Wrap(base + f.contentLen) = base + f.contentLen
    BY <1>2, WrapSmall
<1> QED BY <1>3 DEF OpenedFrom, Opened

LEMMA PayloadReads ==
    ASSUME NEW f, NEW base, OpenedFrom(f, base), NEW off \in Nat, NEW len \in Nat,
           ReadPayload(off, len).ok
    PROVE  LET r == ReadPayload(off, len)
           IN  /\ base + ContentHeader <= r.from
               /\ r.to <= base + ContentHeader + f.content.payload
               /\ r.to <= base + f.contentLen
<1>1. /\ base \in Nat /\ f.content.payload \in Nat /\ f.contentLen \in Nat /\ f.indexLen \in Nat
      /\ ContentHeader + f.content.payload <= f.contentLen
      /\ base + f.contentLen + f.indexLen < WordSize
      /\ WordSize \in Nat /\ ContentHeader \in Nat
    BY PayloadFits, Constants DEF OpenedFrom, IsFile
<1>2. off <= f.content.payload /\ len <= f.content.payload - off
      /\ ReadPayload(off, len) = RangeOf(base, Wrap(ContentHeader + off), len)
    BY Regions DEF ReadPayload, Within, Refused
<1>3. Wrap(ContentHeader + off) = ContentHeader + off
    <2>1. ContentHeader + off \in Nat /\ ContentHeader + off < WordSize
        BY <1>1, <1>2
    <2> QED BY <2>1, WrapSmall
<1>4. Wrap(base + (ContentHeader + off)) = base + ContentHeader + off
    <2>1. base + (ContentHeader + off) \in Nat /\ base + (ContentHeader + off) < WordSize
        BY <1>1, <1>2
    <2>2. Wrap(base + (ContentHeader + off)) = base + (ContentHeader + off)
        BY <2>1, WrapSmall
    <2> QED BY <1>1, <2>2
<1>5. ReadPayload(off, len).from = base + ContentHeader + off
      /\ ReadPayload(off, len).to = base + ContentHeader + off + len
    BY <1>2, <1>3, <1>4 DEF RangeOf
<1> QED BY <1>1, <1>2, <1>5

LEMMA IndexReads ==
    ASSUME NEW f, NEW base, OpenedFrom(f, base), NEW off \in Nat, NEW len \in Nat,
           ReadIndex(off, len).ok
    PROVE  LET r == ReadIndex(off, len)
           IN  /\ base + f.contentLen <= r.from
               /\ r.to <= base + f.contentLen + f.indexLen
<1>1. /\ base \in Nat /\ f.content.payload \in Nat /\ f.contentLen \in Nat
      /\ base + f.contentLen + f.indexLen < WordSize /\ WordSize \in Nat
    BY PayloadFits, Constants DEF OpenedFrom
<1>2. f.index.size \in Nat /\ f.indexLen \in Nat /\ f.index.size <= f.indexLen
    BY <1>1, EntriesFit DEF OpenedFrom
<1>3. off <= f.index.size /\ len <= f.index.size - off
      /\ ReadIndex(off, len) = RangeOf(base + f.contentLen, off, len)
    BY Regions DEF ReadIndex, Within, Refused
<1>4. Wrap(base + f.contentLen + off) = base + f.contentLen + off
    <2>1. base + f.contentLen + off \in Nat /\ base + f.contentLen + off < WordSize
        BY <1>1, <1>2, <1>3
    <2> QED BY <2>1, WrapSmall
<1>5. ReadIndex(off, len).from = base + f.contentLen + off
      /\ ReadIndex(off, len).to = base + f.contentLen + off + len
    BY <1>3, <1>4 DEF RangeOf
<1> QED BY <1>1, <1>2, <1>3, <1>5

LEMMA ReadableAll ==
    ASSUME NEW f, NEW base, OpenedFrom(f, base)
    PROVE  AcceptedIsReadable
<1>1. /\ f.content.payload \in Nat
      /\ Within(f.content.dictOff, f.content.dictLen, f.content.payload)
    BY PayloadFits DEF OpenedFrom
<1>2. ReadPayload(archive.dictOff, archive.dictLen).ok
    BY <1>1, Regions DEF ReadPayload, RangeOf
<1>3. IndexRead.entry = f.index.entry
    BY Regions DEF IndexRead, OpenedFrom
<1>4. \A off, len : Within(off, len, f.index.size) => ReadIndex(off, len).ok
    BY Regions DEF ReadIndex, RangeOf, OpenedFrom
<1>5. ASSUME NEW id \in 0 .. archive.count - 1
      PROVE  /\ GetArticle(id).ok
             /\ ReadPayload(archive.entry[id + 1].content, archive.entry[id + 1].comp).ok
             /\ ReadIndex(EntryOffset(id), EntrySize).ok
             /\ ReadIndex(archive.entry[id + 1].norm, archive.entry[id + 1].normLen).ok
             /\ ReadIndex(archive.entry[id + 1].disp, archive.entry[id + 1].dispLen).ok
    <2> DEFINE e == f.index.entry[id + 1]
    <2>1. archive.count = f.index.count /\ f.index.count \in Nat /\ id \in Nat /\ id < archive.count
        BY <1>1, Regions, EntriesFit DEF OpenedFrom
    <2>2. id + 1 \in 1 .. f.index.count /\ (id + 1) - 1 = id
        BY <2>1
    <2>3. /\ f.index.size \in Nat /\ f.indexLen \in Nat /\ f.index.size <= f.indexLen
          /\ id * EntrySize \in Nat
          /\ IndexHeader + id * EntrySize + EntrySize = IndexHeader + (id + 1) * EntrySize
          /\ IndexHeader + (id + 1) * EntrySize <= f.index.size
          /\ Wrap(f.index.entriesOff + id * EntrySize) = IndexHeader + id * EntrySize
          /\ EntryValid(e, id + 1, f.index.size, f.content.payload)
        <3>1. \A i \in 1 .. f.index.count :
                 /\ (i - 1) * EntrySize \in Nat
                 /\ IndexHeader + (i - 1) * EntrySize + EntrySize = IndexHeader + i * EntrySize
                 /\ IndexHeader + i * EntrySize <= f.index.size
                 /\ Wrap(f.index.entriesOff + (i - 1) * EntrySize) = IndexHeader + (i - 1) * EntrySize
                 /\ EntryValid(f.index.entry[i], i, f.index.size, f.content.payload)
            BY <1>1, EntriesFit DEF OpenedFrom
        <3>2. f.index.size \in Nat /\ f.indexLen \in Nat /\ f.index.size <= f.indexLen
            BY <1>1, EntriesFit DEF OpenedFrom
        <3> QED BY <2>2, <3>1, <3>2
    <2>4. Within(e.content, e.comp, f.content.payload) /\ Within(e.norm, e.normLen, f.index.size)
          /\ Within(e.disp, e.dispLen, f.index.size)
        BY <2>3 DEF EntryValid, ContentWithin
    <2>5. EntryOffset(id) = IndexHeader + id * EntrySize
        BY <2>3, Regions DEF EntryOffset
    <2>6. Within(EntryOffset(id), EntrySize, f.index.size) /\ Readable(f.indexLen, EntryOffset(id), EntrySize)
        <3> DEFINE at == IndexHeader + id * EntrySize
        <3>1. at \in Nat /\ at + EntrySize <= f.index.size
            BY <2>3, Constants
        <3> HIDE DEF at
        <3>2. at <= f.index.size /\ EntrySize <= f.index.size - at
              /\ at <= f.indexLen /\ EntrySize <= f.indexLen - at
            BY <2>3, <3>1, Constants
        <3> QED BY <2>5, <3>2 DEF at, Within, Readable
    <2>7. GetArticle(id).ok
        BY <1>3, <2>1, <2>4, <2>6, Regions DEF GetArticle
    <2> QED BY <1>4, <2>4, <2>6, <2>7, Regions DEF ReadPayload, RangeOf
<1> QED BY <1>2, <1>5 DEF AcceptedIsReadable

LEMMA InsideAll ==
    ASSUME NEW f, NEW base, OpenedFrom(f, base),
           file # NoFile => file = f /\ file.length = base + f.contentLen + f.indexLen
    PROVE  ReadsStayInside
<1>1. base \in Nat /\ f.contentLen \in Nat /\ f.indexLen \in Nat /\ Word \subseteq Nat
    BY Constants DEF OpenedFrom, IsFile
<1>2. file # NoFile => archive.indexBase >= archive.contentBase + archive.contentSize
                       /\ archive.indexBase + archive.indexSize <= file.length
    BY <1>1, Regions
<1>3. ASSUME NEW off \in Word, NEW len \in Word
      PROVE  /\ LET r == ReadPayload(off, len)
                    start == archive.contentBase + ContentHeader
                IN  r.ok => start <= r.from /\ r.to <= start + archive.payload
                            /\ r.to <= archive.contentBase + archive.contentSize
             /\ LET r == ReadIndex(off, len)
                IN  r.ok => archive.indexBase <= r.from
                            /\ r.to <= archive.indexBase + archive.indexSize
    <2>1. off \in Nat /\ len \in Nat
        BY <1>1
    <2> QED BY <2>1, Regions, PayloadReads, IndexReads
<1> QED BY <1>2, <1>3 DEF ReadsStayInside

(* Validation and reading agree, for every width of the machine words: no  *)
(* read of an accepted archive leaves its region, however large the sizes  *)
(* in it, and everything it lists can be read (content_archive.c:97-330,   *)
(* 470-535).                                                               *)
THEOREM ArchivesAreSound == ArchiveSpec => []ArchiveIsSound
<1>1. ArchiveInv => ArchiveIsSound
    <2> SUFFICES ASSUME ArchiveInv, archive.valid PROVE ReadsStayInside /\ AcceptedIsReadable
        BY DEF ArchiveIsSound, ReadsStayInside, AcceptedIsReadable
    <2>1. CASE file = NoFile /\ OpenedFrom(Flash, 0)
        BY <2>1, InsideAll, ReadableAll
    <2>2. CASE OpenedFrom(file, PackHeader) /\ file.length = PackHeader + file.contentLen + file.indexLen
        BY <2>2, InsideAll, ReadableAll
    <2> QED BY <2>1, <2>2, OpenIsValidated
<1> QED BY ArchiveInvariance, <1>1, PTL

------------------------------------------------------------------------------

(* The search of the titles. *)

LEMMA LeastNumber ==
    ASSUME NEW S, S \subseteq Nat, S # {}
    PROVE  \E x \in S : \A y \in S : x <= y
<1> DEFINE less == OpToRel(<, Nat)
<1>1. IsWellFoundedOn(less, Nat)
    BY NatLessThanWellFounded
<1>2. \A x, y \in Nat : x < y => <<x, y>> \in less
    BY DEF OpToRel
<1> HIDE DEF less
<1>3. PICK x \in S : \A y \in S : ~ (<<y, x>> \in less)
    BY <1>1, WFMin
<1>4. ASSUME NEW y \in S PROVE x <= y
    <2>1. x \in Nat /\ y \in Nat
        OBVIOUS
    <2>2. ~ (y < x)
        BY <1>2, <1>3, <2>1
    <2> QED BY <2>1, <2>2
<1> QED BY <1>4

(* Induction up to a bound, over a set of numbers. *)
LEMMA UpTo ==
    ASSUME NEW N \in Nat, NEW Good, 0 \in Good,
           \A n \in 1 .. N : n - 1 \in Good => n \in Good
    PROVE  \A n \in 0 .. N : n \in Good
<1> DEFINE Bad == {n \in 0 .. N : n \notin Good}
<1> SUFFICES ASSUME Bad # {} PROVE FALSE
    OBVIOUS
<1>1. Bad \subseteq Nat
    OBVIOUS
<1>2. PICK m \in Bad : \A n \in Bad : m <= n
    <2> HIDE DEF Bad
    <2> QED BY <1>1, LeastNumber
<1>3. m \in 1 .. N /\ m - 1 \in 0 .. N
    OBVIOUS
<1>4. m - 1 \in Good
    BY <1>2, <1>3
<1> QED BY <1>3, <1>4

(* A function defined from one number to the next exists. *)
Steps(N, begin, More, f) ==
    f = [n \in 0 .. N |-> IF n = 0 THEN begin ELSE More[<<n, f[n - 1]>>]]

LEMMA StepByStep ==
    ASSUME NEW N \in Nat, NEW S, NEW begin \in S, NEW More \in [(1 .. N) \X S -> S]
    PROVE  \E f \in [0 .. N -> S] : Steps(N, begin, More, f)
<1> DEFINE Reach(f, m) == f \in [0 .. m -> S] /\ f[0] = begin /\ \A n \in 1 .. m : f[n] = More[<<n, f[n - 1]>>]
           Good == {m \in 0 .. N : \E f \in [0 .. m -> S] : Reach(f, m)}
<1>1. 0 \in Good
    <2> DEFINE f == [n \in 0 .. 0 |-> begin]
    <2>1. f \in [0 .. 0 -> S] /\ Reach(f, 0)
        OBVIOUS
    <2> HIDE DEF f, Reach
    <2> QED BY <2>1
<1>2. ASSUME NEW m \in 1 .. N, m - 1 \in Good PROVE m \in Good
    <2>1. PICK f \in [0 .. m - 1 -> S] : Reach(f, m - 1)
        BY <1>2
    <2> DEFINE last == More[<<m, f[m - 1]>>]
               g == [n \in 0 .. m |-> IF n = m THEN last ELSE f[n]]
    <2>2. f[m - 1] \in S
        BY <2>1
    <2>3. last \in S
        BY <2>2
    <2>a. \A n \in 0 .. m : n # m => f[n] \in S
        BY <2>1
    <2>4. g \in [0 .. m -> S]
        BY <2>3, <2>a
    <2>5. g[0] = begin
        BY <2>1
    <2>6. ASSUME NEW n \in 1 .. m PROVE g[n] = More[<<n, g[n - 1]>>]
        <3>1. CASE n = m
            <4>1. g[m] = last /\ g[m - 1] = f[m - 1]
                OBVIOUS
            <4> QED BY <3>1, <4>1
        <3>2. CASE n # m
            <4>1. n \in 1 .. m - 1 /\ n - 1 \in 0 .. m - 1
                BY <3>2
            <4>2. g[n] = f[n] /\ g[n - 1] = f[n - 1]
                BY <3>2, <4>1
            <4> QED BY <2>1, <4>1, <4>2
        <3> QED BY <3>1, <3>2
    <2>7. Reach(g, m)
        BY <2>4, <2>5, <2>6
    <2> HIDE DEF g, Reach
    <2> QED BY <2>4, <2>7
<1>3. N \in Good
    <2> HIDE DEF Good
    <2> QED BY <1>1, <1>2, UpTo
<1>4. PICK f \in [0 .. N -> S] : Reach(f, N)
    BY <1>3
<1>5. Steps(N, begin, More, f)
    BY <1>4 DEF Steps
<1> QED BY <1>5

------------------------------------------------------------------------------

(* Titles in order. *)

Text == Seq(Nat)

LEMMA TextIs ==
    ASSUME NEW s \in Text
    PROVE  /\ Len(s) \in Nat /\ DOMAIN s = 1 .. Len(s)
           /\ \A i \in 1 .. Len(s) : s[i] \in Nat
<1>1. s \in Seq(Nat)
    BY DEF Text
<1> QED BY <1>1, LenProperties, ElementOfSeq

LEMMA PrefixIs ==
    ASSUME NEW s \in Text, NEW t \in Text
    PROVE  IsPrefix(s, t) <=> Len(s) <= Len(t) /\ \A i \in 1 .. Len(s) : s[i] = t[i]
<1> DEFINE n == Len(s)
<1>0. Len(s) \in Nat /\ Len(t) \in Nat /\ n \in Nat
    BY TextIs
<1>1. CASE n <= Len(t)
    <2>1. (\A i \in 1 .. n : s[i] \in Nat) /\ (\A i \in 1 .. n : t[i] \in Nat)
        BY <1>0, <1>1, TextIs
    <2> DEFINE p == SubSeq(s, 1, n)
               q == SubSeq(t, 1, n)
    <2>2. /\ p \in Seq(Nat) /\ q \in Seq(Nat) /\ Len(p) = n /\ Len(q) = n
          /\ \A i \in 1 .. n : p[i] = s[i] /\ q[i] = t[i]
        <3>1. /\ p \in Seq(Nat) /\ Len(p) = (IF 1 <= n THEN n - 1 + 1 ELSE 0)
              /\ \A i \in 1 .. n - 1 + 1 : p[i] = s[1 + i - 1]
            BY <1>0, <2>1, SubSeqProperties
        <3>2. /\ q \in Seq(Nat) /\ Len(q) = (IF 1 <= n THEN n - 1 + 1 ELSE 0)
              /\ \A i \in 1 .. n - 1 + 1 : q[i] = t[1 + i - 1]
            BY <1>0, <2>1, SubSeqProperties
        <3> HIDE DEF p, q, n
        <3>3. Len(p) = n /\ Len(q) = n
            BY <1>0, <3>1, <3>2
        <3>4. ASSUME NEW i \in 1 .. n PROVE p[i] = s[i] /\ q[i] = t[i]
            <4>1. i \in 1 .. n - 1 + 1 /\ 1 + i - 1 = i
                BY <1>0
            <4> QED BY <3>1, <3>2, <4>1
        <3> QED BY <3>1, <3>2, <3>3, <3>4
    <2>3. p = q <=> \A i \in 1 .. n : s[i] = t[i]
        <3> HIDE DEF p, q, n
        <3>1. (\A i \in 1 .. n : s[i] = t[i]) => p = q
            BY <2>2, SeqEqual
        <3> QED BY <2>2, <3>1
    <2> QED BY <1>1, <2>3 DEF IsPrefix
<1>2. CASE ~ (n <= Len(t))
    BY <1>2 DEF IsPrefix
<1> QED BY <1>1, <1>2

(* The first byte where two titles differ decides. *)
LEMMA BeforeIs ==
    ASSUME NEW s \in Text, NEW t \in Text
    PROVE  Before(s, t) <=>
              \/ \E i \in 1 .. Len(s) : i <= Len(t) /\ s[i] < t[i] /\ \A j \in 1 .. i - 1 : s[j] = t[j]
              \/ Len(s) < Len(t) /\ \A j \in 1 .. Len(s) : s[j] = t[j]
<1>1. /\ Len(s) \in Nat /\ DOMAIN s = 1 .. Len(s)
      /\ Len(t) \in Nat /\ DOMAIN t = 1 .. Len(t)
    BY TextIs
<1>2. \A i : i \in DOMAIN s \cap DOMAIN t <=> i \in 1 .. Len(s) /\ i <= Len(t)
    BY <1>1
<1>3. Len(s) < Len(t) /\ IsPrefix(s, t) <=> Len(s) < Len(t) /\ \A j \in 1 .. Len(s) : s[j] = t[j]
    BY <1>1, PrefixIs
<1> QED BY <1>2, <1>3 DEF Before

LEMMA NotBeforeItself ==
    ASSUME NEW s \in Text
    PROVE  ~ Before(s, s)
<1>1. Len(s) \in Nat /\ \A i \in 1 .. Len(s) : s[i] \in Nat
    BY TextIs
<1>2. ~ \E i \in 1 .. Len(s) : s[i] < s[i]
    BY <1>1
<1> QED BY <1>1, <1>2, BeforeIs

LEMMA BeforeTransitive ==
    ASSUME NEW s \in Text, NEW t \in Text, NEW u \in Text, Before(s, t), Before(t, u)
    PROVE  Before(s, u)
<1>0. /\ Len(s) \in Nat /\ \A i \in 1 .. Len(s) : s[i] \in Nat
      /\ Len(t) \in Nat /\ \A i \in 1 .. Len(t) : t[i] \in Nat
      /\ Len(u) \in Nat /\ \A i \in 1 .. Len(u) : u[i] \in Nat
    BY TextIs
<1>1. \/ \E i \in 1 .. Len(s) : i <= Len(t) /\ s[i] < t[i] /\ \A j \in 1 .. i - 1 : s[j] = t[j]
      \/ Len(s) < Len(t) /\ \A j \in 1 .. Len(s) : s[j] = t[j]
    BY BeforeIs
<1>2. \/ \E i \in 1 .. Len(t) : i <= Len(u) /\ t[i] < u[i] /\ \A j \in 1 .. i - 1 : t[j] = u[j]
      \/ Len(t) < Len(u) /\ \A j \in 1 .. Len(t) : t[j] = u[j]
    BY BeforeIs
<1> SUFFICES \/ \E i \in 1 .. Len(s) : i <= Len(u) /\ s[i] < u[i] /\ \A j \in 1 .. i - 1 : s[j] = u[j]
             \/ Len(s) < Len(u) /\ \A j \in 1 .. Len(s) : s[j] = u[j]
    BY BeforeIs
<1>3. CASE \E i \in 1 .. Len(s) : i <= Len(t) /\ s[i] < t[i] /\ \A j \in 1 .. i - 1 : s[j] = t[j]
    <2>1. PICK i \in 1 .. Len(s) : i <= Len(t) /\ s[i] < t[i] /\ \A j \in 1 .. i - 1 : s[j] = t[j]
        BY <1>3
    <2>2. CASE \E m \in 1 .. Len(t) : m <= Len(u) /\ t[m] < u[m] /\ \A j \in 1 .. m - 1 : t[j] = u[j]
        <3>1. PICK m \in 1 .. Len(t) : m <= Len(u) /\ t[m] < u[m] /\ \A j \in 1 .. m - 1 : t[j] = u[j]
            BY <2>2
        <3>2. CASE i < m
            <4>1. t[i] = u[i] /\ i <= Len(u) /\ s[i] < u[i]
                BY <1>0, <2>1, <3>1, <3>2
            <4>2. \A j \in 1 .. i - 1 : s[j] = u[j]
                BY <1>0, <2>1, <3>1, <3>2
            <4> QED BY <4>1, <4>2
        <3>3. CASE i = m
            <4>1. s[i] < u[i] /\ i <= Len(u)
                BY <1>0, <2>1, <3>1, <3>3
            <4>2. \A j \in 1 .. i - 1 : s[j] = u[j]
                BY <1>0, <2>1, <3>1, <3>3
            <4> QED BY <4>1, <4>2
        <3>4. CASE m < i
            <4>1. m \in 1 .. Len(s) /\ m <= Len(u) /\ s[m] = t[m] /\ s[m] < u[m]
                BY <1>0, <2>1, <3>1, <3>4
            <4>2. \A j \in 1 .. m - 1 : s[j] = u[j]
                BY <1>0, <2>1, <3>1, <3>4
            <4> QED BY <4>1, <4>2
        <3> QED BY <1>0, <3>2, <3>3, <3>4
    <2>3. CASE Len(t) < Len(u) /\ \A j \in 1 .. Len(t) : t[j] = u[j]
        <3>1. i <= Len(u) /\ s[i] < u[i]
            BY <1>0, <2>1, <2>3
        <3>2. \A j \in 1 .. i - 1 : s[j] = u[j]
            BY <1>0, <2>1, <2>3
        <3> QED BY <3>1, <3>2
    <2> QED BY <1>2, <2>2, <2>3
<1>4. CASE Len(s) < Len(t) /\ \A j \in 1 .. Len(s) : s[j] = t[j]
    <2>2. CASE \E m \in 1 .. Len(t) : m <= Len(u) /\ t[m] < u[m] /\ \A j \in 1 .. m - 1 : t[j] = u[j]
        <3>1. PICK m \in 1 .. Len(t) : m <= Len(u) /\ t[m] < u[m] /\ \A j \in 1 .. m - 1 : t[j] = u[j]
            BY <2>2
        <3>2. CASE m <= Len(s)
            <4>1. m \in 1 .. Len(s) /\ m <= Len(u) /\ s[m] < u[m]
                BY <1>0, <1>4, <3>1, <3>2
            <4>2. \A j \in 1 .. m - 1 : s[j] = u[j]
                BY <1>0, <1>4, <3>1, <3>2
            <4> QED BY <4>1, <4>2
        <3>3. CASE Len(s) < m
            <4>1. Len(s) < Len(u) /\ \A j \in 1 .. Len(s) : s[j] = u[j]
                BY <1>0, <1>4, <3>1, <3>3
            <4> QED BY <4>1
        <3> QED BY <1>0, <3>2, <3>3
    <2>3. CASE Len(t) < Len(u) /\ \A j \in 1 .. Len(t) : t[j] = u[j]
        <3>1. Len(s) < Len(u) /\ \A j \in 1 .. Len(s) : s[j] = u[j]
            BY <1>0, <1>4, <2>3
        <3> QED BY <3>1
    <2> QED BY <1>2, <2>2, <2>3
<1> QED BY <1>1, <1>3, <1>4

LEMMA NotBothBefore ==
    ASSUME NEW s \in Text, NEW t \in Text, Before(s, t)
    PROVE  ~ Before(t, s)
BY BeforeTransitive, NotBeforeItself

LEMMA BeforeTotal ==
    ASSUME NEW s \in Text, NEW t \in Text
    PROVE  s = t \/ Before(s, t) \/ Before(t, s)
<1>0. /\ Len(s) \in Nat /\ \A i \in 1 .. Len(s) : s[i] \in Nat
      /\ Len(t) \in Nat /\ \A i \in 1 .. Len(t) : t[i] \in Nat
    BY TextIs
<1> DEFINE Apart == {i \in 1 .. Len(s) : i <= Len(t) /\ s[i] # t[i]}
<1>1. CASE Apart = {}
    <2>1. \A i \in 1 .. Len(s) : i <= Len(t) => s[i] = t[i]
        BY <1>1
    <2>2. CASE Len(s) = Len(t)
        <3>1. \A i \in 1 .. Len(s) : s[i] = t[i]
            BY <1>0, <2>1, <2>2
        <3> QED BY <2>2, <3>1, SeqEqual DEF Text
    <2>3. CASE Len(s) < Len(t)
        <3>1. \A i \in 1 .. Len(s) : s[i] = t[i]
            BY <1>0, <2>1, <2>3
        <3> QED BY <2>3, <3>1, BeforeIs
    <2>4. CASE Len(t) < Len(s)
        <3>1. \A i \in 1 .. Len(t) : t[i] = s[i]
            BY <1>0, <2>1, <2>4
        <3> QED BY <2>4, <3>1, BeforeIs
    <2> QED BY <1>0, <2>2, <2>3, <2>4
<1>2. CASE Apart # {}
    <2>1. Apart \subseteq Nat
        BY <1>0
    <2>2. PICK i \in Apart : \A j \in Apart : i <= j
        <3> HIDE DEF Apart
        <3> QED BY <1>2, <2>1, LeastNumber
    <2>3. i \in 1 .. Len(s) /\ i \in 1 .. Len(t) /\ s[i] # t[i]
        BY <1>0
    <2>4. ASSUME NEW j \in 1 .. i - 1 PROVE s[j] = t[j]
        <3>1. j \in 1 .. Len(s) /\ j <= Len(t) /\ ~ (i <= j)
            BY <1>0, <2>3
        <3> QED BY <2>2, <3>1
    <2>5. s[i] < t[i] \/ t[i] < s[i]
        BY <1>0, <2>3
    <2>6. CASE s[i] < t[i]
        BY <1>0, <2>3, <2>4, <2>6, BeforeIs
    <2>7. CASE t[i] < s[i]
        <3>1. i <= Len(s) /\ \A j \in 1 .. i - 1 : t[j] = s[j]
            BY <1>0, <2>3, <2>4
        <3> QED BY <2>3, <2>7, <3>1, BeforeIs
    <2> QED BY <2>5, <2>6, <2>7
<1> QED BY <1>1, <1>2

(* A title that begins with t is not before t. *)
LEMMA PrefixNotAfter ==
    ASSUME NEW t \in Text, NEW u \in Text, IsPrefix(t, u)
    PROVE  ~ Before(u, t)
<1>0. /\ Len(t) \in Nat /\ \A i \in 1 .. Len(t) : t[i] \in Nat
      /\ Len(u) \in Nat /\ \A i \in 1 .. Len(u) : u[i] \in Nat
    BY TextIs
<1>1. Len(t) <= Len(u) /\ \A i \in 1 .. Len(t) : t[i] = u[i]
    BY PrefixIs
<1>2. ASSUME NEW i \in 1 .. Len(u), i <= Len(t) PROVE ~ (u[i] < t[i])
    BY <1>0, <1>1, <1>2
<1>3. ~ (Len(u) < Len(t))
    BY <1>0, <1>1
<1> QED BY <1>2, <1>3, BeforeIs

(* So what begins with t follows it without a gap. *)
LEMMA PrefixesAdjoin ==
    ASSUME NEW t \in Text, NEW u \in Text, NEW v \in Text,
           ~ Before(u, t), Before(u, v), IsPrefix(t, v)
    PROVE  IsPrefix(t, u)
<1>0. /\ Len(t) \in Nat /\ \A i \in 1 .. Len(t) : t[i] \in Nat
      /\ Len(u) \in Nat /\ \A i \in 1 .. Len(u) : u[i] \in Nat
      /\ Len(v) \in Nat /\ \A i \in 1 .. Len(v) : v[i] \in Nat
    BY TextIs
<1>1. Len(t) <= Len(v) /\ \A i \in 1 .. Len(t) : t[i] = v[i]
    BY PrefixIs
<1>2. CASE t = u
    BY <1>0, <1>2, PrefixIs
<1>3. CASE \E i \in 1 .. Len(t) : i <= Len(u) /\ t[i] < u[i] /\ \A j \in 1 .. i - 1 : t[j] = u[j]
    <2>1. PICK i \in 1 .. Len(t) : i <= Len(u) /\ t[i] < u[i] /\ \A j \in 1 .. i - 1 : t[j] = u[j]
        BY <1>3
    <2>2. i \in 1 .. Len(v) /\ v[i] < u[i]
        BY <1>0, <1>1, <2>1
    <2>3. \A j \in 1 .. i - 1 : v[j] = u[j]
        BY <1>0, <1>1, <2>1
    <2>4. Before(v, u)
        BY <2>1, <2>2, <2>3, BeforeIs
    <2> QED BY <2>4, NotBothBefore
<1>4. CASE Len(t) < Len(u) /\ \A j \in 1 .. Len(t) : t[j] = u[j]
    BY <1>0, <1>4, PrefixIs
<1>5. t = u \/ Before(t, u)
    BY BeforeTotal
<1> QED BY <1>2, <1>3, <1>4, <1>5, BeforeIs
------------------------------------------------------------------------------

(* The index of an accepted archive. *)

LEMMA BoundedIs ==
    ASSUME NEW S, NEW n \in Nat
    PROVE  \A s \in BoundedSeq(S, n) : \E m \in 0 .. n : s \in [1 .. m -> S]
BY DEF BoundedSeq, SeqOf

LEMMA IndexIs ==
    ASSUME index \in Indexes
    PROVE  /\ index.table \in Text /\ Len(index.table) \in Nat /\ TableSize = Len(index.table)
           /\ index.range \in Seq(Ranges(index.table)) /\ Count \in Nat
           /\ Sorted(index.range, index.table)
<1>1. PICK t \in Tables : index \in {[table |-> t, range |-> r, sized |-> s] :
              r \in {q \in BoundedSeq(Ranges(t), MaxEntries) : Sorted(q, t)}, s \in BOOLEAN}
    BY DEF Indexes
<1>2. PICK r \in {q \in BoundedSeq(Ranges(t), MaxEntries) : Sorted(q, t)} :
          \E s \in BOOLEAN : index = [table |-> t, range |-> r, sized |-> s]
    BY <1>1
<1>3. index.table = t /\ index.range = r
    BY <1>2
<1>4. t \in Text
    BY TitleAssumption DEF Text
<1>5. r \in BoundedSeq(Ranges(t), MaxEntries) /\ Sorted(r, t)
    BY <1>2
<1>6. r \in Seq(Ranges(t))
    <2>1. MaxEntries \in Nat
        BY TitleAssumption
    <2>2. PICK n \in 0 .. MaxEntries : r \in [1 .. n -> Ranges(t)]
        BY <1>5, <2>1, BoundedIs
    <2> QED BY <2>1, <2>2, SeqDef
<1> HIDE DEF Ranges, Sorted
<1>7. Len(t) \in Nat /\ Len(r) \in Nat
    BY <1>4, <1>6, TextIs, LenProperties
<1> QED BY <1>3, <1>4, <1>5, <1>6, <1>7 DEF TableSize, Count

LEMMA RangeIs ==
    ASSUME index \in Indexes, NEW k \in 1 .. Count
    PROVE  LET r == index.range[k]
           IN  r.off \in Nat /\ r.len \in Nat /\ 1 <= r.len /\ r.off + r.len <= TableSize
<1>1. index.range[k] \in Ranges(index.table)
    BY IndexIs, ElementOfSeq DEF Count
<1>2. Len(index.table) \in Nat /\ TableSize = Len(index.table)
    BY IndexIs
<1> QED BY <1>1, <1>2 DEF Ranges

LEMMA PartIs ==
    ASSUME NEW s \in Text, NEW off \in Nat, NEW len \in Nat, off + len <= Len(s)
    PROVE  LET p == SubSeq(s, off + 1, off + len)
           IN  p \in Text /\ Len(p) = len /\ \A i \in 1 .. len : p[i] = s[off + i]
<1> DEFINE p == SubSeq(s, off + 1, off + len)
<1>1. Len(s) \in Nat /\ \A i \in 1 .. Len(s) : s[i] \in Nat
    BY TextIs
<1>2. \A i \in off + 1 .. off + len : s[i] \in Nat
    BY <1>1
<1>3. /\ p \in Seq(Nat) /\ Len(p) = (IF off + 1 <= off + len THEN off + len - (off + 1) + 1 ELSE 0)
      /\ \A i \in 1 .. off + len - (off + 1) + 1 : p[i] = s[off + 1 + i - 1]
    BY <1>2, SubSeqProperties
<1> HIDE DEF p
<1>4. Len(p) = len
    BY <1>3
<1>5. ASSUME NEW i \in 1 .. len PROVE p[i] = s[off + i]
    <2>1. i \in 1 .. off + len - (off + 1) + 1 /\ off + 1 + i - 1 = off + i
        OBVIOUS
    <2> QED BY <1>3, <2>1
<1>6. p \in Text
    BY <1>3 DEF Text
<1> QED BY <1>4, <1>5, <1>6 DEF p

LEMMA TitleIs ==
    ASSUME index \in Indexes, NEW k \in 1 .. Count
    PROVE  /\ Title(k) \in Text /\ Len(Title(k)) = index.range[k].len
           /\ \A i \in 1 .. index.range[k].len : Title(k)[i] = index.table[index.range[k].off + i]
<1>1. /\ index.range[k].off \in Nat /\ index.range[k].len \in Nat
      /\ index.range[k].off + index.range[k].len <= Len(index.table) /\ index.table \in Text
    BY RangeIs, IndexIs
<1>2. Title(k) = SubSeq(index.table, index.range[k].off + 1, index.range[k].off + index.range[k].len)
    BY DEF Title, Bytes
<1> DEFINE off == index.range[k].off
           len == index.range[k].len
<1>3. Title(k) = SubSeq(index.table, off + 1, off + len)
    BY <1>2
<1>4. off \in Nat /\ len \in Nat /\ off + len <= Len(index.table) /\ index.table \in Text
    BY <1>1
<1> HIDE DEF off, len
<1> DEFINE p == SubSeq(index.table, off + 1, off + len)
<1>5. p \in Text /\ Len(p) = len /\ \A i \in 1 .. len : p[i] = index.table[off + i]
    BY <1>4, PartIs, Zenon
<1>6. Title(k) = p
    BY <1>3
<1> HIDE DEF p
<1> QED BY <1>5, <1>6 DEF off, len

LEMMA TitlesInOrder ==
    ASSUME index \in Indexes
    PROVE  \A i, j \in 1 .. Count : i < j => Before(Title(i), Title(j))
<1>0. Count \in Nat
    BY IndexIs
<1>1. ASSUME NEW i \in 1 .. Count - 1 PROVE Before(Title(i), Title(i + 1))
    <2>1. Sorted(index.range, index.table)
        BY IndexIs
    <2>2. i \in 1 .. Len(index.range) - 1
        BY DEF Count
    <2>3. Before(SubSeq(index.table, index.range[i].off + 1, index.range[i].off + index.range[i].len),
                 SubSeq(index.table, index.range[i + 1].off + 1, index.range[i + 1].off + index.range[i + 1].len))
        BY <2>1, <2>2, Zenon DEF Sorted
    <2> QED BY <2>3, Zenon DEF Title, Bytes
<1> DEFINE Good == {j \in 0 .. Count : \A i \in 1 .. j - 1 : Before(Title(i), Title(j))}
<1>2. 0 \in Good
    BY <1>0
<1>3. ASSUME NEW j \in 1 .. Count, j - 1 \in Good PROVE j \in Good
    <2>1. ASSUME NEW i \in 1 .. j - 1 PROVE Before(Title(i), Title(j))
        <3>1. CASE i = j - 1
            <4>1. i \in 1 .. Count - 1 /\ i + 1 = j
                BY <1>0, <3>1
            <4> QED BY <1>1, <4>1
        <3>2. CASE i # j - 1
            <4>1. i \in 1 .. (j - 1) - 1 /\ j - 1 \in 1 .. Count - 1 /\ (j - 1) + 1 = j
                BY <1>0, <3>2
            <4>2. Before(Title(i), Title(j - 1))
                BY <1>3, <4>1
            <4>3. Before(Title(j - 1), Title(j))
                BY <1>1, <4>1
            <4>4. Title(i) \in Text /\ Title(j - 1) \in Text /\ Title(j) \in Text
                BY <1>0, <4>1, TitleIs
            <4> QED BY <4>2, <4>3, <4>4, BeforeTransitive
        <3> QED BY <3>1, <3>2
    <2>2. j \in 0 .. Count
        BY <1>0
    <2> QED BY <2>1, <2>2
<1>4. \A j \in 0 .. Count : j \in Good
    <2> HIDE DEF Good
    <2> QED BY <1>0, <1>2, <1>3, UpTo
<1>5. ASSUME NEW i \in 1 .. Count, NEW j \in 1 .. Count, i < j PROVE Before(Title(i), Title(j))
    <2>1. j \in 0 .. Count /\ i \in 1 .. j - 1
        BY <1>0, <1>5
    <2>2. j \in Good
        BY <1>4, <2>1
    <2> QED BY <2>1, <2>2
<1> QED BY <1>5

------------------------------------------------------------------------------

(* Binary search finds the first title that is not before t. *)

Splits(p, t) == \A k \in 1 .. Count : Before(Title(k), t) <=> k <= p

LEMMA SplitExists ==
    ASSUME index \in Indexes, NEW t \in Text
    PROVE  \E p \in 0 .. Count : Splits(p, t)
<1>0. Count \in Nat
    BY IndexIs
<1> DEFINE Late == {k \in 1 .. Count : ~ Before(Title(k), t)}
<1>1. CASE Late = {}
    <2>1. Splits(Count, t)
        BY <1>0, <1>1 DEF Splits
    <2> QED BY <1>0, <2>1
<1>2. CASE Late # {}
    <2>1. Late \subseteq Nat
        BY <1>0
    <2>2. PICK k \in Late : \A j \in Late : k <= j
        <3> HIDE DEF Late
        <3> QED BY <1>2, <2>1, LeastNumber
    <2>3. k \in 1 .. Count /\ ~ Before(Title(k), t)
        OBVIOUS
    <2>4. ASSUME NEW j \in 1 .. Count PROVE Before(Title(j), t) <=> j <= k - 1
        <3>1. CASE j < k
            <4>1. j \notin Late
                BY <1>0, <2>2, <3>1
            <4> QED BY <1>0, <2>3, <3>1, <4>1
        <3>2. CASE j = k
            BY <1>0, <2>3, <3>2
        <3>3. CASE k < j
            <4>1. Before(Title(k), Title(j)) /\ Title(k) \in Text /\ Title(j) \in Text
                BY <2>3, <3>3, TitlesInOrder, TitleIs
            <4>2. ~ Before(Title(j), t)
                BY <2>3, <4>1, BeforeTransitive
            <4> QED BY <1>0, <2>3, <3>3, <4>2
        <3> QED BY <1>0, <2>3, <3>1, <3>2, <3>3
    <2>5. k - 1 \in 0 .. Count /\ Splits(k - 1, t)
        BY <1>0, <2>3, <2>4 DEF Splits
    <2> QED BY <2>5
<1> QED BY <1>1, <1>2

LEMMA MiddleIs ==
    ASSUME NEW lo \in Nat, NEW hi \in Nat, lo < hi
    PROVE  LET mid == lo + ((hi - lo) \div 2) IN mid \in Nat /\ lo <= mid /\ mid < hi
OBVIOUS

Searches(t, f) ==
    f = [r \in (0 .. Count) \X (0 .. Count) |->
            LET lo == r[1]
                hi == r[2]
                mid == lo + ((hi - lo) \div 2)
            IN  IF lo >= hi THEN lo
                ELSE IF Before(Title(mid + 1), t) THEN f[<<mid + 1, hi>>]
                ELSE f[<<lo, mid>>]]

LEMMA LowerBoundIs ==
    ASSUME NEW t
    PROVE  LowerBound(t) = (CHOOSE f : Searches(t, f))[<<0, Count>>]
BY DEF LowerBound, Searches

(* What the recursion computes: the split, kept within the bounds. *)
Kept(p, lo, hi) == IF lo >= hi \/ p < lo THEN lo ELSE IF p > hi THEN hi ELSE p

LEMMA KeptIsSearched ==
    ASSUME index \in Indexes, NEW t \in Text, NEW p \in 0 .. Count, Splits(p, t)
    PROVE  Searches(t, [r \in (0 .. Count) \X (0 .. Count) |-> Kept(p, r[1], r[2])])
<1> DEFINE D == (0 .. Count) \X (0 .. Count)
           g == [r \in D |-> Kept(p, r[1], r[2])]
           Middle(r) == r[1] + ((r[2] - r[1]) \div 2)
<1>0. Count \in Nat
    BY IndexIs
<1>1. ASSUME NEW r \in D
      PROVE  g[r] = IF r[1] >= r[2] THEN r[1]
                    ELSE IF Before(Title(Middle(r) + 1), t) THEN g[<<Middle(r) + 1, r[2]>>]
                    ELSE g[<<r[1], Middle(r)>>]
    <2> DEFINE lo == r[1]
               hi == r[2]
               mid == lo + ((hi - lo) \div 2)
    <2>1. lo \in 0 .. Count /\ hi \in 0 .. Count
        OBVIOUS
    <2>2. g[r] = Kept(p, lo, hi)
        OBVIOUS
    <2>3. CASE lo >= hi
        BY <2>2, <2>3 DEF Kept
    <2>4. CASE lo < hi
        <3>1. mid \in Nat /\ lo <= mid /\ mid < hi
            BY <1>0, <2>1, <2>4, MiddleIs
        <3>2. <<mid + 1, hi>> \in D /\ <<lo, mid>> \in D /\ mid + 1 \in 1 .. Count
            <4> HIDE DEF mid, lo, hi
            <4> QED BY <1>0, <2>1, <3>1
        <3>3. g[<<mid + 1, hi>>] = Kept(p, mid + 1, hi) /\ g[<<lo, mid>>] = Kept(p, lo, mid)
            <4> HIDE DEF mid, lo, hi
            <4> QED BY <3>2
        <3>4. Before(Title(mid + 1), t) <=> mid + 1 <= p
            <4> HIDE DEF mid
            <4> QED BY <3>2 DEF Splits
        <3>5. Kept(p, lo, hi) = IF mid + 1 <= p THEN Kept(p, mid + 1, hi) ELSE Kept(p, lo, mid)
            <4> HIDE DEF mid, lo, hi
            <4> QED BY <1>0, <2>1, <2>4, <3>1 DEF Kept
        <3>6. g[r] = IF Before(Title(mid + 1), t) THEN g[<<mid + 1, hi>>] ELSE g[<<lo, mid>>]
            <4> HIDE DEF mid, lo, hi, g
            <4> QED BY <2>2, <3>3, <3>4, <3>5
        <3> HIDE DEF g
        <3> QED BY <2>1, <2>4, <3>6
    <2> QED BY <2>1, <2>3, <2>4
<1>2. g = [r \in D |-> g[r]]
    OBVIOUS
<1> HIDE DEF g
<1>3. g = [r \in D |-> IF r[1] >= r[2] THEN r[1]
                        ELSE IF Before(Title(Middle(r) + 1), t) THEN g[<<Middle(r) + 1, r[2]>>]
                        ELSE g[<<r[1], Middle(r)>>]]
    BY <1>1, <1>2
<1>4. Searches(t, g)
    BY <1>3 DEF Searches
<1> QED BY <1>4 DEF g

LEMMA SearchesAgree ==
    ASSUME index \in Indexes, NEW t \in Text, NEW f, NEW g, Searches(t, f), Searches(t, g),
           NEW r \in (0 .. Count) \X (0 .. Count)
    PROVE  f[r] = g[r]
<1> DEFINE D == (0 .. Count) \X (0 .. Count)
           Middle(q) == q[1] + ((q[2] - q[1]) \div 2)
           Wide(q) == IF q[1] >= q[2] THEN 0 ELSE q[2] - q[1]
           Unlike == {n \in 0 .. Count : \E q \in D : Wide(q) = n /\ f[q] # g[q]}
<1>0. Count \in Nat
    BY IndexIs
<1>1. ASSUME NEW q \in D
      PROVE  /\ f[q] = IF q[1] >= q[2] THEN q[1]
                       ELSE IF Before(Title(Middle(q) + 1), t) THEN f[<<Middle(q) + 1, q[2]>>]
                       ELSE f[<<q[1], Middle(q)>>]
             /\ g[q] = IF q[1] >= q[2] THEN q[1]
                       ELSE IF Before(Title(Middle(q) + 1), t) THEN g[<<Middle(q) + 1, q[2]>>]
                       ELSE g[<<q[1], Middle(q)>>]
    BY DEF Searches
<1> SUFFICES ASSUME f[r] # g[r] PROVE FALSE
    OBVIOUS
<1>2. ASSUME NEW q \in D PROVE q[1] \in 0 .. Count /\ q[2] \in 0 .. Count /\ Wide(q) \in 0 .. Count
    <2>1. q[1] \in 0 .. Count /\ q[2] \in 0 .. Count
        OBVIOUS
    <2> QED BY <1>0, <2>1
<1>3. Unlike # {} /\ Unlike \subseteq Nat
    <2>1. Wide(r) \in 0 .. Count
        BY <1>2
    <2> HIDE DEF Wide
    <2> QED BY <1>0, <2>1
<1>4. PICK n \in Unlike : \A m \in Unlike : n <= m
    <2> HIDE DEF Unlike
    <2> QED BY <1>3, LeastNumber
<1>5. PICK q \in D : Wide(q) = n /\ f[q] # g[q]
    OBVIOUS
<1>6. ASSUME NEW u \in D, Wide(u) < n PROVE f[u] = g[u]
    <2>1. Wide(u) \in 0 .. Count /\ n \in Nat
        BY <1>0, <1>2
    <2>2. Wide(u) \notin Unlike
        <3> HIDE DEF Unlike, Wide
        <3> QED BY <1>4, <1>6, <2>1
    <2> HIDE DEF Wide
    <2> QED BY <2>1, <2>2
<1> DEFINE mid == Middle(q)
<1>7. q[1] < q[2]
    <2>1. ~ (q[1] >= q[2])
        BY <1>1, <1>5, Zenon
    <2> QED BY <1>2, <2>1
<1>8. mid \in Nat /\ q[1] <= mid /\ mid < q[2]
    BY <1>2, <1>7, MiddleIs
<1>9. <<mid + 1, q[2]>> \in D /\ <<q[1], mid>> \in D
    <2> HIDE DEF mid
    <2> QED BY <1>0, <1>2, <1>8
<1>10. Wide(<<mid + 1, q[2]>>) < n /\ Wide(<<q[1], mid>>) < n
    <2> HIDE DEF mid
    <2> QED BY <1>0, <1>2, <1>5, <1>7, <1>8
<1>11. f[<<mid + 1, q[2]>>] = g[<<mid + 1, q[2]>>] /\ f[<<q[1], mid>>] = g[<<q[1], mid>>]
    <2> HIDE DEF Wide, mid, D
    <2> QED BY <1>6, <1>9, <1>10
<1>12. f[q] = IF Before(Title(mid + 1), t) THEN f[<<mid + 1, q[2]>>] ELSE f[<<q[1], mid>>]
    BY <1>1, <1>2, <1>7
<1>13. g[q] = IF Before(Title(mid + 1), t) THEN g[<<mid + 1, q[2]>>] ELSE g[<<q[1], mid>>]
    BY <1>1, <1>2, <1>7
<1> HIDE DEF mid
<1> QED BY <1>5, <1>11, <1>12, <1>13

LEMMA LowerBoundSplits ==
    ASSUME index \in Indexes, NEW t \in Text
    PROVE  LowerBound(t) \in 0 .. Count /\ Splits(LowerBound(t), t)
<1>1. PICK p \in 0 .. Count : Splits(p, t)
    BY SplitExists
<1> DEFINE f == CHOOSE g : Searches(t, g)
           h == [r \in (0 .. Count) \X (0 .. Count) |-> Kept(p, r[1], r[2])]
<1>2. Searches(t, h)
    BY <1>1, KeptIsSearched
<1>3. Searches(t, f)
    <2> HIDE DEF h
    <2> QED BY <1>2
<1>4. Count \in Nat
    BY IndexIs
<1>5. <<0, Count>> \in (0 .. Count) \X (0 .. Count)
    BY <1>4
<1>6. h[<<0, Count>>] = Kept(p, 0, Count)
    BY <1>5
<1>7. Kept(p, 0, Count) = p
    BY <1>1, <1>4 DEF Kept
<1>8. f[<<0, Count>>] = h[<<0, Count>>]
    <2> HIDE DEF f, h
    <2> QED BY <1>2, <1>3, <1>5, SearchesAgree
<1>9. LowerBound(t) = f[<<0, Count>>]
    BY LowerBoundIs
<1> HIDE DEF f, h
<1> QED BY <1>1, <1>6, <1>7, <1>8, <1>9
------------------------------------------------------------------------------

(* Exact matches and prefixes. *)

LEMMA MatchIsFirst ==
    ASSUME index \in Indexes, NEW t \in Text, NEW k \in 1 .. Count, Title(k) = t
    PROVE  k = LowerBound(t) + 1
<1>0. Count \in Nat /\ LowerBound(t) \in 0 .. Count /\ Splits(LowerBound(t), t)
    BY IndexIs, LowerBoundSplits
<1> DEFINE p == LowerBound(t)
<1>1. ~ (k <= p)
    BY <1>0, NotBeforeItself DEF Splits
<1>2. CASE p + 1 < k
    <2>1. p + 1 \in 1 .. Count
        BY <1>0, <1>2
    <2>2. Before(Title(p + 1), t)
        BY <1>2, <2>1, TitlesInOrder
    <2>3. p + 1 <= p
        BY <1>0, <2>1, <2>2 DEF Splits
    <2> QED BY <1>0, <2>3
<1> HIDE DEF p
<1>3. p \in Int /\ k \in Int /\ ~ (p + 1 < k)
    BY <1>0, <1>2 DEF p
<1>4. k = p + 1
    BY <1>1, <1>3
<1> QED BY <1>4 DEF p

LEMMA ExactIs ==
    ASSUME index \in Indexes, NEW t \in Text
    PROVE  ExactMatch(t) = 0 \/ (ExactMatch(t) \in 1 .. Count /\ Title(ExactMatch(t)) = t)
<1>1. Count \in Nat /\ LowerBound(t) \in 0 .. Count
    BY IndexIs, LowerBoundSplits
<1> QED BY <1>1 DEF ExactMatch

(* tl_prefix() returns a block of titles, the first that begin with t, and *)
(* all of them unless it is full.                                          *)
LEMMA PrefixesFound ==
    ASSUME index \in Indexes, NEW t \in Text, NEW max \in Nat, 1 <= max
    PROVE  \E first \in 1 .. Count + 1, n \in Nat :
              /\ PrefixMatches(t, max) = [i \in 1 .. n |-> first + i - 1]
              /\ n <= max /\ first + n - 1 <= Count
              /\ \A i \in 1 .. n : IsPrefix(t, Title(first + i - 1))
              /\ \A k \in 1 .. Count : IsPrefix(t, Title(k)) =>
                    first <= k /\ (k <= first + n - 1 \/ n = max)
              /\ \A k \in 1 .. Count : Title(k) = t => k = first
<1> DEFINE first == LowerBound(t) + 1
           Fits(n) == PrefixRun(t, first, n) /\ n < first + max
           Ends(n) == n = Count \/ n + 1 = first + max \/ ~ PrefixRun(t, first, n + 1)
           Runs == {n \in first - 1 .. Count : Fits(n)}
           last == CHOOSE n \in first - 1 .. Count : PrefixRun(t, first, n) /\ n < first + max
                       /\ (n = Count \/ n + 1 = first + max \/ ~ PrefixRun(t, first, n + 1))
<1>0. Count \in Nat /\ LowerBound(t) \in 0 .. Count /\ Splits(LowerBound(t), t)
    BY IndexIs, LowerBoundSplits
<1>1. first \in 1 .. Count + 1 /\ first - 1 = LowerBound(t)
    BY <1>0
<1>2. \A k \in 1 .. Count : Before(Title(k), t) <=> k < first
    <2>1. \A k \in 1 .. Count : k <= LowerBound(t) <=> k < first
        BY <1>0
    <2> QED BY <1>0, <2>1 DEF Splits
<1>3. \A k \in 1 .. Count : Title(k) = t => k = first
    BY MatchIsFirst
<1>4. PrefixMatches(t, max) = [i \in 1 .. last - first + 1 |-> first + i - 1]
    BY DEF PrefixMatches
<1> HIDE DEF first
<1>5. \E n \in first - 1 .. Count : Fits(n) /\ Ends(n)
    <2> DEFINE Rest == {Count - n : n \in Runs}
    <2>1. first - 1 \in Runs
        BY <1>0, <1>1 DEF PrefixRun
    <2>2. Rest \subseteq Nat /\ Rest # {}
        BY <1>0, <1>1, <2>1
    <2>3. PICK m \in Rest : \A y \in Rest : m <= y
        <3> HIDE DEF Rest
        <3> QED BY <2>2, LeastNumber
    <2>4. PICK n \in Runs : m = Count - n
        OBVIOUS
    <2>5. n \in first - 1 .. Count /\ Fits(n)
        OBVIOUS
    <2>6. CASE n # Count /\ n + 1 # first + max
        <3>1. n + 1 \in first - 1 .. Count /\ n + 1 < first + max
            BY <1>0, <1>1, <2>5, <2>6
        <3>2. n + 1 \notin Runs
            <4>1. ASSUME n + 1 \in Runs PROVE FALSE
                <5>1. Count - (n + 1) \in Rest
                    BY <4>1
                <5>2. m <= Count - (n + 1)
                    <6> HIDE DEF Rest
                    <6> QED BY <2>3, <5>1
                <5> QED BY <1>0, <1>1, <2>4, <2>5, <5>2
            <4> QED BY <4>1
        <3> QED BY <2>5, <3>1, <3>2
    <2> QED BY <2>5, <2>6
<1>6. last \in first - 1 .. Count /\ Fits(last) /\ Ends(last)
    BY <1>5
<1> DEFINE n == last - first + 1
<1> HIDE DEF last
<1>7. n \in Nat /\ n <= max /\ first + n - 1 = last
    BY <1>0, <1>1, <1>6
<1>8. PrefixMatches(t, max) = [i \in 1 .. n |-> first + i - 1]
    BY <1>4
<1>9. ASSUME NEW i \in 1 .. n PROVE IsPrefix(t, Title(first + i - 1))
    <2>1. first + i - 1 \in first .. last
        BY <1>0, <1>1, <1>6, <1>7
    <2> QED BY <1>6, <2>1 DEF PrefixRun
<1>10. ASSUME NEW k \in 1 .. Count, IsPrefix(t, Title(k)) PROVE first <= k /\ (k <= last \/ n = max)
    <2>0. Title(k) \in Text
        BY TitleIs
    <2>1. first <= k
        <3>1. ~ Before(Title(k), t)
            BY <1>10, <2>0, PrefixNotAfter
        <3> QED BY <1>1, <1>2, <3>1
    <2>2. CASE last < k /\ n # max
        <3>1. last + 1 \in 1 .. Count /\ last + 1 # first + max /\ last # Count
            BY <1>0, <1>1, <1>6, <1>7, <2>2
        <3>2. ~ PrefixRun(t, first, last + 1)
            BY <1>6, <3>1
        <3>3. ~ IsPrefix(t, Title(last + 1))
            <4>1. \A j \in first .. last + 1 : j \in first .. last \/ j = last + 1
                BY <1>0, <1>1, <1>6
            <4> QED BY <1>6, <3>2, <4>1 DEF PrefixRun
        <3>4. last + 1 < k
            BY <1>0, <1>6, <1>10, <2>2, <3>1, <3>3
        <3>5. Before(Title(last + 1), Title(k)) /\ Title(last + 1) \in Text
            BY <3>1, <3>4, TitlesInOrder, TitleIs
        <3>6. ~ Before(Title(last + 1), t)
            BY <1>1, <1>2, <1>6, <3>1
        <3> QED BY <1>10, <2>0, <3>3, <3>5, <3>6, PrefixesAdjoin
    <2> QED BY <1>0, <1>6, <2>1, <2>2
<1> HIDE DEF n
<1>11. first + n - 1 <= Count
    BY <1>0, <1>6, <1>7
<1> QED BY <1>1, <1>3, <1>7, <1>8, <1>9, <1>10, <1>11

------------------------------------------------------------------------------

(* Word starts. *)

LEMMA WordStartIs ==
    ASSUME NEW title \in Text, NEW t \in Text, t # <<>>
    PROVE  WordStart(title, t) <=> ~ IsPrefix(t, title) /\ BeginsWord(t, title)
<1>0. Len(title) \in Nat /\ Len(t) \in Nat /\ 1 <= Len(t)
    BY TextIs, EmptySeq DEF Text
<1> DEFINE here(i) == SubSeq(title, i + 1, i + Len(t))
           rest(i) == SubSeq(title, i, Len(title))
<1>1. ASSUME NEW i \in 1 .. Len(title) - Len(t)
      PROVE  /\ i + 1 \in 2 .. Len(title)
             /\ here(i) = t <=> IsPrefix(t, rest(i + 1))
    <2>1. i + 1 \in 2 .. Len(title) /\ i \in Nat /\ i + Len(t) <= Len(title)
        BY <1>0
    <2>2. here(i) \in Text /\ Len(here(i)) = Len(t) /\ \A j \in 1 .. Len(t) : here(i)[j] = title[i + j]
        BY <1>0, <2>1, PartIs
    <2> DEFINE m == Len(title) - i
    <2>3. m \in Nat /\ i + m = Len(title) /\ Len(t) <= m
        BY <1>0, <2>1
    <2>4. rest(i + 1) = SubSeq(title, i + 1, i + m)
        BY <2>3
    <2> HIDE DEF m
    <2> DEFINE r == SubSeq(title, i + 1, i + m)
    <2>5. r \in Text /\ Len(r) = m /\ \A j \in 1 .. m : r[j] = title[i + j]
        BY <1>0, <2>1, <2>3, PartIs
    <2> HIDE DEF r
    <2>6. IsPrefix(t, r) <=> \A j \in 1 .. Len(t) : t[j] = title[i + j]
        <3>1. \A j \in 1 .. Len(t) : j \in 1 .. m
            BY <1>0, <2>3
        <3> QED BY <1>0, <2>3, <2>5, <3>1, PrefixIs
    <2> DEFINE h == here(i)
    <2>7. h = t <=> \A j \in 1 .. Len(t) : t[j] = title[i + j]
        <3> HIDE DEF h
        <3>0. h \in Seq(Nat) /\ t \in Seq(Nat) /\ Len(h) = Len(t) /\ \A j \in 1 .. Len(t) : h[j] = title[i + j]
            BY <2>2 DEF h, Text
        <3>1. (\A j \in 1 .. Len(t) : t[j] = title[i + j]) => h = t
            BY <3>0, SeqEqual
        <3> QED BY <3>0, <3>1
    <2> QED BY <2>1, <2>4, <2>6, <2>7 DEF r
<1>2. ASSUME NEW i \in 2 .. Len(title), IsPrefix(t, rest(i))
      PROVE  i - 1 \in 1 .. Len(title) - Len(t)
    <2>1. i - 1 \in Nat /\ (i - 1) + (Len(title) - i + 1) = Len(title) /\ Len(title) - i + 1 \in Nat
        BY <1>0
    <2> DEFINE m == Len(title) - i + 1
               o == i - 1
    <2>2. rest(i) = SubSeq(title, o + 1, o + m)
        BY <1>0
    <2>3. o \in Nat /\ m \in Nat /\ o + m <= Len(title)
        BY <2>1
    <2> HIDE DEF m, o
    <2>4. Len(rest(i)) = m
        BY <2>2, <2>3, PartIs
    <2>5. Len(t) <= m
        BY <1>2, <2>4 DEF IsPrefix
    <2> QED BY <1>0, <2>5 DEF m
<1> HIDE DEF here, rest
<1>3. WordStart(title, t) <=>
        ~ IsPrefix(t, title) /\ \E i \in 1 .. Len(title) - Len(t) : ~ WordByte(title[i]) /\ here(i) = t
    BY DEF WordStart, here
<1>4. BeginsWord(t, title) <=>
        \E i \in 2 .. Len(title) : title[i - 1] \in {Space, Mark} /\ IsPrefix(t, rest(i))
    BY DEF BeginsWord, rest
<1>5. \A b : ~ WordByte(b) <=> b \in {Space, Mark}
    BY DEF WordByte
<1>6. ASSUME NEW i \in 1 .. Len(title) - Len(t), ~ WordByte(title[i]), here(i) = t
      PROVE  BeginsWord(t, title)
    <2>1. i + 1 \in 2 .. Len(title) /\ IsPrefix(t, rest(i + 1)) /\ (i + 1) - 1 = i
        BY <1>1, <1>6
    <2> QED BY <1>4, <1>5, <1>6, <2>1
<1>7. ASSUME NEW i \in 2 .. Len(title), title[i - 1] \in {Space, Mark}, IsPrefix(t, rest(i))
      PROVE  \E j \in 1 .. Len(title) - Len(t) : ~ WordByte(title[j]) /\ here(j) = t
    <2>1. i - 1 \in 1 .. Len(title) - Len(t) /\ (i - 1) + 1 = i
        BY <1>2, <1>7
    <2>2. here(i - 1) = t
        BY <1>1, <1>7, <2>1
    <2> QED BY <1>5, <1>7, <2>1, <2>2
<1> QED BY <1>3, <1>4, <1>6, <1>7

(* A title that is shorter than the query is no match. *)
LEMMA ShortIsNoMatch ==
    ASSUME NEW title \in Text, NEW t \in Text, Len(title) < Len(t)
    PROVE  ~ IsPrefix(t, title) /\ ~ BeginsWord(t, title)
<1>0. Len(title) \in Nat /\ Len(t) \in Nat
    BY TextIs
<1>1. ~ IsPrefix(t, title)
    BY <1>0 DEF IsPrefix
<1>2. ASSUME NEW i \in 2 .. Len(title), IsPrefix(t, SubSeq(title, i, Len(title))) PROVE FALSE
    <2> DEFINE m == Len(title) - i + 1
               o == i - 1
    <2>1. o \in Nat /\ m \in Nat /\ o + m <= Len(title) /\ m < Len(t)
        BY <1>0
    <2>2. SubSeq(title, i, Len(title)) = SubSeq(title, o + 1, o + m)
        BY <1>0
    <2> HIDE DEF m, o
    <2>3. Len(SubSeq(title, i, Len(title))) = m
        BY <2>1, <2>2, PartIs
    <2> QED BY <1>0, <1>2, <2>1, <2>3 DEF IsPrefix
<1> QED BY <1>1, <1>2 DEF BeginsWord
------------------------------------------------------------------------------

(* The normalized query is a text: tl_normalize() byte by byte. *)

LEMMA NormalizedIsText ==
    ASSUME NEW text \in Text
    PROVE  Normalized(text) \in Text
<1> DEFINE N == Len(text)
           State == [out : Text, gap : BOOLEAN]
           Take(acc, b) ==
               IF b = Space
               THEN [out |-> acc.out, gap |-> TRUE]
               ELSE [out |-> acc.out \o (IF acc.gap /\ acc.out # <<>> THEN <<Space>> ELSE <<>>)
                                     \o <<Folded(b)>>,
                     gap |-> FALSE]
           begin == [out |-> <<>>, gap |-> FALSE]
           More == [r \in (1 .. N) \X State |-> Take(r[2], text[r[1]])]
           Runs(f) == f = [n \in 0 .. N |-> IF n = 0 THEN begin ELSE Take(f[n - 1], text[n])]
           f == CHOOSE g : Runs(g)
<1>1. N \in Nat /\ \A i \in 1 .. N : text[i] \in Nat
    BY TextIs
<1>2. begin \in State
    BY EmptySeq DEF Text
<1>3. ASSUME NEW acc \in State, NEW b \in Nat PROVE Take(acc, b) \in State
    <2>1. acc.out \in Seq(Nat)
        BY DEF Text
    <2>2. CASE b = Space
        BY <2>1, <2>2 DEF Text
    <2>3. CASE b # Space
        <3> DEFINE sep == IF acc.gap /\ acc.out # <<>> THEN <<Space>> ELSE <<>>
        <3>1. sep \in Seq(Nat) /\ Folded(b) \in Nat
            BY DEF Space, Folded, Small
        <3> HIDE DEF sep
        <3>2. acc.out \o sep \in Seq(Nat)
            BY <2>1, <3>1, ConcatProperties
        <3>3. <<Folded(b)>> \in Seq(Nat)
            BY <3>1
        <3>4. (acc.out \o sep) \o <<Folded(b)>> \in Seq(Nat)
            BY <3>2, <3>3, ConcatProperties
        <3> DEFINE whole == (acc.out \o sep) \o <<Folded(b)>>
        <3>5. Take(acc, b) = [out |-> whole, gap |-> FALSE]
            BY <2>3 DEF sep
        <3> HIDE DEF whole, Take
        <3>6. whole \in Text
            BY <3>4 DEF whole, Text
        <3> QED BY <3>5, <3>6
    <2> QED BY <2>2, <2>3
<1> HIDE DEF Take, begin, State
<1>4. More \in [(1 .. N) \X State -> State]
    <2>1. ASSUME NEW r \in (1 .. N) \X State PROVE Take(r[2], text[r[1]]) \in State
        <3>1. r[1] \in 1 .. N /\ r[2] \in State
            OBVIOUS
        <3> QED BY <1>1, <1>3, <3>1
    <2> QED BY <2>1
<1>5. \E g \in [0 .. N -> State] : Steps(N, begin, More, g)
    <2> HIDE DEF More, N
    <2> QED BY <1>1, <1>2, <1>4, StepByStep
<1>6. PICK g \in [0 .. N -> State] : Steps(N, begin, More, g)
    BY <1>5
<1>7. Runs(g)
    <2>1. ASSUME NEW n \in 0 .. N, n # 0 PROVE More[<<n, g[n - 1]>>] = Take(g[n - 1], text[n])
        <3>1. n \in 1 .. N /\ n - 1 \in 0 .. N
            BY <1>1, <2>1
        <3>2. <<n, g[n - 1]>> \in (1 .. N) \X State
            BY <3>1
        <3> QED BY <3>2
    <2>2. g = [n \in 0 .. N |-> IF n = 0 THEN begin ELSE More[<<n, g[n - 1]>>]]
        BY <1>6 DEF Steps
    <2>3. \A n \in 0 .. N : g[n] = IF n = 0 THEN begin ELSE Take(g[n - 1], text[n])
        <3> HIDE DEF More, N
        <3> QED BY <2>1, <2>2
    <2>4. g = [n \in 0 .. N |-> g[n]]
        BY <2>2
    <2> HIDE DEF More, N
    <2> QED BY <2>3, <2>4
<1>8. Runs(f)
    <2> HIDE DEF Runs
    <2> QED BY <1>7
<1>9. Normalized(text) = f[N].out
    BY DEF Normalized, Take, begin
<1> HIDE DEF f
<1>10. f[0] = begin /\ \A n \in 1 .. N : f[n] = Take(f[n - 1], text[n])
    <2>1. 0 \in 0 .. N /\ \A n \in 1 .. N : n \in 0 .. N /\ n # 0
        BY <1>1
    <2> HIDE DEF N
    <2> QED BY <1>8, <2>1
<1> DEFINE Good == {n \in 0 .. N : f[n] \in State}
<1>11. 0 \in Good
    <2>1. 0 \in 0 .. N
        BY <1>1
    <2> QED BY <1>2, <1>10, <2>1
<1>12. ASSUME NEW n \in 1 .. N, n - 1 \in Good PROVE n \in Good
    <2>1. f[n - 1] \in State /\ text[n] \in Nat
        BY <1>1, <1>12
    <2>2. f[n] \in State
        BY <1>3, <1>10, <2>1
    <2>3. n \in 0 .. N
        BY <1>1
    <2> QED BY <2>2, <2>3
<1>13. \A n \in 0 .. N : n \in Good
    <2> HIDE DEF Good, N
    <2> QED BY <1>1, <1>11, <1>12, UpTo
<1>14. f[N] \in State
    <2>1. N \in 0 .. N
        BY <1>1
    <2> QED BY <1>13, <2>1
<1> QED BY <1>9, <1>14 DEF State

------------------------------------------------------------------------------

(* The order of the page within a library. *)

Nearer(j, k) == Rank(j) < Rank(k) \/ (Rank(j) = Rank(k) /\ j < k)

InPageOrder(s) == \A i, j \in 1 .. Len(s) : i < j => Nearer(s[i], s[j])

LEMMA RankIs ==
    ASSUME index \in Indexes, needle \in Text, NEW k \in 1 .. Count
    PROVE  /\ Rank(k) \in 1 .. 3
           /\ Rank(k) = 1 <=> Title(k) = needle
           /\ Rank(k) = 3 <=> ~ IsPrefix(needle, Title(k))
<1>1. Title(k) = needle => IsPrefix(needle, Title(k))
    <2>1. Len(needle) \in Nat
        BY TextIs
    <2> QED BY <2>1, PrefixIs
<1> QED BY <1>1 DEF Rank

LEMMA SameRank ==
    ASSUME UNCHANGED <<index, needle>>
    PROVE  /\ Count' = Count /\ TableSize' = TableSize /\ Matches' = Matches
           /\ \A k : Title(k)' = Title(k) /\ Rank(k)' = Rank(k)
           /\ \A j, k : Nearer(j, k)' = Nearer(j, k)
           /\ \A a, b : Above(a, b)' = Above(a, b)
<1>1. index' = index /\ needle' = needle
    OBVIOUS
<1>2. Count' = Count /\ TableSize' = TableSize
    BY <1>1 DEF Count, TableSize
<1>3. ASSUME NEW k PROVE Title(k)' = Title(k)
    BY <1>1 DEF Title, Bytes
<1>4. ASSUME NEW k PROVE Rank(k)' = Rank(k)
    BY <1>1, <1>3 DEF Rank
<1>5. ASSUME NEW k PROVE k \in Matches' <=> k \in Matches
    BY <1>1, <1>2, <1>3 DEF Matches
<1>6. ASSUME NEW j, NEW k PROVE Nearer(j, k)' = Nearer(j, k)
    BY <1>4 DEF Nearer
<1>7. ASSUME NEW a, NEW b PROVE Above(a, b)' = Above(a, b)
    BY <1>4 DEF Above
<1> QED BY <1>2, <1>3, <1>4, <1>5, <1>6, <1>7
------------------------------------------------------------------------------

(* What a library adds to the page. *)

LEMMA AppendIs ==
    ASSUME NEW S, NEW s \in Seq(S), NEW e \in S
    PROVE  /\ Append(s, e) \in Seq(S) /\ Len(s) \in Nat /\ Len(Append(s, e)) = Len(s) + 1
           /\ \A i \in 1 .. Len(s) + 1 : Append(s, e)[i] = IF i = Len(s) + 1 THEN e ELSE s[i]
BY AppendProperties, LenProperties

LEMMA OrderKept ==
    ASSUME NEW s \in Seq(1 .. Count), InPageOrder(s), NEW e \in 1 .. Count,
           \A i \in 1 .. Len(s) : Nearer(s[i], e)
    PROVE  InPageOrder(Append(s, e))
<1> DEFINE a == Append(s, e)
<1>1. /\ Len(s) \in Nat /\ Len(a) = Len(s) + 1
      /\ \A i \in 1 .. Len(s) + 1 : a[i] = IF i = Len(s) + 1 THEN e ELSE s[i]
    BY AppendIs
<1> HIDE DEF a
<1>2. ASSUME NEW i \in 1 .. Len(a), NEW j \in 1 .. Len(a), i < j PROVE Nearer(a[i], a[j])
    <2>1. i \in 1 .. Len(s) /\ a[i] = s[i]
        BY <1>1, <1>2
    <2>2. CASE j = Len(s) + 1
        BY <1>1, <2>1, <2>2
    <2>3. CASE j # Len(s) + 1
        <3>1. j \in 1 .. Len(s) /\ a[j] = s[j]
            BY <1>1, <2>3
        <3> QED BY <1>2, <2>1, <3>1 DEF InPageOrder
    <2> QED BY <2>2, <2>3
<1> QED BY <1>2 DEF InPageOrder, a

LEMMA ListingIs ==
    ASSUME Count \in Nat, ids \in Seq(1 .. Count), Vacant \in Nat, 1 <= Vacant, Len(ids) <= Vacant,
           InPageOrder(ids), exact \in 0 .. Count, exact # 0 => 1 <= Len(ids) /\ ids[1] = exact,
           NEW unread
    PROVE  \E s \in Seq(1 .. Count) :
              /\ Listing(unread) = [i \in 1 .. Len(s) |-> <<library, s[i]>>]
              /\ Len(s) <= Vacant /\ InPageOrder(s)
              /\ \A i \in 1 .. Len(s) : \E m \in 1 .. Len(ids) : s[i] = ids[m]
              /\ unread = {} => s = ids
<1> DEFINE N == Len(ids)
           S == Seq(1 .. Count)
           begin == IF exact \in {0} \cup unread THEN <<>> ELSE <<exact>>
           Left(n, s) == ids[n] \in {exact} \cup unread \/ Len(s) >= Vacant
           Take(n, s) == IF Left(n, s) THEN s ELSE Append(s, ids[n])
           More == [r \in (1 .. N) \X S |-> Take(r[1], r[2])]
           Runs(f) == f = [n \in 0 .. N |-> IF n = 0 THEN begin ELSE Take(n, f[n - 1])]
           f == CHOOSE g : Runs(g)
<1>1. N \in Nat /\ \A i \in 1 .. N : ids[i] \in 1 .. Count
    BY LenProperties, ElementOfSeq
<1>2. begin \in S
    <2>1. <<>> \in S
        BY EmptySeq
    <2>2. CASE exact # 0
        <3>1. exact \in 1 .. Count
            BY <2>2
        <3>2. <<exact>> \in S
            BY <3>1
        <3> HIDE DEF S
        <3> QED BY <2>1, <3>2
    <2> QED BY <2>1, <2>2
<1>3. ASSUME NEW n \in 1 .. N, NEW s \in S PROVE Take(n, s) \in S
    <2>1. ids[n] \in 1 .. Count
        BY <1>1
    <2>2. Append(s, ids[n]) \in S
        BY <2>1, AppendIs
    <2> HIDE DEF Left
    <2> QED BY <2>2
<1>b. Listing(unread) = [i \in 1 .. Len(f[N]) |-> <<library, f[N][i]>>]
    BY DEF Listing
<1>c. /\ exact \in {0} \cup unread => begin = <<>>
      /\ exact \notin {0} \cup unread => begin = <<exact>>
    OBVIOUS
<1> HIDE DEF Take, begin
<1>4. More \in [(1 .. N) \X S -> S]
    <2>1. ASSUME NEW r \in (1 .. N) \X S PROVE Take(r[1], r[2]) \in S
        <3>1. r[1] \in 1 .. N /\ r[2] \in S
            OBVIOUS
        <3> HIDE DEF S, N
        <3> QED BY <1>3, <3>1
    <2> HIDE DEF S, N
    <2> QED BY <2>1
<1>5. \E g \in [0 .. N -> S] : Steps(N, begin, More, g)
    <2> HIDE DEF More, N, S
    <2> QED BY <1>1, <1>2, <1>4, StepByStep
<1>6. PICK g \in [0 .. N -> S] : Steps(N, begin, More, g)
    BY <1>5
<1>7. Runs(g)
    <2>1. ASSUME NEW n \in 0 .. N, n # 0 PROVE More[<<n, g[n - 1]>>] = Take(n, g[n - 1])
        <3>1. n \in 1 .. N /\ n - 1 \in 0 .. N
            BY <1>1, <2>1
        <3>2. <<n, g[n - 1]>> \in (1 .. N) \X S
            BY <3>1
        <3> QED BY <3>2
    <2>2. g = [n \in 0 .. N |-> IF n = 0 THEN begin ELSE More[<<n, g[n - 1]>>]]
        BY <1>6 DEF Steps
    <2>3. \A n \in 0 .. N : g[n] = IF n = 0 THEN begin ELSE Take(n, g[n - 1])
        <3> HIDE DEF More, N
        <3> QED BY <2>1, <2>2
    <2>4. g = [n \in 0 .. N |-> g[n]]
        BY <2>2
    <2> HIDE DEF More, N
    <2> QED BY <2>3, <2>4
<1>8. Runs(f)
    <2> HIDE DEF Runs
    <2> QED BY <1>7
<1> HIDE DEF f
<1>10. f[0] = begin /\ \A n \in 1 .. N : f[n] = Take(n, f[n - 1])
    <2>1. 0 \in 0 .. N /\ \A n \in 1 .. N : n \in 0 .. N /\ n # 0
        BY <1>1
    <2> HIDE DEF N
    <2> QED BY <1>8, <2>1
<1> DEFINE From(s, n) == \A i \in 1 .. Len(s) : \E m \in 1 .. N : s[i] = ids[m] /\ (m <= n \/ (m = 1 /\ exact # 0))
           First(s, n) == /\ Len(s) = IF n = 0 /\ exact # 0 THEN 1 ELSE n
                          /\ \A i \in 1 .. Len(s) : s[i] = ids[i]
           Right(s, n) == s \in S /\ Len(s) <= Vacant /\ InPageOrder(s) /\ From(s, n) /\ (unread = {} => First(s, n))
           Good == {n \in 0 .. N : Right(f[n], n)}
<1>11. Right(begin, 0)
    <2>1. CASE exact \in {0} \cup unread
        <3>1. begin = <<>> /\ Len(begin) = 0
            BY <1>c, <2>1
        <3>2. InPageOrder(begin) /\ From(begin, 0) /\ Len(begin) <= Vacant
            BY <3>1 DEF InPageOrder
        <3>3. unread = {} => First(begin, 0)
            BY <2>1, <3>1
        <3> QED BY <1>2, <3>2, <3>3
    <2>2. CASE exact \notin {0} \cup unread
        <3>0. exact # 0 /\ 1 \in 1 .. N /\ ids[1] = exact
            BY <1>1, <2>2
        <3>1. begin = <<exact>> /\ Len(begin) = 1 /\ begin[1] = ids[1]
            BY <1>c, <2>2, <3>0
        <3>2. \A i \in 1 .. Len(begin) : i = 1
            BY <3>1
        <3>3. InPageOrder(begin)
            BY <3>2 DEF InPageOrder
        <3>4. From(begin, 0)
            BY <3>0, <3>1, <3>2
        <3>5. First(begin, 0) /\ Len(begin) <= Vacant
            BY <3>0, <3>1, <3>2
        <3> QED BY <1>2, <3>3, <3>4, <3>5
    <2> QED BY <2>1, <2>2
<1>12. ASSUME NEW n \in 1 .. N, n - 1 \in Good PROVE n \in Good
    <2> DEFINE s == f[n - 1]
    <2>1. Right(s, n - 1)
        BY <1>12
    <2>2. f[n] = Take(n, s) /\ n \in 0 .. N
        BY <1>1, <1>10
    <2> HIDE DEF s
    <2>3. Len(s) \in Nat
        BY <2>1, LenProperties
    <2>4. CASE Left(n, s)
        <3>1. f[n] = s
            BY <2>2, <2>4 DEF Take
        <3>2. From(s, n)
            <4>1. ASSUME NEW i \in 1 .. Len(s)
                  PROVE  \E m \in 1 .. N : s[i] = ids[m] /\ (m <= n \/ (m = 1 /\ exact # 0))
                <5>1. PICK m \in 1 .. N : s[i] = ids[m] /\ (m <= n - 1 \/ (m = 1 /\ exact # 0))
                    BY <2>1, <4>1
                <5>2. m <= n \/ (m = 1 /\ exact # 0)
                    BY <1>1, <5>1
                <5> QED BY <5>1, <5>2
            <4> QED BY <4>1
        <3>3. ASSUME unread = {} PROVE First(s, n)
            <4>0. First(s, n - 1)
                BY <2>1, <3>3
            <4>1. CASE Len(s) >= Vacant
                <5>1. Len(s) <= n /\ (n - 1 = 0 => Len(s) <= 1)
                    BY <1>1, <4>0
                <5>2. Len(s) = n
                    BY <1>1, <2>3, <4>0, <4>1, <5>1
                <5>3. n # 0
                    OBVIOUS
                <5> QED BY <4>0, <5>2, <5>3
            <4>2. CASE ids[n] = exact
                <5>1. exact # 0
                    BY <1>1, <4>2
                <5>2. CASE n = 1
                    BY <4>0, <5>1, <5>2
                <5>3. CASE n # 1
                    <6>1. 1 \in 1 .. Len(ids) /\ n \in 1 .. Len(ids) /\ 1 < n /\ ids[1] = ids[n]
                        BY <1>1, <4>2, <5>1, <5>3
                    <6>2. Nearer(ids[n], ids[n])
                        BY <6>1 DEF InPageOrder
                    <6>3. Rank(ids[n]) \in {1, 2, 3} /\ ids[n] \in Nat
                        BY <1>1 DEF Rank
                    <6> QED BY <6>2, <6>3 DEF Nearer
                <5> QED BY <5>2, <5>3
            <4> QED BY <2>4, <3>3, <4>1, <4>2
        <3> HIDE DEF From, First, S, Left
        <3> QED BY <2>1, <2>2, <3>1, <3>2, <3>3
    <2>5. CASE ~ Left(n, s)
        <3> DEFINE e == ids[n]
                   a == Append(s, e)
        <3>0. f[n] = a
            BY <2>2, <2>5 DEF Take
        <3>1. e \in 1 .. Count /\ e # exact /\ ~ (Len(s) >= Vacant)
            BY <1>1, <2>5
        <3>2. /\ a \in S /\ Len(a) = Len(s) + 1
              /\ \A i \in 1 .. Len(s) + 1 : a[i] = IF i = Len(s) + 1 THEN e ELSE s[i]
            <4> HIDE DEF e
            <4> QED BY <2>1, <3>1, AppendIs
        <3>3. ASSUME NEW i \in 1 .. Len(s) PROVE Nearer(s[i], e)
            <4>1. PICK m \in 1 .. N : s[i] = ids[m] /\ (m <= n - 1 \/ (m = 1 /\ exact # 0))
                BY <2>1, <3>3
            <4>2. m < n
                <5>1. CASE m <= n - 1
                    BY <1>1, <5>1
                <5>2. CASE m = 1 /\ exact # 0
                    <6>1. n # 1
                        BY <3>1, <5>2
                    <6> QED BY <1>1, <5>2, <6>1
                <5> QED BY <4>1, <5>1, <5>2
            <4> QED BY <4>1, <4>2 DEF InPageOrder
        <3>4. InPageOrder(a)
            <4> HIDE DEF e
            <4> QED BY <2>1, <3>1, <3>3, OrderKept
        <3> HIDE DEF a
        <3>5. Len(a) <= Vacant
            BY <2>3, <3>1, <3>2
        <3>6. From(a, n)
            <4>1. ASSUME NEW i \in 1 .. Len(a)
                  PROVE  \E m \in 1 .. N : a[i] = ids[m] /\ (m <= n \/ (m = 1 /\ exact # 0))
                <5>1. CASE i = Len(s) + 1
                    <6>1. a[i] = ids[n] /\ n <= n
                        BY <3>2, <5>1
                    <6> QED BY <6>1
                <5>2. CASE i # Len(s) + 1
                    <6>1. i \in 1 .. Len(s) /\ a[i] = s[i]
                        BY <2>3, <3>2, <5>2
                    <6>2. PICK m \in 1 .. N : s[i] = ids[m] /\ (m <= n - 1 \/ (m = 1 /\ exact # 0))
                        BY <2>1, <6>1
                    <6>3. m <= n \/ (m = 1 /\ exact # 0)
                        BY <1>1, <6>2
                    <6> QED BY <6>1, <6>2, <6>3
                <5> QED BY <5>1, <5>2
            <4> QED BY <4>1
        <3>7. ASSUME unread = {} PROVE First(a, n)
            <4>0. First(s, n - 1)
                BY <2>1, <3>7
            <4>1. ~ (n = 1 /\ exact # 0)
                BY <3>1
            <4>2. Len(s) = n - 1
                BY <1>1, <4>0, <4>1
            <4>3. Len(a) = n
                BY <3>2, <4>2
            <4>4. ASSUME NEW i \in 1 .. Len(a) PROVE a[i] = ids[i]
                <5>1. CASE i = n
                    BY <3>2, <4>2, <4>3, <5>1
                <5>2. CASE i # n
                    <6>1. i \in 1 .. Len(s)
                        BY <4>2, <4>3, <5>2
                    <6> QED BY <2>3, <3>2, <4>0, <6>1
                <5> QED BY <5>1, <5>2
            <4>5. n # 0
                OBVIOUS
            <4> QED BY <4>3, <4>4, <4>5
        <3> HIDE DEF From, First, S
        <3> QED BY <2>2, <3>0, <3>2, <3>4, <3>5, <3>6, <3>7
    <2> QED BY <2>4, <2>5
<1>13. 0 \in Good
    <2>1. 0 \in 0 .. N
        BY <1>1
    <2> HIDE DEF Right
    <2> QED BY <1>10, <1>11, <2>1
<1>14. \A n \in 0 .. N : n \in Good
    <2> HIDE DEF Good, N
    <2> QED BY <1>1, <1>12, <1>13, UpTo
<1> DEFINE s == f[N]
<1>15. Right(s, N)
    <2>1. N \in 0 .. N
        BY <1>1
    <2> HIDE DEF Right
    <2> QED BY <1>14, <2>1
<1> HIDE DEF s
<1>16. ASSUME unread = {} PROVE s = ids
    <2>1. First(s, N) /\ s \in Seq(1 .. Count)
        BY <1>15, <1>16
    <2>2. N = 0 => exact = 0
        BY <1>1
    <2>3. Len(s) = Len(ids) /\ \A i \in 1 .. Len(s) : s[i] = ids[i]
        BY <2>1, <2>2
    <2> QED BY <2>1, <2>3, SeqEqual
<1>17. \A i \in 1 .. Len(s) : \E m \in 1 .. Len(ids) : s[i] = ids[m]
    BY <1>15
<1>18. Listing(unread) = [i \in 1 .. Len(s) |-> <<library, s[i]>>]
    BY <1>b DEF s
<1>19. s \in Seq(1 .. Count) /\ Len(s) <= Vacant /\ InPageOrder(s)
    BY <1>15
<1> HIDE DEF S, N, Right
<1> QED BY <1>16, <1>17, <1>18, <1>19
------------------------------------------------------------------------------

(* The window shows the bytes of the string table it was filled with.      *)

Mirrors(w) ==
    /\ w.off \in Nat /\ w.len \in Nat /\ w.len <= WindowSize
    /\ \A i \in 0 .. w.len - 1 : w.bytes[i] = index.table[w.off + i + 1]

LEMMA SeenIsTitle ==
    ASSUME index \in Indexes, NEW k \in 1 .. Count, NEW w, Mirrors(w),
           w.off <= index.range[k].off, index.range[k].len <= w.len,
           index.range[k].off - w.off <= w.len - index.range[k].len
    PROVE  Seen(w, index.range[k]) = Title(k)
<1> DEFINE off == index.range[k].off
           len == index.range[k].len
           seen == [i \in 1 .. len |-> w.bytes[off - w.off + i - 1]]
<1>0. Seen(w, index.range[k]) = seen
    BY DEF Seen
<1>1. off \in Nat /\ len \in Nat /\ w.off \in Nat /\ w.len \in Nat
    BY RangeIs DEF Mirrors
<1>2. /\ Title(k) \in Text /\ Len(Title(k)) = len
      /\ \A i \in 1 .. len : Title(k)[i] = index.table[off + i]
    BY TitleIs
<1>3. w.off <= off /\ len <= w.len /\ off - w.off <= w.len - len
    OBVIOUS
<1> HIDE DEF off, len
<1>4. ASSUME NEW i \in 1 .. len PROVE seen[i] = Title(k)[i]
    <2> DEFINE j == off - w.off + i - 1
    <2>1. j \in 0 .. w.len - 1 /\ w.off + j + 1 = off + i
        BY <1>1, <1>3
    <2>2. seen[i] = w.bytes[j]
        OBVIOUS
    <2> HIDE DEF j
    <2>3. w.bytes[j] = index.table[w.off + j + 1]
        BY <2>1 DEF Mirrors
    <2> QED BY <1>2, <2>1, <2>2, <2>3
<1>5. \A i \in 1 .. len : seen[i] \in Nat
    BY <1>2, <1>4, TextIs
<1>6. seen \in [1 .. len -> Nat]
    BY <1>5
<1>7. Title(k) \in [1 .. len -> Nat]
    BY <1>2, LenProperties DEF Text
<1>8. seen = Title(k)
    <2>1. seen = [i \in 1 .. len |-> seen[i]]
        OBVIOUS
    <2>2. Title(k) = [i \in 1 .. len |-> Title(k)[i]]
        BY <1>7
    <2> DEFINE same == [i \in 1 .. len |-> Title(k)[i]]
    <2>3. [i \in 1 .. len |-> seen[i]] = same
        <3> HIDE DEF seen
        <3> QED BY <1>4
    <2> HIDE DEF seen, same
    <2>4. seen = same
        BY <2>1, <2>3
    <2> QED BY <2>2, <2>4 DEF same
<1> QED BY <1>0, <1>8

LEMMA FilledMirrors ==
    ASSUME index \in Indexes, NEW k \in 1 .. Count, index.range[k].len <= MaxTitle
    PROVE  LET w == Filled(index.range[k])
           IN  Mirrors(w) /\ w.off = index.range[k].off /\ index.range[k].len <= w.len
<1> DEFINE range == index.range[k]
           w == Filled(range)
           n == FilledLength(range)
<1>1. range.off \in Nat /\ range.len \in Nat /\ 1 <= range.len /\ range.off + range.len <= TableSize
    BY RangeIs
<1>2. TableSize \in Nat /\ WindowSize \in Nat /\ MaxTitle \in Nat /\ MaxTitle <= WindowSize
    BY IndexIs, TitleAssumption
<1>3. range.len <= MaxTitle
    OBVIOUS
<1> HIDE DEF range
<1>4. Wanted(range) \in Nat /\ range.len <= Wanted(range) /\ Wanted(range) <= WindowSize
    <2> DEFINE left == TableSize - range.off
    <2>1. left \in Nat
        BY <1>1, <1>2
    <2>2. Wanted(range) \in {range.len, left, WindowSize}
        BY DEF Wanted
    <2>3. Wanted(range) = left => left < WindowSize \/ left = range.len \/ left = WindowSize
        BY DEF Wanted
    <2>4. range.len <= Wanted(range)
        BY <1>1, <1>2, <2>1 DEF Wanted
    <2> HIDE DEF left
    <2> QED BY <1>1, <1>2, <1>3, <2>1, <2>2, <2>3, <2>4
<1>5. n \in Nat /\ range.len <= n /\ n <= WindowSize /\ range.off + n <= TableSize
    BY <1>1, <1>2, <1>3, <1>4 DEF FilledLength
<1> HIDE DEF n
<1>6. /\ w.off = range.off /\ w.len = n
      /\ w.bytes = [i \in 0 .. WindowSize - 1 |->
                       IF i < n THEN index.table[range.off + i + 1] ELSE window.bytes[i]]
    BY DEF Filled, n
<1> HIDE DEF w
<1>7. ASSUME NEW i \in 0 .. n - 1 PROVE w.bytes[i] = index.table[w.off + i + 1]
    <2>1. i \in 0 .. WindowSize - 1 /\ i < n
        BY <1>2, <1>5
    <2> QED BY <1>6, <2>1
<1>8. Mirrors(w)
    BY <1>1, <1>5, <1>6, <1>7 DEF Mirrors
<1> QED BY <1>5, <1>6, <1>8 DEF range, w

------------------------------------------------------------------------------

(* The invariant.  Of one library: what is listed is in page order, and a  *)
(* match that is missing either comes after it with the page full, or is a *)
(* later word the scan has yet to reach.                                   *)
IdsRight ==
    /\ Len(ids) <= Vacant /\ InPageOrder(ids)
    /\ \A i \in 1 .. Len(ids) : ids[i] \in Matches /\ (Rank(ids[i]) = 3 => ids[i] <= scanned)
    /\ \A k \in Matches :
          \/ \E i \in 1 .. Len(ids) : ids[i] = k
          \/ /\ \A i \in 1 .. Len(ids) : Nearer(ids[i], k)
             /\ Len(ids) = Vacant \/ (Rank(k) = 3 /\ scanned < k)
    /\ exact # 0 => 1 <= Len(ids) /\ ids[1] = exact

(* Of the page: in order, from the libraries that are done, and either     *)
(* whole or full.                                                          *)
PageRight ==
    /\ Len(results) <= Limit
    /\ \A i, j \in 1 .. Len(results) : i < j => Above(results[i], results[j])
    /\ \A i \in 1 .. Len(results) : results[i][1] < library /\ results[i][2] \in Matches
    /\ ~ unsearched =>
          \A l \in 1 .. library - 1, k \in Matches :
             \/ \E i \in 1 .. Len(results) : results[i] = <<l, k>>
             \/ Len(results) = Limit /\ \A i \in 1 .. Len(results) : Above(results[i], <<l, k>>)

SearchInv ==
    /\ index \in Indexes /\ needle \in Text /\ needle # <<>>
    /\ SearchTypeOK
    /\ step # "done" => library <= Libraries /\ Len(results) < Limit
    /\ step = "done" => unsearched \/ library = Libraries + 1 \/ Len(results) = Limit
    /\ exact # 0 => Title(exact) = needle
    /\ step \in {"words", "show"} => IdsRight
    /\ step = "show" => Len(ids) = Vacant \/ scanned = Count
    /\ Mirrors(window)
    /\ PageRight

LEMMA EmptyMirrors == Mirrors(EmptyWindow)
<1>1. WindowSize \in Nat
    BY TitleAssumption
<1>2. EmptyWindow.off = 0 /\ EmptyWindow.len = 0
    BY DEF EmptyWindow
<1>3. 0 .. 0 - 1 = {}
    OBVIOUS
<1> QED BY <1>1, <1>2, <1>3 DEF Mirrors

LEMMA NoneShown == ASSUME NEW S PROVE <<>> \in Seq(S) /\ Len(<<>>) = 0 /\ 1 .. 0 = {}
BY EmptySeq

LEMMA InitSearchInv == SearchInit => SearchInv
<1> SUFFICES ASSUME SearchInit PROVE SearchInv
    OBVIOUS
<1>1. /\ index \in Indexes /\ needle \in {Normalized(q) : q \in Inputs} \ {<<>>}
      /\ library = 1 /\ step = "exact" /\ exact = 0 /\ ids = <<>> /\ scanned = 0
      /\ window = EmptyWindow /\ results = <<>> /\ unsearched = FALSE
    BY DEF SearchInit
<1>2. needle \in Text /\ needle # <<>>
    <2>1. PICK q \in Inputs : needle = Normalized(q)
        BY <1>1
    <2>2. q \in Text
        BY TitleAssumption DEF Text
    <2> QED BY <1>1, <2>1, <2>2, NormalizedIsText
<1>3. Count \in Nat /\ Libraries \in Nat /\ 1 <= Libraries /\ Limit \in Nat /\ 1 <= Limit /\ WindowSize \in Nat
    BY <1>1, IndexIs, TitleAssumption
<1>4. window.len <= WindowSize /\ Mirrors(window)
    BY <1>1, EmptyMirrors DEF Mirrors
<1>5. SearchTypeOK
    <2>1. ids \in Seq(1 .. Count) /\ Len(ids) <= Limit
        BY <1>1, <1>3, NoneShown
    <2>2. results \in Seq((1 .. Libraries) \X (1 .. Count))
        BY <1>1, NoneShown
    <2>3. library \in 1 .. Libraries + 1 /\ exact \in 0 .. Count /\ scanned \in 0 .. Count
        BY <1>1, <1>3
    <2>4. unsearched \in BOOLEAN /\ step \in {"exact", "prefix", "words", "show", "done"}
        BY <1>1
    <2> QED BY <1>4, <2>1, <2>2, <2>3, <2>4 DEF SearchTypeOK
<1>6. PageRight
    <2>1. Len(results) = 0 /\ 1 .. Len(results) = {}
        BY <1>1, NoneShown
    <2>2. 1 .. library - 1 = {}
        BY <1>1
    <2> QED BY <1>3, <2>1, <2>2 DEF PageRight
<1>7. library <= Libraries /\ Len(results) < Limit
    BY <1>1, <1>3, NoneShown
<1> QED BY <1>1, <1>2, <1>4, <1>5, <1>6, <1>7 DEF SearchInv

------------------------------------------------------------------------------

(* Each step keeps it. *)

LEMMA NumbersAre ==
    ASSUME SearchInv
    PROVE  /\ Count \in Nat /\ Libraries \in Nat /\ 1 <= Libraries /\ Limit \in Nat /\ 1 <= Limit
           /\ Len(ids) \in Nat /\ Len(results) \in Nat /\ Vacant = Limit - Len(results)
           /\ \A i \in 1 .. Len(ids) : ids[i] \in 1 .. Count
           /\ step # "done" => Vacant \in Nat /\ 1 <= Vacant
<1>1. index \in Indexes /\ SearchTypeOK /\ (step # "done" => Len(results) < Limit)
    BY DEF SearchInv
<1>2. ids \in Seq(1 .. Count) /\ results \in Seq((1 .. Libraries) \X (1 .. Count))
    BY <1>1 DEF SearchTypeOK
<1>3. Len(ids) \in Nat /\ Len(results) \in Nat /\ \A i \in 1 .. Len(ids) : ids[i] \in 1 .. Count
    BY <1>2, LenProperties, ElementOfSeq
<1>4. Limit \in Nat /\ 1 <= Limit
    BY TitleAssumption
<1> QED BY <1>1, <1>3, <1>4, IndexIs, TitleAssumption DEF Vacant

(* What does not touch the page leaves it right. *)
LEMMA PageKept ==
    ASSUME PageRight, UNCHANGED <<index, needle, results>>,
           (library' = library /\ (unsearched => unsearched'))
           \/ (unsearched' /\ library' = library + 1 /\ library \in Nat
                 /\ \A i \in 1 .. Len(results) : results[i][1] \in Nat)
    PROVE  PageRight'
<1>1. /\ Count' = Count /\ TableSize' = TableSize /\ Matches' = Matches
      /\ \A a, b : Above(a, b)' = Above(a, b)
    BY SameRank
<1>2. results' = results
    OBVIOUS
<1>3. \A i, j \in 1 .. Len(results) : i < j => Above(results[i], results[j])'
    BY <1>1, <1>2 DEF PageRight
<1>4. \A i \in 1 .. Len(results) : results[i][1] < library' /\ results[i][2] \in Matches'
    <2> SUFFICES ASSUME NEW i \in 1 .. Len(results) PROVE results[i][1] < library' /\ results[i][2] \in Matches'
        OBVIOUS
    <2>1. results[i][1] < library /\ results[i][2] \in Matches
        BY DEF PageRight
    <2>2. results[i][1] < library'
        <3>1. CASE library' = library
            BY <2>1, <3>1
        <3>2. CASE library' = library + 1 /\ library \in Nat /\ results[i][1] \in Nat
            BY <2>1, <3>2
        <3> QED BY <3>1, <3>2
    <2> QED BY <1>1, <2>1, <2>2
<1>5. Len(results') <= Limit
    BY <1>2 DEF PageRight
<1>6. ASSUME ~ unsearched', NEW l \in 1 .. library' - 1, NEW k \in Matches'
      PROVE  \/ \E i \in 1 .. Len(results) : results[i] = <<l, k>>
             \/ Len(results) = Limit /\ \A i \in 1 .. Len(results) : Above(results[i], <<l, k>>)'
    <2>1. ~ unsearched /\ l \in 1 .. library - 1 /\ k \in Matches
        BY <1>1, <1>6
    <2> QED BY <1>1, <2>1 DEF PageRight
<1> QED BY <1>2, <1>3, <1>4, <1>5, <1>6 DEF PageRight

LEMMA IdsKept ==
    ASSUME IdsRight, UNCHANGED <<index, needle, results, ids, scanned, exact>>
    PROVE  IdsRight'
<1>1. /\ Matches' = Matches
      /\ \A k : Rank(k)' = Rank(k)
      /\ \A j, k : Nearer(j, k)' = Nearer(j, k)
    BY SameRank
<1>2. Vacant' = Vacant
    BY DEF Vacant
<1>3. ids' = ids /\ scanned' = scanned /\ exact' = exact
    OBVIOUS
<1>4. Len(ids) <= Vacant /\ \A i, j \in 1 .. Len(ids) : i < j => Nearer(ids[i], ids[j])'
    BY <1>1 DEF IdsRight, InPageOrder
<1>5. \A i \in 1 .. Len(ids) : ids[i] \in Matches' /\ (Rank(ids[i])' = 3 => ids[i] <= scanned)
    BY <1>1 DEF IdsRight
<1>6. \A k \in Matches' :
          \/ \E i \in 1 .. Len(ids) : ids[i] = k
          \/ /\ \A i \in 1 .. Len(ids) : Nearer(ids[i], k)'
             /\ Len(ids) = Vacant \/ (Rank(k)' = 3 /\ scanned < k)
    BY <1>1 DEF IdsRight
<1>7. exact # 0 => 1 <= Len(ids) /\ ids[1] = exact
    BY DEF IdsRight
<1> QED BY <1>2, <1>3, <1>4, <1>5, <1>6, <1>7 DEF IdsRight, InPageOrder

LEMMA ExactKeepsInv ==
    ASSUME SearchInv, SearchExact
    PROVE  SearchInv'
<1>1. /\ step = "exact" /\ step' = "prefix"
      /\ UNCHANGED <<index, needle, library, ids, scanned, window, results>>
      /\ (exact' = ExactMatch(needle) /\ unsearched' = unsearched) \/ (exact' = 0 /\ unsearched' = TRUE)
    BY DEF SearchExact
<1>2. index \in Indexes /\ needle \in Text /\ needle # <<>> /\ SearchTypeOK /\ Mirrors(window) /\ PageRight
      /\ library <= Libraries /\ Len(results) < Limit
    BY <1>1 DEF SearchInv
<1>3. Count' = Count /\ \A k : Title(k)' = Title(k)
    BY <1>1, SameRank
<1>4. exact' = 0 \/ (exact' \in 1 .. Count /\ Title(exact') = needle)
    BY <1>1, <1>2, ExactIs
<1>5. SearchTypeOK'
    <2>0. Count \in Nat
        BY <1>2, IndexIs
    <2>1. exact' \in 0 .. Count
        BY <1>4, <2>0
    <2>2. unsearched' \in BOOLEAN
        BY <1>1, <1>2, Zenon DEF SearchTypeOK
    <2> QED BY <1>1, <1>2, <1>3, <2>1, <2>2 DEF SearchTypeOK
<1>6. Mirrors(window)'
    BY <1>1, <1>2 DEF Mirrors
<1>7. PageRight'
    BY <1>1, <1>2, PageKept
<1>8. (exact # 0 => Title(exact) = needle)'
    <2>1. ASSUME exact' # 0 PROVE Title(exact)' = needle
        BY <1>1, <1>4, <2>1 DEF Title, Bytes
    <2> QED BY <1>1, <2>1
<1> QED BY <1>1, <1>2, <1>5, <1>6, <1>7, <1>8 DEF SearchInv

LEMMA SkipsKeepsInv ==
    ASSUME SearchInv, SearchSkips
    PROVE  SearchInv'
<1>1. /\ step = "exact" /\ library' = library + 1 /\ unsearched' = TRUE
      /\ step' = IF library = Libraries THEN "done" ELSE "exact"
      /\ UNCHANGED <<index, needle, exact, ids, scanned, window, results>>
    BY DEF SearchSkips
<1>2. index \in Indexes /\ needle \in Text /\ needle # <<>> /\ SearchTypeOK /\ Mirrors(window) /\ PageRight
      /\ library <= Libraries /\ Len(results) < Limit /\ (exact # 0 => Title(exact) = needle)
    BY <1>1 DEF SearchInv
<1>3. Count' = Count /\ \A k : Title(k)' = Title(k)
    BY <1>1, SameRank
<1>4. Libraries \in Nat /\ library \in 1 .. Libraries
    BY <1>2, TitleAssumption DEF SearchTypeOK
<1>5. SearchTypeOK'
    <2>1. library' \in 1 .. Libraries + 1 /\ step' \in {"exact", "done"}
        BY <1>1, <1>4
    <2> QED BY <1>1, <1>2, <1>3, <2>1 DEF SearchTypeOK
<1>6. Mirrors(window)'
    BY <1>1, <1>2 DEF Mirrors
<1>7. PageRight'
    <2>1. \A i \in 1 .. Len(results) : results[i][1] \in Nat
        <3>1. \A i \in 1 .. Len(results) : results[i] \in (1 .. Libraries) \X (1 .. Count)
            BY <1>2, ElementOfSeq DEF SearchTypeOK
        <3> QED BY <3>1
    <2> QED BY <1>1, <1>2, <1>4, <2>1, PageKept
<1>8. (exact # 0 => Title(exact) = needle)'
    BY <1>1, <1>2 DEF Title, Bytes
<1>9. (step # "done" => library <= Libraries /\ Len(results) < Limit)'
    BY <1>1, <1>2, <1>4
<1> QED BY <1>1, <1>2, <1>5, <1>6, <1>7, <1>8, <1>9 DEF SearchInv

(* A library that fails ends the search. *)
LEMMA FailsKeepsInv ==
    ASSUME SearchInv, SearchFails, UNCHANGED <<index, needle, library, exact, results>>
    PROVE  SearchInv'
<1>1. step' = "done" /\ unsearched' = TRUE /\ UNCHANGED <<ids, scanned, window>>
    BY DEF SearchFails
<1>2. index \in Indexes /\ needle \in Text /\ needle # <<>> /\ SearchTypeOK /\ Mirrors(window) /\ PageRight
      /\ (exact # 0 => Title(exact) = needle)
    BY DEF SearchInv
<1>3. Count' = Count
    BY SameRank
<1>5. SearchTypeOK'
    BY <1>1, <1>2, <1>3 DEF SearchTypeOK
<1>6. Mirrors(window)'
    BY <1>1, <1>2 DEF Mirrors
<1>7. PageRight'
    BY <1>1, <1>2, PageKept
<1>8. (exact # 0 => Title(exact) = needle)'
    BY <1>1, <1>2 DEF Title, Bytes
<1> QED BY <1>1, <1>2, <1>5, <1>6, <1>7, <1>8 DEF SearchInv

(* The prefixes of a library, before its scan. *)
LEMMA PrefixesAreRight ==
    ASSUME SearchInv, step = "prefix", NEW s, s = PrefixMatches(needle, Vacant)
    PROVE  /\ s \in Seq(1 .. Count) /\ Len(s) <= Vacant /\ InPageOrder(s)
           /\ \A i \in 1 .. Len(s) : s[i] \in Matches /\ Rank(s[i]) # 3
           /\ \A k \in Matches :
                 \/ \E i \in 1 .. Len(s) : s[i] = k
                 \/ /\ \A i \in 1 .. Len(s) : Nearer(s[i], k)
                    /\ Len(s) = Vacant \/ Rank(k) = 3
           /\ exact # 0 => 1 <= Len(s) /\ s[1] = exact
<1>0. index \in Indexes /\ needle \in Text
    BY DEF SearchInv
<1>1. Count \in Nat /\ Vacant \in Nat /\ 1 <= Vacant
    BY NumbersAre
<1>2. PICK first \in 1 .. Count + 1, n \in Nat :
              /\ PrefixMatches(needle, Vacant) = [i \in 1 .. n |-> first + i - 1]
              /\ n <= Vacant /\ first + n - 1 <= Count
              /\ \A i \in 1 .. n : IsPrefix(needle, Title(first + i - 1))
              /\ \A k \in 1 .. Count : IsPrefix(needle, Title(k)) =>
                    first <= k /\ (k <= first + n - 1 \/ n = Vacant)
              /\ \A k \in 1 .. Count : Title(k) = needle => k = first
    BY <1>0, <1>1, PrefixesFound
<1>3. s = [i \in 1 .. n |-> first + i - 1]
    BY <1>2
<1>4. ASSUME NEW i \in 1 .. n PROVE s[i] = first + i - 1 /\ s[i] \in 1 .. Count
    BY <1>1, <1>2, <1>3
<1>5. s \in [1 .. n -> 1 .. Count]
    BY <1>3, <1>4
<1>6. s \in Seq(1 .. Count) /\ Len(s) = n
    <2>1. s \in Seq(1 .. Count)
        BY <1>5, SeqDef
    <2> QED BY <1>3, <2>1, LenProperties
<1>7. ASSUME NEW i \in 1 .. n
      PROVE  s[i] \in Matches /\ Rank(s[i]) \in {1, 2} /\ (i # 1 => Rank(s[i]) = 2)
    <2>1. IsPrefix(needle, Title(s[i]))
        BY <1>2, <1>4
    <2>2. s[i] \in Matches
        BY <1>4, <2>1 DEF Matches
    <2>3. Rank(s[i]) \in 1 .. 3 /\ Rank(s[i]) # 3 /\ (Rank(s[i]) = 1 => Title(s[i]) = needle)
        BY <1>0, <1>4, <2>1, RankIs
    <2>4. i # 1 => s[i] # first
        BY <1>1, <1>4
    <2>5. i # 1 => Rank(s[i]) # 1
        BY <1>2, <1>4, <2>3, <2>4
    <2> QED BY <2>2, <2>3, <2>5
<1>8. InPageOrder(s)
    <2>1. ASSUME NEW i \in 1 .. n, NEW j \in 1 .. n, i < j PROVE Nearer(s[i], s[j])
        <3>1. Rank(s[j]) = 2 /\ Rank(s[i]) \in {1, 2}
            BY <1>7, <2>1
        <3>2. s[i] < s[j]
            BY <1>4, <2>1
        <3> QED BY <3>1, <3>2 DEF Nearer
    <2> QED BY <1>6, <2>1 DEF InPageOrder
<1>9. ASSUME NEW k \in Matches
      PROVE  \/ \E i \in 1 .. Len(s) : s[i] = k
             \/ /\ \A i \in 1 .. Len(s) : Nearer(s[i], k)
                /\ Len(s) = Vacant \/ Rank(k) = 3
    <2>0. k \in 1 .. Count
        BY DEF Matches
    <2>1. Rank(k) \in 1 .. 3 /\ (Rank(k) = 1 <=> Title(k) = needle) /\ (Rank(k) = 3 <=> ~ IsPrefix(needle, Title(k)))
        BY <1>0, <2>0, RankIs
    <2>2. CASE Rank(k) = 3
        <3>1. \A i \in 1 .. Len(s) : Nearer(s[i], k)
            BY <1>6, <1>7, <2>2 DEF Nearer
        <3> QED BY <2>2, <3>1
    <2>3. CASE Rank(k) # 3
        <3>1. first <= k /\ (k <= first + n - 1 \/ n = Vacant)
            BY <1>2, <2>0, <2>1, <2>3
        <3>2. CASE k <= first + n - 1
            <4>1. k - first + 1 \in 1 .. n /\ first + (k - first + 1) - 1 = k
                BY <1>1, <2>0, <3>1, <3>2
            <4>2. s[k - first + 1] = k
                BY <1>4, <4>1
            <4> QED BY <1>6, <4>1, <4>2
        <3>3. CASE first + n - 1 < k
            <4>1. n = Vacant /\ k # first
                BY <1>1, <1>2, <2>0, <3>1, <3>3
            <4>2. Rank(k) = 2
                <5>1. Rank(k) # 1
                    BY <1>2, <2>0, <2>1, <4>1
                <5> QED BY <2>1, <2>3, <5>1
            <4>3. ASSUME NEW i \in 1 .. n PROVE Nearer(s[i], k)
                <5>1. s[i] < k
                    BY <1>4, <2>0, <3>3
                <5> QED BY <1>7, <4>2, <5>1 DEF Nearer
            <4> QED BY <1>6, <4>1, <4>3
        <3> QED BY <1>1, <2>0, <3>2, <3>3
    <2> QED BY <2>2, <2>3
<1>10. ASSUME exact # 0 PROVE 1 <= Len(s) /\ s[1] = exact
    <2>1. exact \in 1 .. Count /\ Title(exact) = needle
        <3>1. exact \in 0 .. Count /\ Title(exact) = needle
            BY <1>10 DEF SearchInv, SearchTypeOK
        <3> QED BY <1>1, <1>10, <3>1
    <2>2. exact = first
        BY <1>2, <2>1
    <2>3. IsPrefix(needle, Title(exact))
        <3>1. Len(needle) \in Nat
            BY <1>0, TextIs
        <3> QED BY <1>0, <2>1, <3>1, PrefixIs
    <2>4. 1 <= n
        BY <1>1, <1>2, <2>1, <2>2, <2>3
    <2>5. 1 \in 1 .. n
        BY <2>4
    <2> QED BY <1>4, <1>6, <2>2, <2>4, <2>5
<1>11. \A i \in 1 .. Len(s) : s[i] \in Matches /\ Rank(s[i]) # 3
    BY <1>6, <1>7
<1>12. Len(s) <= Vacant
    BY <1>2, <1>6
<1> QED BY <1>6, <1>8, <1>9, <1>10, <1>11, <1>12

LEMMA PrefixKeepsInv ==
    ASSUME SearchInv, SearchPrefix
    PROVE  SearchInv'
<1>1. step = "prefix" /\ UNCHANGED <<index, needle, library, exact, results>>
    BY DEF SearchPrefix
<1>2. CASE SearchFails
    BY <1>1, <1>2, FailsKeepsInv
<1>3. CASE /\ ids' = PrefixMatches(needle, Vacant)
           /\ step' = "words" /\ scanned' = 0 /\ window' = EmptyWindow /\ unsearched' = unsearched
    <2>1. index \in Indexes /\ needle \in Text /\ needle # <<>> /\ SearchTypeOK /\ PageRight
          /\ (exact # 0 => Title(exact) = needle) /\ library <= Libraries /\ Len(results) < Limit
        BY <1>1 DEF SearchInv
    <2>2. /\ Count' = Count /\ Matches' = Matches
          /\ \A k : Title(k)' = Title(k) /\ Rank(k)' = Rank(k)
          /\ \A j, k : Nearer(j, k)' = Nearer(j, k)
        BY <1>1, SameRank
    <2>a. PICK s : s = ids'
        OBVIOUS
    <2>3. /\ s \in Seq(1 .. Count) /\ Len(s) <= Vacant /\ InPageOrder(s)
          /\ \A i \in 1 .. Len(s) : s[i] \in Matches /\ Rank(s[i]) # 3
          /\ \A k \in Matches :
                 \/ \E i \in 1 .. Len(s) : s[i] = k
                 \/ /\ \A i \in 1 .. Len(s) : Nearer(s[i], k)
                    /\ Len(s) = Vacant \/ Rank(k) = 3
          /\ exact # 0 => 1 <= Len(s) /\ s[1] = exact
        BY <1>1, <1>3, <2>a, PrefixesAreRight
    <2>4. Vacant' = Vacant /\ Vacant \in Nat /\ Vacant <= Limit /\ Count \in Nat /\ Len(s) \in Nat
        <3>1. Vacant = Limit - Len(results) /\ Len(results) \in Nat /\ Vacant \in Nat /\ Count \in Nat /\ Limit \in Nat
            BY <1>1, NumbersAre
        <3>2. Vacant' = Vacant
            BY <1>1 DEF Vacant
        <3>3. Len(s) \in Nat
            BY <2>3, LenProperties
        <3> QED BY <3>1, <3>2, <3>3
    <2>5. Mirrors(window)' /\ window'.len <= WindowSize
        <3>1. Mirrors(EmptyWindow) /\ index' = index
            BY <1>1, EmptyMirrors
        <3> QED BY <1>3, <3>1 DEF Mirrors
    <2>6. SearchTypeOK'
        <3>1. Len(s) <= Limit
            BY <2>3, <2>4, TitleAssumption
        <3>2. scanned' \in 0 .. Count /\ step' \in {"exact", "prefix", "words", "show", "done"}
            BY <1>3, <2>4
        <3> QED BY <1>1, <1>3, <2>1, <2>2, <2>a, <2>3, <2>5, <3>1, <3>2 DEF SearchTypeOK
    <2>7. PageRight'
        BY <1>1, <1>3, <2>1, PageKept
    <2>8. IdsRight'
        <3>1. \A i, j \in 1 .. Len(s) : i < j => Nearer(s[i], s[j])'
            BY <2>2, <2>3 DEF InPageOrder
        <3>2. \A i \in 1 .. Len(s) : s[i] \in Matches' /\ (Rank(s[i])' = 3 => s[i] <= scanned')
            BY <2>2, <2>3
        <3>3. ASSUME NEW k \in Matches'
              PROVE  \/ \E i \in 1 .. Len(s) : s[i] = k
                     \/ /\ \A i \in 1 .. Len(s) : Nearer(s[i], k)'
                        /\ Len(s) = Vacant' \/ (Rank(k)' = 3 /\ scanned' < k)
            <4>1. k \in Matches /\ k \in 1 .. Count
                BY <2>2, <3>3 DEF Matches
            <4>2. scanned' < k
                BY <1>3, <2>4, <4>1
            <4> QED BY <2>2, <2>3, <2>4, <4>1, <4>2
        <3>4. exact' # 0 => 1 <= Len(s) /\ s[1] = exact'
            BY <1>1, <2>3
        <3>5. Len(s) <= Vacant'
            BY <2>3, <2>4
        <3> QED BY <2>a, <3>1, <3>2, <3>3, <3>4, <3>5 DEF IdsRight, InPageOrder
    <2>9. (exact # 0 => Title(exact) = needle)'
        BY <1>1, <2>1 DEF Title, Bytes
    <2> QED BY <1>1, <1>3, <2>1, <2>5, <2>6, <2>7, <2>8, <2>9 DEF SearchInv
<1> QED BY <1>2, <1>3 DEF SearchPrefix

(* A title that is scanned is listed exactly when it is to be.             *)
LEMMA ScanIsRight ==
    ASSUME SearchInv, ScanTitle, scanned < Count
    PROVE  /\ scanned' = scanned + 1 /\ scanned' \in 1 .. Count
           /\ Mirrors(window')
           /\ \/ ids' = ids /\ ~ (scanned' \in Matches /\ Rank(scanned') = 3)
              \/ ids' = Append(ids, scanned') /\ scanned' \in Matches /\ Rank(scanned') = 3
<1> DEFINE k == scanned + 1
           range == index.range[k]
           after == IF Outside(range) THEN Filled(range) ELSE window
<1>0. index \in Indexes /\ needle \in Text /\ needle # <<>> /\ SearchTypeOK /\ Mirrors(window)
    BY DEF SearchInv
<1>1. k \in 1 .. Count /\ Count \in Nat
    <2>1. scanned \in 0 .. Count /\ Count \in Nat
        BY <1>0, IndexIs DEF SearchTypeOK
    <2> QED BY <2>1
<1>2. /\ range.len <= MaxTitle /\ scanned' = k
      /\ range.len < Len(needle) => window' = window /\ ids' = ids
      /\ ~ (range.len < Len(needle)) =>
            /\ window' = after
            /\ ids' = IF WordStart(Seen(after, range), needle) THEN Append(ids, k) ELSE ids
    BY DEF ScanTitle
<1> HIDE DEF k
<1>3. Title(k) \in Text /\ Len(Title(k)) = range.len /\ range.len \in Nat /\ range.off \in Nat
    BY <1>0, <1>1, TitleIs, RangeIs
<1>4. Rank(k) = 3 <=> ~ IsPrefix(needle, Title(k))
    BY <1>0, <1>1, RankIs
<1>5. k \in Matches <=> IsPrefix(needle, Title(k)) \/ BeginsWord(needle, Title(k))
    BY <1>1 DEF Matches
<1>6. CASE range.len < Len(needle)
    <2>1. ~ IsPrefix(needle, Title(k)) /\ ~ BeginsWord(needle, Title(k))
        BY <1>0, <1>3, <1>6, ShortIsNoMatch
    <2> QED BY <1>0, <1>1, <1>2, <1>5, <1>6, <2>1 DEF k
<1>7. CASE ~ (range.len < Len(needle))
    <2>1. Mirrors(after) /\ Seen(after, range) = Title(k)
        <3>1. CASE Outside(range)
            <4> DEFINE w == Filled(range)
            <4>1. Mirrors(w) /\ w.off = range.off /\ range.len <= w.len
                BY <1>0, <1>1, <1>2, FilledMirrors
            <4> HIDE DEF w
            <4>2. w.off <= range.off /\ range.off - w.off <= w.len - range.len
                BY <1>3, <4>1 DEF Mirrors
            <4>3. Seen(w, range) = Title(k)
                BY <1>0, <1>1, <4>1, <4>2, SeenIsTitle
            <4>4. after = w
                BY <3>1 DEF w
            <4> QED BY <4>1, <4>3, <4>4
        <3>2. CASE ~ Outside(range)
            <4>1. /\ window.off <= range.off /\ range.len <= window.len
                  /\ range.off - window.off <= window.len - range.len
                BY <1>0, <1>3, <3>2 DEF Outside, Mirrors
            <4>2. Seen(window, range) = Title(k)
                BY <1>0, <1>1, <4>1, SeenIsTitle
            <4>3. after = window
                BY <3>2
            <4> QED BY <1>0, <4>2, <4>3
        <3> QED BY <3>1, <3>2
    <2> HIDE DEF after
    <2>2. window' = after /\ ids' = IF WordStart(Title(k), needle) THEN Append(ids, k) ELSE ids
        BY <1>2, <1>7, <2>1
    <2>3. WordStart(Title(k), needle) <=> ~ IsPrefix(needle, Title(k)) /\ BeginsWord(needle, Title(k))
        BY <1>0, <1>3, WordStartIs
    <2>4. WordStart(Title(k), needle) <=> k \in Matches /\ Rank(k) = 3
        BY <1>4, <1>5, <2>3
    <2>5. \/ ids' = ids /\ ~ (k \in Matches /\ Rank(k) = 3)
          \/ ids' = Append(ids, k) /\ k \in Matches /\ Rank(k) = 3
        BY <2>2, <2>4
    <2> QED BY <1>1, <1>2, <2>1, <2>2, <2>5 DEF k
<1> QED BY <1>6, <1>7

LEMMA ScanKeepsIds ==
    ASSUME SearchInv, IdsRight, Len(ids) < Vacant, scanned < Count, step = "words",
           ScanTitle, UNCHANGED <<index, needle, results, exact>>
    PROVE  ids' \in Seq(1 .. Count) /\ IdsRight'
<1>a. PICK k : k = scanned'
    OBVIOUS
<1>0. /\ index \in Indexes /\ needle \in Text /\ ids \in Seq(1 .. Count) /\ scanned \in 0 .. Count
    BY DEF SearchInv, SearchTypeOK
<1>1. /\ k = scanned + 1 /\ k \in 1 .. Count
      /\ \/ ids' = ids /\ ~ (k \in Matches /\ Rank(k) = 3)
         \/ ids' = Append(ids, k) /\ k \in Matches /\ Rank(k) = 3
    BY <1>a, ScanIsRight
<1>2. Len(ids) \in Nat /\ Count \in Nat /\ Vacant \in Nat /\ \A i \in 1 .. Len(ids) : ids[i] \in 1 .. Count
    BY NumbersAre
<1>3. /\ Matches' = Matches
      /\ \A j : Rank(j)' = Rank(j)
      /\ \A i, j : Nearer(i, j)' = Nearer(i, j)
      /\ Vacant' = Vacant /\ exact' = exact
    BY SameRank DEF Vacant
<1>4. ASSUME NEW j \in 1 .. Count PROVE Rank(j) \in 1 .. 3
    BY <1>0, RankIs
<1>5. \A j \in Matches : j \in 1 .. Count
    BY DEF Matches
<1>6. ASSUME NEW j \in Matches, \A i \in 1 .. Len(ids) : ids[i] # j
      PROVE  (\A i \in 1 .. Len(ids) : Nearer(ids[i], j)) /\ Rank(j) = 3 /\ scanned < j
    BY <1>2, <1>6 DEF IdsRight
<1>7. CASE ids' = ids /\ ~ (k \in Matches /\ Rank(k) = 3)
    <2>0. PICK s : s = ids /\ s = ids'
        BY <1>7
    <2>1. \A i \in 1 .. Len(s) : s[i] \in Matches /\ (Rank(s[i]) = 3 => s[i] <= k)
        BY <1>0, <1>1, <1>2, <2>0 DEF IdsRight
    <2>2. ASSUME NEW j \in Matches, \A i \in 1 .. Len(s) : s[i] # j
          PROVE  (\A i \in 1 .. Len(s) : Nearer(s[i], j)) /\ Rank(j) = 3 /\ k < j
        <3>1. (\A i \in 1 .. Len(s) : Nearer(s[i], j)) /\ Rank(j) = 3 /\ scanned < j
            BY <1>6, <2>0, <2>2
        <3>2. j # k /\ j \in 1 .. Count
            BY <1>5, <1>7, <3>1
        <3> QED BY <1>0, <1>1, <3>1, <3>2
    <2>3. \A j \in Matches' :
             \/ \E i \in 1 .. Len(s) : s[i] = j
             \/ /\ \A i \in 1 .. Len(s) : Nearer(s[i], j)'
                /\ Len(s) = Vacant \/ (Rank(j)' = 3 /\ k < j)
        BY <1>3, <2>2
    <2>4. \A i \in 1 .. Len(s) : s[i] \in Matches' /\ (Rank(s[i])' = 3 => s[i] <= k)
        BY <1>3, <2>1
    <2>5. Len(s) <= Vacant /\ \A i, j \in 1 .. Len(s) : i < j => Nearer(s[i], s[j])'
        BY <1>3, <2>0 DEF IdsRight, InPageOrder
    <2>6. exact # 0 => 1 <= Len(s) /\ s[1] = exact
        BY <2>0 DEF IdsRight
    <2> QED BY <1>a, <1>0, <1>3, <1>7, <2>0, <2>3, <2>4, <2>5, <2>6 DEF IdsRight, InPageOrder
<1>8. CASE ids' = Append(ids, k) /\ k \in Matches /\ Rank(k) = 3
    <2>0. PICK a : a = Append(ids, k)
        OBVIOUS
    <2>1. /\ a \in Seq(1 .. Count) /\ Len(a) = Len(ids) + 1
          /\ \A i \in 1 .. Len(ids) + 1 : a[i] = IF i = Len(ids) + 1 THEN k ELSE ids[i]
        BY <1>0, <1>1, <2>0, AppendIs
    <2>2. ASSUME NEW i \in 1 .. Len(ids) PROVE Nearer(ids[i], k)
        <3>1. Rank(ids[i]) \in 1 .. 3 /\ (Rank(ids[i]) = 3 => ids[i] <= scanned) /\ ids[i] \in 1 .. Count
            BY <1>2, <1>4 DEF IdsRight
        <3> QED BY <1>0, <1>1, <1>8, <3>1 DEF Nearer
    <2>3. InPageOrder(a)
        <3>1. InPageOrder(ids)
            BY DEF IdsRight
        <3> QED BY <1>0, <1>1, <2>0, <2>2, <3>1, OrderKept
    <2>4. ASSUME NEW i \in 1 .. Len(a) PROVE a[i] \in Matches /\ (Rank(a[i]) = 3 => a[i] <= k)
        <3>1. CASE i = Len(ids) + 1
            <4>1. a[i] = k /\ k <= k
                BY <1>1, <2>1, <3>1
            <4> QED BY <1>8, <4>1
        <3>2. CASE i # Len(ids) + 1
            <4>1. i \in 1 .. Len(ids) /\ a[i] = ids[i]
                BY <1>2, <2>1, <3>2
            <4>2. ids[i] \in Matches /\ (Rank(ids[i]) = 3 => ids[i] <= scanned) /\ ids[i] \in 1 .. Count
                BY <1>2, <4>1 DEF IdsRight
            <4>3. ids[i] <= scanned => ids[i] <= k
                BY <1>0, <1>1, <4>2
            <4> QED BY <4>1, <4>2, <4>3
        <3> QED BY <3>1, <3>2
    <2>5. ASSUME NEW j \in Matches, \A i \in 1 .. Len(a) : a[i] # j
          PROVE  (\A i \in 1 .. Len(a) : Nearer(a[i], j)) /\ Rank(j) = 3 /\ k < j
        <3>1. \A i \in 1 .. Len(ids) : ids[i] # j
            <4>1. \A i \in 1 .. Len(ids) : i \in 1 .. Len(a) /\ a[i] = ids[i]
                BY <1>2, <2>1
            <4> QED BY <2>5, <4>1
        <3>2. (\A i \in 1 .. Len(ids) : Nearer(ids[i], j)) /\ Rank(j) = 3 /\ scanned < j
            BY <1>6, <3>1
        <3>3. j # k
            <4>1. Len(ids) + 1 \in 1 .. Len(a) /\ a[Len(ids) + 1] = k
                BY <1>2, <2>1
            <4> QED BY <2>5, <4>1
        <3>4. k < j
            BY <1>0, <1>1, <1>5, <3>2, <3>3
        <3>5. Nearer(k, j)
            BY <1>8, <3>2, <3>4 DEF Nearer
        <3>6. ASSUME NEW i \in 1 .. Len(a) PROVE Nearer(a[i], j)
            <4>1. CASE i = Len(ids) + 1
                BY <2>1, <3>5, <4>1
            <4>2. CASE i # Len(ids) + 1
                <5>1. i \in 1 .. Len(ids) /\ a[i] = ids[i]
                    BY <1>2, <2>1, <4>2
                <5> QED BY <3>2, <5>1
            <4> QED BY <4>1, <4>2
        <3> QED BY <3>2, <3>4, <3>6
    <2>6. ids' = a
        BY <1>8, <2>0
    <2>7. \A j \in Matches' :
             \/ \E i \in 1 .. Len(a) : a[i] = j
             \/ /\ \A i \in 1 .. Len(a) : Nearer(a[i], j)'
                /\ Len(a) = Vacant \/ (Rank(j)' = 3 /\ k < j)
        BY <1>3, <2>5
    <2>8. \A i \in 1 .. Len(a) : a[i] \in Matches' /\ (Rank(a[i])' = 3 => a[i] <= k)
        BY <1>3, <2>4
    <2>9. Len(a) <= Vacant
        BY <1>2, <2>1
    <2>10. \A i, j \in 1 .. Len(a) : i < j => Nearer(a[i], a[j])'
        BY <1>3, <2>3 DEF InPageOrder
    <2>11. exact # 0 => 1 <= Len(a) /\ a[1] = exact
        <3>1. ASSUME exact # 0 PROVE 1 <= Len(a) /\ a[1] = exact
            <4>1. 1 <= Len(ids) /\ ids[1] = exact
                BY <3>1 DEF IdsRight
            <4> QED BY <1>2, <2>1, <4>1
        <3> QED BY <3>1
    <2> QED BY <1>a, <1>3, <2>1, <2>6, <2>7, <2>8, <2>9, <2>10, <2>11 DEF IdsRight, InPageOrder
<1> QED BY <1>1, <1>7, <1>8

LEMMA WordsKeepsInv ==
    ASSUME SearchInv, SearchWords
    PROVE  SearchInv'
<1>1. step = "words" /\ UNCHANGED <<index, needle, library, exact, results>>
    BY DEF SearchWords
<1>2. index \in Indexes /\ needle \in Text /\ needle # <<>> /\ SearchTypeOK /\ PageRight /\ IdsRight /\ Mirrors(window)
      /\ (exact # 0 => Title(exact) = needle) /\ library <= Libraries /\ Len(results) < Limit
    BY <1>1 DEF SearchInv
<1>3. Count' = Count /\ \A k : Title(k)' = Title(k)
    BY <1>1, SameRank
<1>4. (exact # 0 => Title(exact) = needle)'
    BY <1>1, <1>2 DEF Title, Bytes
<1>5. Len(ids) \in Nat /\ Len(results) \in Nat /\ Vacant = Limit - Len(results) /\ Vacant \in Nat
      /\ Limit \in Nat /\ Len(ids) <= Vacant /\ Vacant' = Vacant
    BY <1>1, <1>2, NumbersAre DEF IdsRight, Vacant
<1>6. CASE SearchFails
    BY <1>1, <1>6, FailsKeepsInv
<1>7. CASE Len(ids) < Vacant /\ scanned < Count /\ ScanTitle /\ UNCHANGED <<step, unsearched>>
    <2>1. ids' \in Seq(1 .. Count) /\ IdsRight'
        BY <1>1, <1>2, <1>7, ScanKeepsIds
    <2>2. scanned' \in 1 .. Count /\ Mirrors(window')
        BY <1>7, ScanIsRight
    <2>3. Mirrors(window)' /\ window'.len <= WindowSize
        BY <1>1, <2>2 DEF Mirrors
    <2>4. Len(ids') <= Limit
        <3>1. Len(ids') <= Vacant' /\ Len(ids') \in Nat
            BY <2>1, LenProperties DEF IdsRight
        <3> QED BY <1>5, <3>1
    <2>5. SearchTypeOK'
        <3>1. scanned' \in 0 .. Count
            BY <2>2
        <3> QED BY <1>1, <1>2, <1>3, <1>7, <2>1, <2>3, <2>4, <3>1 DEF SearchTypeOK
    <2>6. PageRight'
        BY <1>1, <1>2, <1>7, PageKept
    <2> QED BY <1>1, <1>2, <1>4, <1>7, <2>1, <2>3, <2>5, <2>6 DEF SearchInv
<1>8. CASE (Len(ids) >= Vacant \/ scanned = Count) /\ step' = "show" /\ UNCHANGED <<ids, scanned, window, unsearched>>
    <2>1. Len(ids) = Vacant \/ scanned = Count
        BY <1>5, <1>8
    <2>2. IdsRight'
        BY <1>1, <1>2, <1>8, IdsKept
    <2>3. Mirrors(window)'
        BY <1>1, <1>2, <1>8 DEF Mirrors
    <2>4. SearchTypeOK'
        BY <1>1, <1>2, <1>3, <1>8 DEF SearchTypeOK
    <2>5. PageRight'
        BY <1>1, <1>2, <1>8, PageKept
    <2>6. (Len(ids) = Vacant \/ scanned = Count)'
        BY <1>3, <1>5, <1>8, <2>1
    <2> QED BY <1>1, <1>2, <1>4, <1>8, <2>2, <2>3, <2>4, <2>5, <2>6 DEF SearchInv
<1> QED BY <1>6, <1>7, <1>8 DEF SearchWords

(* What a sequence joined to another holds. *)
LEMMA JoinIs ==
    ASSUME NEW E, NEW a \in Seq(E), NEW b \in Seq(E)
    PROVE  /\ a \o b \in Seq(E) /\ Len(a) \in Nat /\ Len(b) \in Nat
           /\ Len(a \o b) = Len(a) + Len(b)
           /\ \A i \in 1 .. Len(a) : (a \o b)[i] = a[i]
           /\ \A i \in 1 .. Len(b) : (a \o b)[Len(a) + i] = b[i]
<1>1. Len(a) \in Nat /\ Len(b) \in Nat
    BY LenProperties
<1>2. /\ a \o b \in Seq(E) /\ Len(a \o b) = Len(a) + Len(b)
      /\ \A i \in 1 .. Len(a) + Len(b) : (a \o b)[i] = IF i <= Len(a) THEN a[i] ELSE b[i - Len(a)]
    BY ConcatProperties
<1>3. ASSUME NEW i \in 1 .. Len(a) PROVE (a \o b)[i] = a[i]
    BY <1>1, <1>2
<1>4. ASSUME NEW i \in 1 .. Len(b) PROVE (a \o b)[Len(a) + i] = b[i]
    <2>1. Len(a) + i \in 1 .. Len(a) + Len(b) /\ ~ (Len(a) + i <= Len(a)) /\ Len(a) + i - Len(a) = i
        BY <1>1
    <2> QED BY <1>2, <2>1
<1> QED BY <1>1, <1>2, <1>3, <1>4

LEMMA ShowKeepsInv ==
    ASSUME SearchInv, SearchShow
    PROVE  SearchInv'
<1>1. /\ step = "show" /\ library' = library + 1 /\ exact' = 0 /\ ids' = <<>>
      /\ step' = IF library = Libraries \/ Len(results') >= Limit THEN "done" ELSE "exact"
      /\ UNCHANGED <<index, needle, scanned, window>>
    BY DEF SearchShow
<1>2. PICK unread \in SUBSET {ids[i] : i \in DOMAIN ids} :
          results' = results \o Listing(unread) /\ unsearched' = (unsearched \/ unread # {})
    BY DEF SearchShow
<1>3. index \in Indexes /\ needle \in Text /\ needle # <<>> /\ SearchTypeOK /\ PageRight /\ IdsRight /\ Mirrors(window)
      /\ library <= Libraries /\ Len(results) < Limit /\ (Len(ids) = Vacant \/ scanned = Count)
    BY <1>1 DEF SearchInv
<1>4. /\ Count' = Count /\ Matches' = Matches
      /\ \A a, b : Above(a, b)' = Above(a, b)
    BY <1>1, SameRank
<1>5. /\ Count \in Nat /\ Libraries \in Nat /\ 1 <= Libraries /\ Limit \in Nat /\ 1 <= Limit
      /\ Len(ids) \in Nat /\ Len(results) \in Nat /\ Vacant = Limit - Len(results) /\ Vacant \in Nat /\ 1 <= Vacant
    BY <1>1, NumbersAre
<1>6. library \in 1 .. Libraries
    BY <1>3, <1>5 DEF SearchTypeOK
<1>7. PICK s \in Seq(1 .. Count) :
              /\ Listing(unread) = [i \in 1 .. Len(s) |-> <<library, s[i]>>]
              /\ Len(s) <= Vacant /\ InPageOrder(s)
              /\ \A i \in 1 .. Len(s) : \E m \in 1 .. Len(ids) : s[i] = ids[m]
              /\ unread = {} => s = ids
    <2>1. ids \in Seq(1 .. Count) /\ exact \in 0 .. Count
        BY <1>3 DEF SearchTypeOK
    <2>2. Len(ids) <= Vacant /\ InPageOrder(ids) /\ (exact # 0 => 1 <= Len(ids) /\ ids[1] = exact)
        BY <1>3 DEF IdsRight
    <2> QED BY <1>5, <2>1, <2>2, ListingIs
<1>8. Len(s) \in Nat /\ \A i \in 1 .. Len(s) : s[i] \in 1 .. Count /\ s[i] \in Matches
    <2>1. Len(s) \in Nat /\ \A i \in 1 .. Len(s) : s[i] \in 1 .. Count
        BY LenProperties, ElementOfSeq
    <2>2. \A i \in 1 .. Len(s) : s[i] \in Matches
        BY <1>3, <1>7 DEF IdsRight
    <2> QED BY <2>1, <2>2
<1> DEFINE Entries == (1 .. Libraries) \X (1 .. Count)
           new == [i \in 1 .. Len(s) |-> <<library, s[i]>>]
<1>9. new \in Seq(Entries) /\ Len(new) = Len(s)
    <2>1. new \in [1 .. Len(s) -> Entries]
        BY <1>6, <1>8
    <2>2. new \in Seq(Entries)
        BY <1>8, <2>1, SeqDef
    <2> QED BY <1>8, <2>2, LenProperties
<1>10. results \in Seq(Entries)
    BY <1>3 DEF SearchTypeOK
<1>11. PICK r : r = results'
    OBVIOUS
<1>12. PICK old : old = results
    OBVIOUS
<1>13. /\ r \in Seq(Entries) /\ Len(r) = Len(old) + Len(s)
       /\ \A i \in 1 .. Len(old) : r[i] = old[i]
       /\ \A i \in 1 .. Len(s) : r[Len(old) + i] = new[i]
    <2>1. r = old \o new
        BY <1>2, <1>7, <1>11, <1>12
    <2>2. old \in Seq(Entries)
        BY <1>10, <1>12
    <2>3. Len(new) = Len(s) /\ new \in Seq(Entries)
        BY <1>9
    <2>4. /\ r \in Seq(Entries) /\ Len(r) = Len(old) + Len(new)
          /\ \A i \in 1 .. Len(old) : r[i] = old[i]
          /\ \A i \in 1 .. Len(new) : r[Len(old) + i] = new[i]
        <3> HIDE DEF Entries, new
        <3>1. PICK E : E = Entries
            OBVIOUS
        <3>2. PICK added : added = new
            OBVIOUS
        <3>3. old \in Seq(E) /\ added \in Seq(E) /\ r = old \o added
            BY <2>1, <2>2, <2>3, <3>1, <3>2
        <3>4. /\ r \in Seq(E) /\ Len(r) = Len(old) + Len(added)
              /\ \A i \in 1 .. Len(old) : r[i] = old[i]
              /\ \A i \in 1 .. Len(added) : r[Len(old) + i] = added[i]
            BY <3>3, JoinIs
        <3> QED BY <3>1, <3>2, <3>4
    <2> HIDE DEF Entries, new
    <2> QED BY <2>3, <2>4
<1>14. ASSUME NEW i \in 1 .. Len(old) PROVE r[i] = old[i] /\ i \in 1 .. Len(r) /\ old[i][1] \in Nat /\ old[i][1] < library
    <2>0. old \in Seq(Entries)
        BY <1>10, <1>12
    <2> HIDE DEF Entries, new
    <2>1. old[i] \in Entries
        BY <2>0, ElementOfSeq
    <2>2. old[i][1] < library
        BY <1>3, <1>12 DEF PageRight
    <2>3. Len(old) \in Nat
        BY <1>5, <1>12
    <2>4. r[i] = old[i]
        BY <1>13
    <2>5. i \in 1 .. Len(r)
        BY <1>8, <1>13, <2>3
    <2>6. old[i][1] \in Nat
        BY <2>1 DEF Entries
    <2> QED BY <2>2, <2>4, <2>5, <2>6
<1>15. ASSUME NEW i \in 1 .. Len(s)
       PROVE  Len(old) + i \in 1 .. Len(r) /\ r[Len(old) + i] = <<library, s[i]>>
    <2>0. Len(old) \in Nat
        BY <1>5, <1>12
    <2>1. Len(old) + i \in 1 .. Len(r)
        BY <1>8, <1>13, <2>0
    <2>2. r[Len(old) + i] = new[i]
        BY <1>13
    <2>3. new[i] = <<library, s[i]>>
        OBVIOUS
    <2> HIDE DEF new
    <2> QED BY <2>1, <2>2, <2>3
<1>16. ASSUME NEW i \in 1 .. Len(r), i \notin 1 .. Len(old)
       PROVE  i - Len(old) \in 1 .. Len(s) /\ r[i] = <<library, s[i - Len(old)]>>
    <2>0. Len(old) \in Nat
        BY <1>5, <1>12
    <2>1. i - Len(old) \in 1 .. Len(s) /\ Len(old) + (i - Len(old)) = i
        BY <1>8, <1>13, <1>16, <2>0
    <2> QED BY <1>15, <2>1
<1> HIDE DEF new
<1>17. Len(r) \in Nat /\ Len(r) <= Limit /\ Len(old) \in Nat /\ Len(r) = Len(old) + Len(s)
    BY <1>5, <1>7, <1>8, <1>12, <1>13
<1>18. ASSUME NEW i \in 1 .. Len(r), NEW j \in 1 .. Len(r), i < j PROVE Above(r[i], r[j])
    <2>1. CASE j \in 1 .. Len(old)
        <3>1. i \in 1 .. Len(old)
            BY <1>17, <1>18, <2>1
        <3>2. Above(old[i], old[j])
            BY <1>3, <1>12, <1>18, <2>1, <3>1 DEF PageRight
        <3> QED BY <1>14, <2>1, <3>1, <3>2
    <2>2. CASE i \in 1 .. Len(old) /\ j \notin 1 .. Len(old)
        <3>1. r[i] = old[i] /\ old[i][1] < library
            BY <1>14, <2>2
        <3>2. r[j] = <<library, s[j - Len(old)]>>
            BY <1>16, <2>2
        <3> QED BY <3>1, <3>2 DEF Above
    <2>3. CASE i \notin 1 .. Len(old) /\ j \notin 1 .. Len(old)
        <3> DEFINE u == i - Len(old)
                   v == j - Len(old)
        <3>1. u \in 1 .. Len(s) /\ v \in 1 .. Len(s) /\ r[i] = <<library, s[u]>> /\ r[j] = <<library, s[v]>>
            BY <1>16, <2>3
        <3>2. u < v
            BY <1>17, <1>18
        <3> HIDE DEF u, v
        <3>3. Nearer(s[u], s[v])
            BY <1>7, <3>1, <3>2 DEF InPageOrder
        <3> QED BY <3>1, <3>3 DEF Nearer, Above
    <2> QED BY <2>1, <2>2, <2>3
<1>19. ASSUME NEW i \in 1 .. Len(r) PROVE r[i][1] < library + 1 /\ r[i][2] \in Matches
    <2>1. CASE i \in 1 .. Len(old)
        <3>1. old[i][2] \in Matches
            BY <1>3, <1>12, <2>1 DEF PageRight
        <3> QED BY <1>6, <1>14, <2>1, <3>1
    <2>2. CASE i \notin 1 .. Len(old)
        <3>1. i - Len(old) \in 1 .. Len(s) /\ r[i] = <<library, s[i - Len(old)]>>
            BY <1>16, <2>2
        <3> QED BY <1>6, <1>8, <3>1
    <2> QED BY <2>1, <2>2
<1>20. ASSUME ~ unsearched', NEW l \in 1 .. library, NEW k \in Matches
       PROVE  \/ \E i \in 1 .. Len(r) : r[i] = <<l, k>>
              \/ Len(r) = Limit /\ \A i \in 1 .. Len(r) : Above(r[i], <<l, k>>)
    <2>0. ~ unsearched /\ unread = {} /\ s = ids
        BY <1>2, <1>7, <1>20
    <2>1. CASE l # library
        <3>1. l \in 1 .. library - 1
            BY <1>6, <2>1
        <3>0. \E i \in 1 .. Len(results) : results[i] = <<l, k>>
            <4>1. \A m \in 1 .. library - 1 : \A n \in Matches :
                      \/ \E i \in 1 .. Len(results) : results[i] = <<m, n>>
                      \/ Len(results) = Limit
                BY <1>3, <2>0 DEF PageRight
            <4>2. Len(results) # Limit
                BY <1>3, <1>5
            <4> QED BY <3>1, <4>1, <4>2
        <3>2. PICK i \in 1 .. Len(old) : old[i] = <<l, k>>
            BY <1>12, <3>0
        <3>3. r[i] = <<l, k>> /\ i \in 1 .. Len(r)
            BY <1>14, <3>2
        <3> QED BY <3>3
    <2>2. CASE l = library /\ \E i \in 1 .. Len(s) : s[i] = k
        <3>1. PICK i \in 1 .. Len(s) : s[i] = k
            BY <2>2
        <3>2. Len(old) + i \in 1 .. Len(r) /\ r[Len(old) + i] = <<l, k>>
            BY <1>15, <2>2, <3>1
        <3> QED BY <3>2
    <2>3. CASE l = library /\ ~ \E i \in 1 .. Len(s) : s[i] = k
        <3>1. /\ \A i \in 1 .. Len(s) : Nearer(s[i], k)
              /\ Len(s) = Vacant \/ (Rank(k) = 3 /\ scanned < k)
            BY <1>3, <2>0, <2>3 DEF IdsRight
        <3>2. k \in 1 .. Count
            BY DEF Matches
        <3>3. Len(s) = Vacant
            BY <1>3, <1>5, <2>0, <3>1, <3>2
        <3>4. Len(r) = Limit
            BY <1>5, <1>12, <1>17, <3>3
        <3>5. ASSUME NEW i \in 1 .. Len(r) PROVE Above(r[i], <<l, k>>)
            <4>1. CASE i \in 1 .. Len(old)
                <5>1. r[i] = old[i] /\ old[i][1] < library
                    BY <1>14, <4>1
                <5> QED BY <2>3, <5>1 DEF Above
            <4>2. CASE i \notin 1 .. Len(old)
                <5> DEFINE u == i - Len(old)
                <5>1. u \in 1 .. Len(s) /\ r[i] = <<library, s[u]>>
                    BY <1>16, <4>2
                <5> HIDE DEF u
                <5>2. Nearer(s[u], k)
                    BY <3>1, <5>1
                <5> QED BY <2>3, <5>1, <5>2 DEF Nearer, Above
            <4> QED BY <4>1, <4>2
        <3> QED BY <3>4, <3>5
    <2> QED BY <2>1, <2>2, <2>3
<1>21. PageRight'
    <2>1. \A i, j \in 1 .. Len(r) : i < j => Above(r[i], r[j])'
        BY <1>4, <1>18
    <2>2. \A i \in 1 .. Len(r) : r[i][1] < library' /\ r[i][2] \in Matches'
        BY <1>1, <1>4, <1>19
    <2>3. ASSUME ~ unsearched', NEW l \in 1 .. library' - 1, NEW k \in Matches'
          PROVE  \/ \E i \in 1 .. Len(r) : r[i] = <<l, k>>
                 \/ Len(r) = Limit /\ \A i \in 1 .. Len(r) : Above(r[i], <<l, k>>)'
        <3>1. l \in 1 .. library /\ k \in Matches
            BY <1>1, <1>4, <1>6, <2>3
        <3> QED BY <1>4, <1>20, <2>3, <3>1
    <2> QED BY <1>11, <1>17, <2>1, <2>2, <2>3 DEF PageRight
<1>22. SearchTypeOK'
    <2>1. ids' \in Seq(1 .. Count) /\ Len(ids') <= Limit
        BY <1>1, <1>5, NoneShown
    <2>2. results' \in Seq((1 .. Libraries) \X (1 .. Count))
        BY <1>11, <1>13
    <2>3. library' \in 1 .. Libraries + 1 /\ exact' \in 0 .. Count
        BY <1>1, <1>5, <1>6
    <2>4. scanned' \in 0 .. Count /\ window'.len <= WindowSize
        BY <1>1, <1>3 DEF SearchTypeOK
    <2>5. step' \in {"exact", "prefix", "words", "show", "done"}
        BY <1>1
    <2>6. unsearched' \in BOOLEAN
        BY <1>2
    <2> QED BY <1>4, <2>1, <2>2, <2>3, <2>4, <2>5, <2>6 DEF SearchTypeOK
<1>23. Mirrors(window)'
    BY <1>1, <1>3 DEF Mirrors
<1>24. step' # "done" => library' <= Libraries /\ Len(results') < Limit
    <2>1. ASSUME step' # "done" PROVE library # Libraries /\ ~ (Len(results') >= Limit)
        BY <1>1, <2>1
    <2>2. Len(results') = Len(r)
        BY <1>11
    <2> QED BY <1>1, <1>5, <1>6, <1>17, <2>1, <2>2
<1>25. step' = "done" => library' = Libraries + 1 \/ Len(results') = Limit
    <2>1. Len(results') = Len(r)
        BY <1>11
    <2>2. ASSUME step' = "done" PROVE library = Libraries \/ Len(r) >= Limit
        BY <1>1, <2>1, <2>2
    <2> QED BY <1>1, <1>5, <1>17, <2>1, <2>2
<1>26. step' \in {"exact", "done"}
    BY <1>1
<1> QED BY <1>1, <1>3, <1>21, <1>22, <1>23, <1>24, <1>25, <1>26 DEF SearchInv

LEMMA KeptSearchInv == SearchInv /\ [SearchNext]_searchVars => SearchInv'
<1> SUFFICES ASSUME SearchInv, [SearchNext]_searchVars PROVE SearchInv'
    OBVIOUS
<1>1. CASE SearchExact
    BY <1>1, ExactKeepsInv
<1>2. CASE SearchSkips
    BY <1>2, SkipsKeepsInv
<1>3. CASE SearchPrefix
    BY <1>3, PrefixKeepsInv
<1>4. CASE SearchWords
    BY <1>4, WordsKeepsInv
<1>5. CASE SearchShow
    BY <1>5, ShowKeepsInv
<1>6. CASE UNCHANGED searchVars
    <2>1. /\ UNCHANGED <<index, needle, library, step, exact, ids>>
          /\ UNCHANGED <<scanned, window, results, unsearched>>
        BY <1>6 DEF searchVars
    <2>2. index \in Indexes /\ needle \in Text /\ needle # <<>> /\ SearchTypeOK /\ PageRight /\ Mirrors(window)
        BY DEF SearchInv
    <2>3. Count' = Count
        BY <2>1, SameRank
    <2>4. SearchTypeOK'
        BY <2>1, <2>2, <2>3 DEF SearchTypeOK
    <2>5. Mirrors(window)'
        BY <2>1, <2>2 DEF Mirrors
    <2>6. PageRight'
        BY <2>1, <2>2, PageKept
    <2>7. IdsRight => IdsRight'
        BY <2>1, IdsKept
    <2>8. (exact # 0 => Title(exact) = needle)'
        BY <2>1 DEF Title, Bytes, SearchInv
    <2>9. (step = "show" => Len(ids) = Vacant \/ scanned = Count)'
        BY <2>1, <2>3 DEF SearchInv, Vacant
    <2> QED BY <2>1, <2>2, <2>4, <2>5, <2>6, <2>7, <2>8, <2>9 DEF SearchInv
<1> QED BY <1>1, <1>2, <1>3, <1>4, <1>5, <1>6 DEF SearchNext

LEMMA SearchInvIsExact == SearchInv => SearchIsExact
<1> SUFFICES ASSUME SearchInv PROVE SearchIsExact
    OBVIOUS
<1>1. PageRight /\ SearchTypeOK /\ (step = "done" => unsearched \/ library = Libraries + 1 \/ Len(results) = Limit)
    BY DEF SearchInv
<1>2. results \in Seq((1 .. Libraries) \X (1 .. Count)) /\ library \in 1 .. Libraries + 1
    BY <1>1 DEF SearchTypeOK
<1>3. DOMAIN results = 1 .. Len(results)
    BY <1>2, LenProperties
<1>4. SearchShowsMatches
    BY <1>1, <1>3 DEF SearchShowsMatches, PageRight
<1>5. ASSUME step = "done", ~ unsearched, NEW entry \in (1 .. Libraries) \X Matches
      PROVE  \/ \E i \in DOMAIN results : results[i] = entry
             \/ Len(results) = Limit /\ \A i \in DOMAIN results : Above(results[i], entry)
    <2>1. PICK l \in 1 .. Libraries, k \in Matches : entry = <<l, k>>
        OBVIOUS
    <2>2. Libraries \in Nat
        BY TitleAssumption
    <2>3. CASE l < library
        <3>1. l \in 1 .. library - 1
            BY <1>2, <2>2, <2>3
        <3> QED BY <1>1, <1>3, <1>5, <2>1, <3>1 DEF PageRight
    <2>4. CASE ~ (l < library)
        <3>1. Len(results) = Limit
            BY <1>1, <1>2, <1>5, <2>2, <2>4
        <3>2. ASSUME NEW i \in 1 .. Len(results) PROVE Above(results[i], entry)
            <4>1. results[i] \in (1 .. Libraries) \X (1 .. Count) /\ results[i][1] < library
                BY <1>1, <1>2, ElementOfSeq DEF PageRight
            <4>2. results[i][1] < l
                BY <1>2, <2>2, <2>4, <4>1
            <4> QED BY <2>1, <4>2 DEF Above
        <3> QED BY <1>3, <3>1, <3>2
    <2> QED BY <2>3, <2>4
<1> QED BY <1>4, <1>5 DEF SearchIsExact, SearchFindsAll

(* Every step of a search leaves a page of at most PW_SEARCH_LIMIT entries,*)
(* of installed libraries and titles of their indexes, and a window that   *)
(* fits its buffer (title_lookup.c:157-206, web_server.c:422-506).         *)
THEOREM SearchTypeCorrect == SearchSpec => []SearchTypeOK
<1>1. SearchInv => SearchTypeOK
    BY DEF SearchInv
<1> QED BY <1>1, InitSearchInv, KeptSearchInv, PTL DEF SearchSpec

(* A search shows the titles that match, in order, and all of them or the  *)
(* first of them, whatever titles the archives hold and however their      *)
(* string tables are laid out; when a read fails, matches only             *)
(* (title_lookup.c:76-206, web_server.c:256-306, 460-475).                 *)
THEOREM SearchesAreExact == SearchSpec => []SearchIsExact
BY InitSearchInv, KeptSearchInv, SearchInvIsExact, PTL DEF SearchSpec
==============================================================================
