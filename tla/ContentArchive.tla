---------------------------- MODULE ContentArchive ----------------------------
(***************************************************************************)
(* The archive the reader reads: content_archive.c.  A pack file or the    *)
(* pair of flash partitions is validated before it becomes the one open    *)
(* archive, and every later read is checked against what was validated.    *)
(*                                                                         *)
(* A file is its header fields and entries; lengths and offsets are        *)
(* machine words of WordSize values, and wrap.  The checks of the wrapper  *)
(* and of the index by CRC are one fact each.                              *)
(***************************************************************************)
EXTENDS Integers, Sequences

CONSTANTS
    WordSize,        \* 2^32
    PackHeader, ContentHeader, IndexHeader, EntrySize,
    MaxDict,         \* PW_MAX_DICT_BYTES
    Volumes,         \* the sets of files a volume may hold
    Flash            \* what the flash partitions hold

Word == 0 .. WordSize - 1
NoFile == [name |-> "none"]

(* What can be read of a file, accepted or not: every field is a word, and *)
(* so are those of every entry that lies inside the file.                  *)
EntryFields(e) == {e.id, e.content, e.comp, e.uncomp, e.norm, e.normLen, e.disp, e.dispLen}
IsFile(f) ==
    /\ f # NoFile
    /\ {f.contentLen, f.indexLen} \subseteq Word
    /\ {f.content.headerSize, f.content.payload, f.content.dictOff, f.content.dictLen} \subseteq Word
    /\ {f.index.entriesOff, f.index.stringsOff, f.index.size, f.index.count} \subseteq Word
    /\ \A i \in 1 .. f.index.count :
          IndexHeader + i * EntrySize <= f.indexLen => EntryFields(f.index.entry[i]) \subseteq Word

(* Both partitions are in one flash chip (partitions.csv). *)
ASSUME ArchiveAssumption ==
    /\ WordSize \in Nat \ {0}
    /\ {PackHeader, ContentHeader, IndexHeader, EntrySize, MaxDict} \subseteq 1 .. WordSize - 1
    /\ \A volume \in Volumes : \A f \in volume : IsFile(f)
    /\ IsFile(Flash) /\ Flash.contentLen + Flash.indexLen < WordSize

Wrap(n) == n % WordSize

VARIABLES
    onVolume,        \* the files the volume holds
    archive,         \* s_ca, or invalid
    indexCopy,       \* s_index_ram: the file whose index it holds, or none
    indexSource,     \* where s_ca.index reads: "storage" or "memory"
    file             \* s_pack_fh: the file that is open, or none

archiveVars == <<onVolume, archive, indexCopy, indexSource, file>>

Invalid == [valid |-> FALSE]

------------------------------------------------------------------------------
(* Validation. *)

(* read_exact() *)
Readable(size, off, len) == off <= size /\ len <= size - off

(* validate_content() *)
ContentValid(c, size) ==
    /\ Readable(size, 0, ContentHeader)
    /\ c.known                              \* magic and version
    /\ c.headerSize = ContentHeader
    /\ c.headerSize <= size
    /\ c.payload <= size - c.headerSize
    /\ c.dictLen <= c.payload
    /\ c.dictLen <= MaxDict
    /\ IF c.dictLen = 0 THEN c.dictOff = 0 ELSE c.dictOff = c.payload - c.dictLen

(* One entry of validate_index(): its place, its article, its two titles.  *)
WithinByEnd(off, len, size) == Wrap(off + len) <= size
Within(off, len, size) == off <= size /\ len <= size - off
ContentWithin(e, payload) == Within(e.content, e.comp, payload)
EntryValid(e, i, indexSize, payload) ==
    /\ e.id = i - 1
    /\ e.comp # 0 /\ e.uncomp # 0
    /\ ContentWithin(e, payload)
    /\ e.normLen # 0 /\ e.dispLen # 0
    /\ Within(e.norm, e.normLen, indexSize)
    /\ Within(e.disp, e.dispLen, indexSize)

(* validate_index(), with its CRC over everything but the header.          *)
IndexValid(x, size, payload) ==
    /\ Readable(size, 0, IndexHeader)
    /\ x.known                              \* magic, version, entry size
    /\ x.entriesOff = IndexHeader
    /\ x.size <= size /\ x.size >= IndexHeader
    /\ x.stringsOff <= x.size
    /\ x.count <= (x.size - IndexHeader) \div EntrySize
    /\ x.stringsOff >= Wrap(IndexHeader + x.count * EntrySize)
    /\ x.crcMatches
    /\ \A i \in 1 .. x.count :
          /\ Readable(size, Wrap(x.entriesOff + (i - 1) * EntrySize), EntrySize)
          /\ EntryValid(x.entry[i], i, x.size, payload)

(* What becomes of s_ca: the regions, and the sizes that were validated.   *)
Opened(f, base, contentSize, indexSize) ==
    [valid |-> TRUE, name |-> f.name,
     contentBase |-> base, contentSize |-> contentSize,
     indexBase |-> Wrap(base + contentSize), indexSize |-> indexSize,
     payload |-> f.content.payload, dictOff |-> f.content.dictOff, dictLen |-> f.content.dictLen,
     count |-> f.index.count, entriesOff |-> f.index.entriesOff, size |-> f.index.size,
     entry |-> f.index.entry]

(* probe_pack_file(): the wrapper's lengths are added in 64 bits. *)
WrapperSize(f) == PackHeader + f.contentLen + f.indexLen
PackValid(f) ==
    /\ f.length >= PackHeader
    /\ f.known
    /\ f.contentLen >= ContentHeader /\ f.indexLen >= IndexHeader
    /\ WrapperSize(f) < WordSize /\ f.length = WrapperSize(f)
    /\ f.crcMatches
    /\ ContentValid(f.content, f.contentLen)
    /\ IndexValid(f.index, f.indexLen, f.content.payload)

FlashValid ==
    /\ ContentValid(Flash.content, Flash.contentLen)
    /\ IndexValid(Flash.index, Flash.indexLen, Flash.content.payload)

(* ca_init(): without a valid pair of partitions there is no archive. *)
FromFlash ==
    IF FlashValid THEN Opened(Flash, 0, Flash.contentLen, Flash.indexLen) ELSE Invalid

------------------------------------------------------------------------------

(* ca_load_pack(): the open archive stays until the new one is accepted;   *)
(* the copy of the index is made if there is memory and the read succeeds. *)
CopyOrKeep(f) ==
    \/ indexCopy' = f /\ indexSource' = "memory"
    \/ UNCHANGED <<indexCopy, indexSource>>
CopyIndex(f) ==
    \/ indexCopy' = f /\ indexSource' = "memory"
    \/ indexCopy' = NoFile /\ indexSource' = "storage"

LoadPack(f) ==
    IF PackValid(f)
    THEN /\ file' = f
         /\ archive' = Opened(f, PackHeader, f.contentLen, f.indexLen)
         /\ CopyIndex(f)
         /\ UNCHANGED onVolume
    ELSE UNCHANGED archiveVars

(* ca_revert_to_flash() *)
RevertToFlash ==
    /\ file' = NoFile
    /\ archive' = FromFlash
    /\ indexCopy' = NoFile
    /\ indexSource' = "storage"
    /\ UNCHANGED onVolume

------------------------------------------------------------------------------
(* Reads.  Each is a range of the file or partition, or refused.           *)

Refused == [from |-> 0, to |-> 0, ok |-> FALSE]
RangeOf(base, off, len) ==
    [from |-> Wrap(base + off), to |-> Wrap(base + off) + len, ok |-> TRUE]

(* ca_read_payload() *)
ReadPayload(off, len) ==
    IF archive.valid /\ Within(off, len, archive.payload)
    THEN RangeOf(archive.contentBase, Wrap(ContentHeader + off), len)
    ELSE Refused

(* ca_index_read(), and mem_read() when the index is in memory. *)
ReadIndex(off, len) ==
    IF archive.valid /\ Within(off, len, archive.size)
       /\ (indexSource = "memory" => Within(off, len, indexCopy.index.size))
    THEN RangeOf(archive.indexBase, off, len)
    ELSE Refused

(* ca_get_article(): the entry as it is read, its range checked again. *)
EntryOffset(id) == Wrap(archive.entriesOff + id * EntrySize)
IndexRead == IF indexSource = "memory" THEN indexCopy.index ELSE archive
GetArticle(id) ==
    LET e == IndexRead.entry[id + 1]
    IN  IF archive.valid /\ id < archive.count
           /\ Readable(archive.indexSize, EntryOffset(id), EntrySize)
           /\ Within(e.content, e.comp, archive.payload)
        THEN [ok |-> TRUE, content |-> e.content, comp |-> e.comp]
        ELSE [ok |-> FALSE]

------------------------------------------------------------------------------

ArchiveInit ==
    /\ onVolume \in Volumes
    /\ archive = FromFlash
    /\ indexCopy = NoFile
    /\ indexSource = "storage"
    /\ file = NoFile

ArchiveNext == RevertToFlash \/ \E f \in onVolume : LoadPack(f)

ArchiveSpec == ArchiveInit /\ [][ArchiveNext]_archiveVars

ArchiveTypeOK ==
    /\ archive.valid => archive.name \in {f.name : f \in onVolume \cup {Flash}}
    /\ indexCopy \in onVolume \cup {NoFile}
    /\ indexSource \in {"storage", "memory"}
    /\ file \in onVolume \cup {NoFile}

------------------------------------------------------------------------------

(* No read leaves the region it is made in, whatever offset and length a   *)
(* caller passes and however large the sizes in an accepted archive are:   *)
(* content reads stay in the payload, index reads in the index, and both   *)
(* regions in the file.                                                    *)
ReadsStayInside ==
    archive.valid =>
        /\ file # NoFile => archive.indexBase >= archive.contentBase + archive.contentSize
                           /\ archive.indexBase + archive.indexSize <= file.length
        /\ \A off, len \in Word :
               /\ LET r == ReadPayload(off, len)
                      base == archive.contentBase + ContentHeader
                  IN  r.ok => base <= r.from /\ r.to <= base + archive.payload
                              /\ r.to <= archive.contentBase + archive.contentSize
               /\ LET r == ReadIndex(off, len)
                  IN  r.ok => archive.indexBase <= r.from
                              /\ r.to <= archive.indexBase + archive.indexSize

(* What validation accepts can be served: every article of an open archive *)
(* is found and can be read to its last byte, its titles and the           *)
(* dictionary too.  Nothing about a pack is first refused while it is      *)
(* being read.                                                             *)
AcceptedIsReadable ==
    archive.valid =>
        /\ ReadPayload(archive.dictOff, archive.dictLen).ok
        /\ \A id \in 0 .. archive.count - 1 :
              /\ GetArticle(id).ok
              /\ ReadPayload(archive.entry[id + 1].content, archive.entry[id + 1].comp).ok
              /\ ReadIndex(EntryOffset(id), EntrySize).ok
              /\ ReadIndex(archive.entry[id + 1].norm, archive.entry[id + 1].normLen).ok
              /\ ReadIndex(archive.entry[id + 1].disp, archive.entry[id + 1].dispLen).ok

(* Both: what validation lets through is exactly what reading can stay in  *)
(* (content_archive.c:97-330, 470-535).                                    *)
ArchiveIsSound == ReadsStayInside /\ AcceptedIsReadable

(* The copy of the index in memory is the index of the archive whose       *)
(* articles are read: loading, failing to load, failing to copy and        *)
(* reverting never pair one library's titles with another's articles.      *)
IndexMatchesContent ==
    /\ indexSource = "memory" => archive.valid /\ indexCopy.name = archive.name
    /\ file # NoFile => archive.valid /\ archive.name = file.name
    /\ file = NoFile /\ archive.valid => archive = FromFlash
==============================================================================
