------------------------------- MODULE OtaTool -------------------------------
(***************************************************************************)
(* The commands mini_pack and mini_unpack of OTA/main.rs, with the image   *)
(* file and the output folder between them.                                *)
(*                                                                         *)
(* Both commands open their files without truncating them and write        *)
(* through a shared mapping, so a full file system or a kill may stop them *)
(* between two pages; a page is a cell, and the text of a header fits one  *)
(* page.  An image is damaged and cut on its way from one command to the   *)
(* other.                                                                  *)
(***************************************************************************)
EXTENDS OtaImage

CONSTANTS
  Contents,    \* input files of mini_pack, sequences of data cells
  Vendor,      \* images of other tools: header and sections
  Foreign,     \* a file that is no image
  MaxDamage,   \* bound: cells damaged in one behaviour
  MaxPacks     \* bound: calls of mini_pack in one behaviour

\* The text of build_header fits HEADER_SIZE: 12 lines for two sections.
ASSUME RoomAssumption == HeaderSize >= 12 /\ {MaxDamage, MaxPacks} \subseteq Nat

ASSUME ContentsAssumption == IsText(Foreign) /\ \A c \in Contents : IsText(c)

\* Vendor images have the data their header speaks of.
ASSUME VendorAssumption ==
  \A m \in Vendor :
    /\ IsText(m.header) /\ Len(m.header) <= HeaderSize /\ IsSections(m.secs)
    /\ Describes(Resize(m.header, HeaderSize), m.secs)

\* A hole is text, and a line without a key that the reader knows.
ASSUME NulAssumption ==
  NUL.k \notin {"blank", "binary", "bs_size", "ota_img_packet_md5",
                "img_name", "img_size", "img_md5", "img_crc"}

VARIABLES
  file,     \* the image file; <<>> also when it does not exist
  folder,   \* output folder: file name -> contents
  pc,       \* "idle", "header", "data", "hang", "open", "copy", "done"
  secs,     \* sections the command works on
  out,      \* the bytes mini_pack copies into the file
  k,        \* the cell to copy (mini_pack), the section (mini_unpack)
  packed,   \* history: the sections the header in the file was made for
  intact,   \* history: packed completely, nothing damaged since
  over,     \* history: the last mini_pack replaced all of an older header
  damage,   \* cells damaged so far
  packs     \* calls of mini_pack so far

vars == <<file, folder, pc, secs, out, k, packed, intact, over, damage, packs>>

\* Init: no file, an image of another tool, or some other file.
Init ==
  /\ \/ \E v \in Vendor : file = Image(v.header, v.secs) /\ packed = v.secs /\ intact = TRUE
     \/ file \in {<<>>, Foreign} /\ packed = <<>> /\ intact = FALSE
  /\ folder = << >>
  /\ pc = "idle" /\ secs = <<>> /\ out = <<>> /\ k = 0
  /\ over = TRUE /\ damage = 0 /\ packs = 0

End == pc' = "idle" /\ secs' = <<>> /\ out' = <<>> /\ k' = 0

-----------------------------------------------------------------------------
(* mini_pack *)

KernelName == <<"k">>
RootfsName == <<"r">>
ToPack(kernel, rootfs) ==
  << [name |-> KernelName, data |-> kernel], [name |-> RootfsName, data |-> rootfs] >>

\* create, the inputs, truncate.  An input that is missing or empty cannot be
\* mapped: the command panics before it has changed the file.
PackStart ==
  /\ pc = "idle" /\ packs < MaxPacks
  /\ packs' = packs + 1
  /\ \E kernel, rootfs \in Contents :
       LET s == ToPack(kernel, rootfs)
           h == BuildHeader(s)
       IN /\ kernel # <<>> /\ rootfs # <<>>
          /\ file' = Resize(file, OutputSize(s))
          /\ over' = \A i \in Len(h) + 1 .. Min({HeaderSize, Len(file)}) : file[i] = NUL
          /\ secs' = s
          /\ out' = Image(h, s)
          /\ k' = Len(h)
  /\ pc' = "header"
  /\ intact' = FALSE
  /\ UNCHANGED <<folder, packed, damage>>

PackHeader ==
  /\ pc = "header"
  /\ file' = Overwrite(file, out, 0, k)
  /\ packed' = secs
  /\ pc' = "data" /\ k' = HeaderSize
  /\ UNCHANGED <<folder, secs, out, intact, over, damage, packs>>

PackData ==
  /\ pc = "data" /\ k < Len(out)
  /\ file' = Overwrite(file, out, k, 1)
  /\ k' = k + 1
  /\ UNCHANGED <<folder, pc, secs, out, packed, intact, over, damage, packs>>

PackDone ==
  /\ pc = "data" /\ k = Len(out)
  /\ intact' = TRUE
  /\ End
  /\ UNCHANGED <<file, folder, packed, over, damage, packs>>

-----------------------------------------------------------------------------
(* mini_unpack *)

\* sanitize_filename: separators and pairs of dots are dropped.
Sanitize(name) ==
  LET step[i \in Nat] ==
        IF i > Len(name) THEN <<>>
        ELSE IF name[i] \in {"/", "\\"} THEN step[i + 1]
        ELSE IF name[i] = "." /\ i < Len(name) /\ name[i + 1] = "." THEN step[i + 2]
        ELSE <<name[i]>> \o step[i + 1]
  IN IF step[1] = <<>> THEN <<"unnamed">> ELSE step[1]

IsDirectory(name) == name \in {<<".">>, <<".", ".">>}

\* create, mkdir, stat, mmap and parse: an empty file cannot be mapped, and one that
\* is not accepted makes the command panic, which changes nothing.
UnpackHangs ==
  /\ pc = "idle" /\ Hangs(file)
  /\ pc' = "hang"
  /\ UNCHANGED <<file, folder, secs, out, k, packed, intact, over, damage, packs>>

UnpackParsed ==
  /\ pc = "idle" /\ file # <<>> /\ ~Hangs(file)
  /\ secs' = Parse(file) /\ secs' # <<>>
  /\ pc' = "open" /\ k' = 1
  /\ UNCHANGED <<file, folder, out, packed, intact, over, damage, packs>>

Put(name, text) ==
  folder' = [x \in DOMAIN folder \cup {name} |-> IF x = name THEN text ELSE folder[x]]

\* create and truncate the file of section k, then copy the data into it.  An
\* empty section cannot be mapped, and a directory cannot be created as a file.
ExtractOpen ==
  /\ pc = "open"
  /\ LET name == Sanitize(secs[k].name)
         old  == IF name \in DOMAIN folder THEN folder[name] ELSE <<>>
     IN IF IsDirectory(name)
        THEN End /\ UNCHANGED folder
        ELSE /\ Put(name, Resize(old, Len(secs[k].data)))
             /\ IF secs[k].data = <<>> THEN End ELSE pc' = "copy" /\ UNCHANGED <<secs, out, k>>
  /\ UNCHANGED <<file, packed, intact, over, damage, packs>>

ExtractCopy ==
  /\ pc = "copy"
  /\ Put(Sanitize(secs[k].name), secs[k].data)
  /\ IF k < Len(secs) THEN pc' = "open" /\ k' = k + 1 ELSE pc' = "done" /\ UNCHANGED k
  /\ UNCHANGED <<file, secs, out, packed, intact, over, damage, packs>>

UnpackDone ==
  /\ pc = "done" /\ End
  /\ UNCHANGED <<file, folder, packed, intact, over, damage, packs>>

-----------------------------------------------------------------------------
(* The rest of the world. *)

\* The command is stopped: a kill, or a write to a full file system.
Stop ==
  /\ pc # "idle" /\ End
  /\ UNCHANGED <<file, folder, packed, intact, over, damage, packs>>

\* A cell is damaged.  One that is not text makes the whole header unreadable; where
\* it is makes a difference only for the end, which can outlive a new header.
Damage ==
  /\ pc = "idle" /\ damage < MaxDamage /\ damage' = damage + 1
  /\ \E i \in DOMAIN file, c \in {Junk, Binary} :
       /\ c = Binary => i \in {1, HeaderSize}
       /\ file' = [file EXCEPT ![i] = c]
  /\ intact' = FALSE
  /\ UNCHANGED <<folder, pc, secs, out, k, packed, over, packs>>

IsCut == Len(file) < OutputSize(packed)

\* A whole image is cut short.  Without all of its header it is nobody's image, and
\* where in the header it is cut makes no difference.
Cut ==
  /\ pc = "idle" /\ file # <<>> /\ ~IsCut
  /\ \E n \in HeaderSize - 1 .. Len(file) - 1 :
       /\ file' = Resize(file, n)
       /\ packed' = IF n < HeaderSize THEN <<>> ELSE packed
  /\ intact' = FALSE
  /\ UNCHANGED <<folder, pc, secs, out, k, over, damage, packs>>

Command ==
  \/ PackHeader \/ PackData \/ PackDone
  \/ ExtractOpen \/ ExtractCopy \/ UnpackDone

Next == PackStart \/ UnpackHangs \/ UnpackParsed \/ Command \/ Stop \/ Damage \/ Cut

Spec == Init /\ [][Next]_vars /\ WF_vars(Command)

-----------------------------------------------------------------------------
TypeOK ==
  /\ pc \in {"idle", "header", "data", "hang", "open", "copy", "done"}
  /\ {k, damage, packs} \subseteq Nat
  /\ {intact, over} \subseteq BOOLEAN
  /\ pc \in {"open", "copy", "done"} => k \in DOMAIN secs

\* What mini_pack writes, mini_unpack reads, section by section, also when it
\* was packed over an older image or over the rest of an interrupted mini_pack,
\* as long as the older header was not longer; and so are the images of other
\* tools, up to MAX_IMAGES sections (OtaPacker::pack against parse_ota).
RoundTrip ==
  intact /\ over /\ Len(packed) <= MaxImages /\ ~Hangs(file) => Parse(file) = packed

\* The files that a successful mini_unpack leaves for the sections of one image:
\* of two sections with one name the last.
FilesOf(s) ==
  [name \in { Sanitize(s[i].name) : i \in DOMAIN s } |->
     s[Max({ i \in DOMAIN s : Sanitize(s[i].name) = name })].data]

\* When mini_unpack succeeds, what it extracted is what was packed, whatever a
\* stopped mini_pack left in the image and whatever older files were in the
\* folder: all sections of an image of which a cell was damaged, the first ones of
\* an image that was cut.  One damaged MD5 line goes unnoticed when the MD5 of the
\* packet does not count either, because the image was cut too or because it was
\* packed over a longer header and the old line is read: equal blocks cancel in the
\* CRC.  The rest of a longer header may also describe one more section, which the
\* file holds once a later mini_pack has made it longer and was stopped.  Nor is
\* anything promised of an image cut inside its header, or of the equal blocks of an
\* image without MD5 lines (OtaExtractor::parse).
ExtractedExact ==
  /\ pc = "done" /\ packed # <<>>
  /\ damage > 0 => over /\ ~IsCut
  /\ ~over => Len(file) <= OutputSize(packed)
  =>
    \E n \in 1 .. Len(packed) :
      /\ n < Min({MaxImages, Len(packed)}) => IsCut
      /\ LET f == FilesOf(SubSeq(packed, 1, n))
         IN \A name \in DOMAIN f : name \in DOMAIN folder /\ folder[name] = f[name]

\* A command ends, except on an image whose header gives blocks of size 0: the
\* CRC is then computed for ever (xor_crc_img).
CommandEnds ==
  pc # "idle" ~>
    (pc = "idle" \/ \E i \in DOMAIN HeaderText(file) : file[i].k = "bs_size" /\ file[i].v = 0)
=============================================================================
