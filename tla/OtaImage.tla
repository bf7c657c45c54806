------------------------------- MODULE OtaImage -------------------------------
(***************************************************************************)
(* OTA images of the Mini: the reader of OTA/mini/ota.rs, the packer of    *)
(* OTA/mini/ota_packer.rs, as operators.                                   *)
(*                                                                         *)
(* An image is a header of HeaderSize cells, one line of text each, and    *)
(* then the data of its sections.  An MD5 is the data it was computed      *)
(* from.  The CRC of a section is the xor of the CRCs of its blocks, that  *)
(* is, the set of blocks that occur an odd number of times: equal blocks   *)
(* cancel, and the order of blocks does not matter.                        *)
(***************************************************************************)
EXTENDS FileText

CONSTANTS
  HeaderSize,  \* HEADER_SIZE, in lines
  BlockSize,   \* BLOCK_SIZE, in cells
  MaxImages    \* MAX_IMAGES

ASSUME SizesAssumption == {HeaderSize, BlockSize, MaxImages} \subseteq Nat \ {0}

\* Cells: lines of the header and data.  A junk line has no key that the reader
\* knows; a binary cell is not UTF-8.
Line(k, v) == [k |-> k, v |-> v]
Blank == Line("blank", 0)
Junk == Line("junk", 0)
Binary == Line("binary", 0)
Data(v) == Line("data", v)

-----------------------------------------------------------------------------
(* Checksums. *)

Block(data, bs, i) == SubSeq(data, (i - 1) * bs + 1, Min({i * bs, Len(data)}))

\* xor_crc_img.
XorCrc(data, bs) ==
  LET n == IF data = <<>> THEN 0 ELSE (Len(data) + bs - 1) \div bs
      Times(b) == Cardinality({ i \in 1 .. n : Block(data, bs, i) = b })
  IN { b \in { Block(data, bs, i) : i \in 1 .. n } : Times(b) % 2 = 1 }

-----------------------------------------------------------------------------
(* The packer.  secs is the sequence of sections added, each with name and data. *)

IsSections(secs) ==
  /\ IsText(secs)
  /\ \A i \in DOMAIN secs : /\ secs[i] = [name |-> secs[i].name, data |-> secs[i].data]
                            /\ IsText(secs[i].data)

Concat(secs) == FlattenSeq([i \in DOMAIN secs |-> secs[i].data])

SectionLines(s, bs) ==
  << Line("img_name", s.name), Line("img_size", Len(s.data)),
     Line("img_md5", s.data), Line("img_crc", XorCrc(s.data, bs)), Blank >>

\* build_header, without the lines no reader looks at.
BuildHeader(secs) ==
  FlattenSeq([i \in DOMAIN secs |-> SectionLines(secs[i], BlockSize)])
    \o << Line("bs_size", BlockSize), Line("ota_img_packet_md5", Concat(secs)) >>

\* output_size.
OutputSize(secs) == HeaderSize + Len(Concat(secs))

\* pack into a buffer of zeros.
Image(header, secs) == Resize(header, HeaderSize) \o Concat(secs)
-----------------------------------------------------------------------------
(* The reader. *)

Utf8(text) == \A i \in DOMAIN text : text[i].k # "binary"

\* The value of the last line with this key, or the default.
Field(lines, key, default) ==
  LET i == SelectLastInSeq(lines, LAMBDA l : l.k = key)
  IN IF i = 0 THEN default ELSE lines[i].v

\* text.split("\n\n"): the cells where parts begin, and the part that begins there.
PartStarts(text) == {1} \cup { i + 1 : i \in { j \in DOMAIN text : text[j].k = "blank" } }
PartAt(text, a) ==
  LET ends == { i \in a .. Len(text) : text[i].k = "blank" } \cup {Len(text) + 1}
  IN SubSeq(text, a, Min(ends) - 1)

\* The parts that describe a section, in their order.
Has(part, key) == \E i \in DOMAIN part : part[i].k = key
SectionStarts(text) == { a \in PartStarts(text) : Has(PartAt(text, a), "img_name") }
Nth(at, i) == CHOOSE a \in at : Cardinality({ b \in at : b <= a }) = i
Parts(text) ==
  [i \in 1 .. Cardinality(SectionStarts(text)) |-> PartAt(text, Nth(SectionStarts(text), i))]

\* parse::<u32>().unwrap_or(0).
Size(part) == LET v == Field(part, "img_size", 0) IN IF v \in Nat THEN v ELSE 0

HeaderText(buf) == SubSeq(buf, 1, Min({HeaderSize, Len(buf)}))

\* Mutant: without a bs_size line the size of a block is that of an empty header.
BsSize_Zero(buf) == Field(HeaderText(buf), "bs_size", 0)

\* parse_globals.
BsSize(buf) == Field(HeaderText(buf), "bs_size", BlockSize)

\* Mutant: only the size just before counts.
Offset_Restarts(parts, i) == IF i <= 1 THEN HeaderSize ELSE HeaderSize + Size(parts[i - 1])

\* The offset of the data of the i-th section: the sizes before it add up.
Offset(parts, i) ==
  LET off[j \in 1 .. Len(parts) + 1] ==
        IF j = 1 THEN HeaderSize ELSE off[j - 1] + Size(parts[j - 1])
  IN off[i]

\* The sections there is room for, and whether the file holds the i-th.
Described(buf) ==
  LET parts == Parts(HeaderText(buf)) IN SubSeq(parts, 1, Min({MaxImages, Len(parts)}))
Fits(buf, parts, i) == Offset(parts, i + 1) <= Len(buf)

SectionAt(buf, parts, i) ==
  [name |-> Field(parts[i], "img_name", <<>>),
   data |-> SubSeq(buf, Offset(parts, i) + 1, Offset(parts, i + 1))]

\* Mutant: the MD5 is taken for redundant.
SectionOk_CrcOnly(part, data, bs) ==
  LET crc == Field(part, "img_crc", {})
  IN crc # {} => XorCrc(data, bs) = crc

\* Neither check is made when its line is missing or, for the CRC, says 0.
SectionOk(part, data, bs) ==
  LET crc == Field(part, "img_crc", {})
  IN /\ crc # {} => XorCrc(data, bs) = crc
     /\ Has(part, "img_md5") => Field(part, "img_md5", <<>>) = data

PacketOk(text, secs) ==
  Has(text, "ota_img_packet_md5") => Field(text, "ota_img_packet_md5", <<>>) = Concat(secs)

\* OtaExtractor::parse: the sections found, <<>> for an error.  At the first
\* section that reaches beyond the end of the file parse_ota returns those before
\* it, without a look at the MD5 of the packet.
Parse(buf) ==
  LET parts == Described(buf)
      n     == Cardinality({ i \in DOMAIN parts : Fits(buf, parts, i) })
      secs  == [i \in 1 .. n |-> SectionAt(buf, parts, i)]
  IN IF /\ Utf8(HeaderText(buf))
        /\ \A i \in 1 .. n : SectionOk(parts[i], secs[i].data, BsSize(buf))
        /\ n = Len(parts) => PacketOk(HeaderText(buf), secs)
     THEN secs ELSE <<>>

\* With blocks of no size xor_crc_img does not get on.
Stuck(part, bs) == bs = 0 /\ Size(part) > 0 /\ Field(part, "img_crc", {}) # {}
Hangs(buf) ==
  LET parts == Described(buf)
  IN Utf8(HeaderText(buf)) /\ \E i \in DOMAIN parts : Stuck(parts[i], BsSize(buf)) /\ Fits(buf, parts, i)

\* What a header says of the sections it was made for: the name and the size of each
\* one, and checksums that are right where they are given and can be computed.
Describes(text, secs) ==
  LET parts == Parts(text)
      bs    == Field(text, "bs_size", BlockSize)
  IN /\ Utf8(text) /\ PacketOk(text, secs)
     /\ Len(parts) = Len(secs)
     /\ \A i \in DOMAIN secs :
          /\ Field(parts[i], "img_name", <<>>) = secs[i].name
          /\ Field(parts[i], "img_size", 0) = Len(secs[i].data)
          /\ Stuck(parts[i], bs) \/ SectionOk(parts[i], secs[i].data, bs)
=============================================================================
