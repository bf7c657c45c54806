------------------------------ MODULE MCOtaTool ------------------------------
EXTENDS OtaTool

MCNUL == Line("nul", 0)
A == Data("a")
B == Data("b")
MCContents == { <<>>, <<A, A>>, <<B>> }
Sec(name, data) == [name |-> name, data |-> data]

\* Headers of other tools: blocks of another size, no CRC, no MD5, no globals.
Header(ss, bs, keep) ==
  SelectSeq(FlattenSeq([i \in DOMAIN ss |-> SectionLines(ss[i], bs)])
              \o << Line("bs_size", bs), Line("ota_img_packet_md5", Concat(ss)) >>,
            LAMBDA l : l.k \in keep \cup {"blank", "img_name", "img_size"})
All == {"img_md5", "img_crc", "bs_size", "ota_img_packet_md5"}

MCVendor ==
  LET one   == << Sec(<<"n">>, <<A, A, B>>) >>
      three == << Sec(<<"k">>, <<A>>), Sec(<<"/", "k">>, <<B>>), Sec(<<"r">>, <<A>>) >>
      dots  == << Sec(<<"k">>, <<A>>), Sec(<<".", "/", ".">>, <<B>>) >>
      Zero(l) == IF l.k = "bs_size" THEN Line("bs_size", 0) ELSE l
  IN { [header |-> Header(one, 2, All), secs |-> one],
       [header |-> Header(one, 1, {"img_crc", "ota_img_packet_md5"}), secs |-> one],
       [header |-> Header(three, 1, All \ {"img_crc"}), secs |-> three],
       [header |-> Header(three, 1, All \ {"img_md5", "ota_img_packet_md5"}), secs |-> three],
       [header |-> Header(dots, 1, All), secs |-> dots],
       [header |-> LET h == Header(dots, 1, All) IN [i \in DOMAIN h |-> Zero(h[i])], secs |-> dots] }

MCForeign == [i \in 1 .. HeaderSize + 1 |-> Binary]
=============================================================================
