------------------------------ MODULE PropStore ------------------------------
(***************************************************************************)
(* The property store of OTA/web/props.rs, without its state: what a line  *)
(* of the property file means, which values a type accepts and in which    *)
(* form it keeps them, what load reads from a file and what set writes.    *)
(*                                                                         *)
(* A text is a sequence of cells.  A line of the file is the cell of the   *)
(* name, the cell of the type and its spec, and the cells of the value;    *)
(* the tabs between these fields are implied.  Values keep their length    *)
(* and their white space, because both decide what a line cut or spliced   *)
(* by an interrupted write is read as.                                     *)
(***************************************************************************)
EXTENDS FileText

CONSTANTS
  Types,    \* the cell of a type -> the type it names
  DefSets   \* possible contents of PROP_DEFS_PATH, parsed

NL == "nl"
SP == "sp"
HASH == "#"
Control == {"tab", "cr", NL}
Digits == <<"0", "1", "2", "3", "4", "5", "6", "7", "8", "9">>

Names(d) == { d[i].name : i \in DOMAIN d }
Def(d, n) == d[CHOOSE i \in DOMAIN d : d[i].name = n]
TypeOf(d, n) == Types[Def(d, n).ty]
Defaults(d) == [n \in Names(d) |-> Def(d, n).value]

-----------------------------------------------------------------------------
(* Values. *)

Signless(v) == IF v # <<>> /\ Head(v) \in {"+", "-"} THEN Tail(v) ELSE v
IsInt(v) == Signless(v) # <<>> /\ ToSet(Signless(v)) \subseteq ToSet(Digits)
DigitValue(c) == (CHOOSE i \in DOMAIN Digits : Digits[i] = c) - 1
IntOf(v) ==
  LET abs == FoldLeft(LAMBDA acc, c : 10 * acc + DigitValue(c), 0, Signless(v))
  IN IF Head(v) = "-" THEN -abs ELSE abs

DecText[n \in Nat] ==
  IF n < 10 THEN <<Digits[n + 1]>> ELSE Append(DecText[n \div 10], Digits[(n % 10) + 1])
IntText(n) == IF n < 0 THEN <<"-">> \o DecText[-n] ELSE DecText[n]

\* "true" and "false" differ in length, and so do the cells that stand for them.
TrueText == <<"t">>
FalseText == <<"f", "f">>

\* validate_token: no tab, carriage return or line feed.
TokenOk(v) == ToSet(v) \cap Control = {}

\* validate_value accepts v for the type ty ...
Valid(ty, v) ==
  CASE ty.kind = "enum"   -> v \in ty.values
    [] ty.kind = "bool"   -> v \in {TrueText, <<"1">>, FalseText, <<"0">>}
    [] ty.kind = "int"    -> IsInt(v) /\ IntOf(v) \in ty.min .. ty.max
    [] ty.kind = "string" -> TokenOk(v) /\ Len(v) \in ty.min .. ty.max

\* ... and this is the form it keeps.
Normal(ty, v) ==
  CASE ty.kind = "bool" -> IF v \in {TrueText, <<"1">>} THEN TrueText ELSE FalseText
    [] ty.kind = "int"  -> IntText(IntOf(v))
    [] OTHER            -> v

IntCells == ToSet(Digits) \cup {"-"}

\* parse_type: one of four kinds; the values of an enum are tokens.
ASSUME TypesAssumption ==
  \A t \in DOMAIN Types :
    /\ Types[t].kind \in {"enum", "bool", "int", "string"}
    /\ Types[t].kind = "enum" => \A v \in Types[t].values : TokenOk(v)

\* A definition file has one line per name; the first of two lines with one
\* name would hide the second.  Its lines went through parse_line too, so the
\* values are acceptable and in the form that is kept.
ASSUME DefSetsAssumption ==
  \A d \in DefSets : IsText(d) /\ \A i, j \in DOMAIN d :
    /\ d[i].ty \in DOMAIN Types
    /\ Valid(Types[d[i].ty], d[i].value)
    /\ Normal(Types[d[i].ty], d[i].value) = d[i].value
    /\ d[i].name = d[j].name => i = j
    /\ IsText(d[i].value)

\* The cells of names and types are no cells of values.
ASSUME CellsAssumption ==
  \A d \in DefSets :
    /\ Names(d) \cap DOMAIN Types = {}
    /\ (Names(d) \cup DOMAIN Types) \cap (IntCells \cup {"t", "f", HASH, SP, NL}) = {}
    /\ \A i \in DOMAIN d : (Names(d) \cup DOMAIN Types) \cap ToSet(d[i].value) = {}

\* The decimal text of an integer reads back as that integer.
ASSUME IntTextAssumption ==
  \A t \in DOMAIN Types : Types[t].kind = "int" =>
    \A n \in Types[t].min .. Types[t].max :
      IntText(n) \in Seq(IntCells) /\ IsInt(IntText(n)) /\ IntOf(IntText(n)) = n

-----------------------------------------------------------------------------
(* The file. *)

\* serialize_props_file with type_to_fields.
Serialize(d, m) ==
  <<HASH, NL>> \o
  FlattenSeq([i \in DOMAIN d |-> <<d[i].name, d[i].ty>> \o m[d[i].name] \o <<NL>>])

TrimEnd(s) == SubSeq(s, 1, SelectLastInSeq(s, LAMBDA c : c # SP))
Trim(s) == LET e == TrimEnd(s)
               k == SelectInSeq(e, LAMBDA c : c # SP)
           IN IF k = 0 THEN <<>> ELSE SubSeq(e, k, Len(e))

\* The cells where lines begin, and the line that begins there.
LineStarts(text) == {1} \cup { i + 1 : i \in { j \in DOMAIN text : text[j] = NL } }
LineAt(text, a) ==
  LET ends == { i \in a .. Len(text) : text[i] = NL } \cup {Len(text) + 1}
  IN SubSeq(text, a, Min(ends) - 1)

\* The lines parse_props_file hands to parse_line, by where they begin: trimmed,
\* neither empty nor a comment.
Entries(text) ==
  LET Kept(l) == l # <<>> /\ l[1] # HASH
  IN [a \in { b \in LineStarts(text) : Kept(Trim(LineAt(text, b))) } |-> Trim(LineAt(text, a))]

ValueAt(line, k) == SubSeq(line, k, Len(line))

\* parse_line: four fields, a name (cell k), a type and a value the type accepts.
\* The line was trimmed, so an empty value has taken its tab with it and is
\* missing.  Cells before a name are the start of a longer name, which nothing
\* defines; a name or a type among the cells of the value means that two lines
\* were joined, and the tab between them makes the value invalid.
Entry(line, names, k) ==
  /\ line[k] \in names /\ k + 2 \in DOMAIN line
  /\ line[k + 1] \in DOMAIN Types
  /\ \A i \in DOMAIN line \ {k, k + 1} : line[i] \notin names \cup DOMAIN Types
  /\ Valid(Types[line[k + 1]], ValueAt(line, k + 2))

LineOk(line, names) == \E k \in DOMAIN line : Entry(line, names, k)

\* parse_props_file gives up at the first bad line.
Parses(d, entries) == \A i \in DOMAIN entries : LineOk(entries[i], Names(d))

\* apply_overrides: the lines that name n with the type the definitions give it;
\* the last of them counts.  same_type is equality of the type cells.
OverrideLines(d, entries, n) ==
  { i \in DOMAIN entries : /\ Entry(entries[i], Names(d), 1)
                           /\ entries[i][1] = n /\ entries[i][2] = Def(d, n).ty }
LastOf(I) == { i \in I : \A j \in I : j <= i }

\* PropStore::load from a values file that holds this text.
Loaded(d, text) ==
  LET entries == Entries(text)
      Override(n) == LastOf(OverrideLines(d, entries, n))
  IN [n \in Names(d) |->
        IF Parses(d, entries) /\ Override(n) # {}
        THEN Normal(TypeOf(d, n), ValueAt(entries[CHOOSE i \in Override(n) : TRUE], 3))
        ELSE Def(d, n).value]
=============================================================================
