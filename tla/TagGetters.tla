------------------------------ MODULE TagGetters ------------------------------
(***************************************************************************)
(* The getters of the tags (tiff_ifd_tag_getter.go), a row each: the tag   *)
(* the getter looks up, what it makes of the entry, and what it answers    *)
(* without one.  The rows are in the order of the code, which is that of   *)
(* the tags' codes; here a tag's code is the number of its row.            *)
(*                                                                         *)
(* A getter answers [value, ok]; every value is a sequence, the empty one  *)
(* where there is none.                                                    *)
(***************************************************************************)
EXTENDS EntryValues

BaselineGetters == <<
    <<"NewSubfileType", "one", <<0>> >>, <<"SubfileType", "one", <<>> >>,
    <<"ImageWidth", "one", <<>> >>, <<"ImageLength", "one", <<>> >>,
    <<"BitsPerSample", "ints", <<1>> >>, <<"Compression", "one", <<1>> >>,
    <<"PhotometricInterpretation", "one", <<>> >>, <<"Threshholding", "one", <<1>> >>,
    <<"CellWidth", "one", <<>> >>, <<"CellLenght", "one", <<>> >>,
    <<"FillOrder", "one", <<1>> >> >>

StripGetters == <<
    <<"DocumentName", "string", <<>> >>, <<"ImageDescription", "string", <<>> >>,
    <<"Make", "string", <<>> >>, <<"Model", "string", <<>> >>, <<"StripOffsets", "ints", <<>> >>,
    <<"Orientation", "one", <<1>> >>, <<"SamplesPerPixel", "one", <<1>> >>,
    <<"RowsPerStrip", "one", <<>> >>, <<"StripByteCounts", "ints", <<>> >>,
    <<"MinSampleValue", "ints", <<0>> >>, <<"MaxSampleValue", "ints", <<>> >>,
    <<"XResolution", "two", <<>> >>, <<"YResolution", "two", <<>> >> >>

PageGetters == <<
    <<"PlanarConfiguration", "one", <<1>> >>, <<"PageName", "string", <<>> >>,
    <<"XPosition", "two", <<>> >>, <<"YPosition", "two", <<>> >>,
    <<"FreeOffsets", "ints", <<>> >>, <<"FreeByteCounts", "ints", <<>> >>,
    <<"GrayResponseUnit", "one", <<>> >>, <<"GrayResponseCurve", "ints", <<>> >>,
    <<"T4Options", "one", <<0>> >>, <<"T6Options", "one", <<0>> >>,
    <<"ResolutionUnit", "one", <<2>> >>, <<"PageNumber", "ints", <<>> >> >>

DocumentGetters == <<
    <<"TransferFunction", "ints", <<>> >>, <<"Software", "string", <<>> >>,
    <<"DateTime", "date", <<>> >>, <<"Artist", "string", <<>> >>,
    <<"HostComputer", "string", <<>> >>, <<"Predictor", "lenient", <<1>> >>,
    <<"WhitePoint", "rationals", <<>> >>, <<"PrimaryChromaticities", "rationals", <<>> >>,
    <<"ColorMap", "colors", <<>> >>, <<"HalftoneHints", "ints", <<>> >>,
    <<"TileWidth", "one", <<>> >>, <<"TileLength", "one", <<>> >> >>

TileGetters == <<
    <<"TileOffsets", "ints", <<>> >>, <<"TileByteCounts", "ints", <<>> >>,
    <<"SubIFD", "ints", <<>> >>, <<"InkSet", "one", <<1>> >>, <<"InkNames", "string", <<>> >>,
    <<"NumberOfInks", "one", <<4>> >>, <<"DotRange", "ints", <<>> >>,
    <<"TargetPrinter", "string", <<>> >>, <<"ExtraSamples", "one", <<>> >>,
    <<"SampleFormat", "ints", <<1>> >>, <<"SMinSampleValue", "floats", <<>> >>,
    <<"SMaxSampleValue", "floats", <<>> >>, <<"TransferRange", "ints", <<>> >>,
    <<"JPEGProc", "one", <<>> >> >>

JPEGGetters == <<
    <<"JPEGInterchangeFormat", "one", <<>> >>, <<"JPEGInterchangeFormatLength", "one", <<>> >>,
    <<"JPEGRestartInterval", "one", <<>> >>, <<"JPEGLosslessPredictors", "ints", <<>> >>,
    <<"JPEGPointTransforms", "ints", <<>> >>, <<"JPEGQTables", "ints", <<>> >>,
    <<"JPEGDCTables", "ints", <<>> >>, <<"JPEGACTables", "ints", <<>> >>,
    <<"YCbCrCoefficients", "rationals", <<>> >>, <<"YCbCrSubSampling", "ints", <<2, 2>> >>,
    <<"YCbCrPositioning", "one", <<1>> >>, <<"ReferenceBlackWhite", "ints", <<>> >>,
    <<"Copyright", "string", <<>> >>, <<"ModelPixelScaleTag", "floats", <<>> >> >>

GeoGetters == <<
    <<"IrasBTransformationMatrix", "floats", <<>> >>, <<"ModelTiepointTag", "floats", <<>> >>,
    <<"ModelTransformationTag", "floats", <<>> >>, <<"ExifIFD", "ints", <<>> >>,
    <<"GeoKeyDirectoryTag", "ints", <<>> >>, <<"GeoDoubleParamsTag", "floats", <<>> >>,
    <<"GeoAsciiParamsTag", "string", <<>> >>, <<"GPSIFD", "ints", <<>> >>,
    <<"InteroperabilityIFD", "ints", <<>> >> >>

Getters == BaselineGetters \o StripGetters \o PageGetters \o DocumentGetters
           \o TileGetters \o JPEGGetters \o GeoGetters

Tags == {Getters[k][1] : k \in DOMAIN Getters}

Row(tag)     == CHOOSE k \in DOMAIN Getters : Getters[k][1] = tag
Form(tag)    == Getters[Row(tag)][2]
Default(tag) == Getters[Row(tag)][3]

Answer(value) == [value |-> value, ok |-> TRUE]
NoAnswer      == [value |-> <<>>, ok |-> FALSE]
Panic         == [value |-> <<"panic">>, ok |-> FALSE]

Exactly(n, vs) == IF Len(vs) = n THEN Answer(vs) ELSE NoAnswer

\* Red, green and blue levels one after the other become colours, two bytes each.
Colors(vs) ==
    LET n        == Len(vs) \div 3
        level(k) == vs[k] % Power[2]
    IN  IF vs = <<>> \/ Len(vs) % 3 # 0 THEN NoAnswer
        ELSE Answer([i \in 1 .. n |-> <<level(i), level(n + i), level(2 * n + i)>>])

\* Digits, two colons, a blank, two colons, as Sscanf takes them: nineteen characters here.
IsDate(s) == Len(s) = 19

\* time.Date is called without a location, and panics.
Date(s) == IF IsDate(s) THEN Panic ELSE NoAnswer

\* Mutant: no getter looks at how many values there are.
MadeOfFirst(h, e, form) ==
    LET ints == GetInts(h, e)
    IN  CASE form \in {"one", "lenient"} -> Answer(IF Len(ints) > 0 THEN <<ints[1]>> ELSE <<0>>)
          [] form = "two"       -> Exactly(2, ints)
          [] form = "ints"      -> Answer(ints)
          [] form = "colors"    -> Colors(ints)
          [] form = "floats"    -> Answer(GetFloats(h, e))
          [] form = "rationals" -> Answer(GetRationals(h, e))
          [] form = "string"    -> Answer(GetString(e))
          [] form = "date"      -> Date(GetString(e))

MadeOf(h, e, form) ==
    LET ints == GetInts(h, e)
    IN  CASE form = "one"       -> Exactly(1, ints)
          [] form = "lenient"   -> Answer(IF Len(ints) = 1 THEN ints ELSE <<0>>)
          [] form = "two"       -> Exactly(2, ints)
          [] form = "ints"      -> Answer(ints)
          [] form = "colors"    -> Colors(ints)
          [] form = "floats"    -> Answer(GetFloats(h, e))
          [] form = "rationals" -> Answer(GetRationals(h, e))
          [] form = "string"    -> Answer(GetString(e))
          [] form = "date"      -> Date(GetString(e))

\* Every getter, over an EntryMap of header h.
Get(h, entries, tag) ==
    IF Row(tag) \in DOMAIN entries THEN MadeOf(h, entries[Row(tag)], Form(tag))
    ELSE IF Default(tag) = <<>> THEN NoAnswer ELSE Answer(Default(tag))

---------------------------------------------------------------------------
(* What the tables of tags say (z_tiff_types_string.go).                   *)

\* _TagType_TypesTable: no types mean any.
AcceptedTypes(tag) ==
    CASE tag \in { "NewSubfileType", "T4Options", "T6Options", "JPEGInterchangeFormat",
                   "JPEGInterchangeFormatLength", "JPEGQTables", "JPEGDCTables", "JPEGACTables",
                   "ReferenceBlackWhite" }                                   -> {"Long"}
      [] tag \in { "ImageWidth", "ImageLength", "StripOffsets", "RowsPerStrip",
                   "StripByteCounts" }                                       -> {"Short", "Long", "Long8"}
      [] tag \in { "FreeOffsets", "FreeByteCounts", "TileOffsets" }          -> {"Long", "Long8"}
      [] tag \in { "TileWidth", "TileLength", "TileByteCounts" }             -> {"Short", "Long"}
      [] Form(tag) \in {"string", "date"}                                    -> {"ASCII"}
      [] tag \in { "XResolution", "YResolution", "XPosition", "YPosition", "WhitePoint",
                   "PrimaryChromaticities", "YCbCrCoefficients" }            -> {"Rational"}
      [] tag \in { "SubIFD", "ExifIFD", "GPSIFD", "InteroperabilityIFD" }    -> {"IFD"}
      [] tag = "DotRange"                                                    -> {"Byte", "Short"}
      [] tag = "ExtraSamples"                                                -> {"Byte"}
      [] tag \in { "ModelPixelScaleTag", "IrasBTransformationMatrix", "ModelTiepointTag",
                   "ModelTransformationTag", "GeoDoubleParamsTag" }          -> {"Double"}
      [] tag \in { "SMinSampleValue", "SMaxSampleValue" }                    -> {}
      [] OTHER                                                               -> {"Short"}

\* DataType.Valid and TagType._AcceptDataType.
Accepts(tag, t) == t \in DataTypes /\ (AcceptedTypes(tag) = {} \/ t \in AcceptedTypes(tag))

\* _TagType_NumsTable: how many values, and zero for any number of them.
Nums(tag) ==
    CASE Form(tag) \in {"one", "lenient", "two"}                              -> 1
      [] tag \in { "PageNumber", "WhitePoint", "HalftoneHints", "YCbCrSubSampling" } -> 2
      [] tag = "YCbCrCoefficients"                                            -> 3
      [] tag \in { "PrimaryChromaticities", "TransferRange" }                 -> 6
      [] tag = "ModelTransformationTag"                                       -> 16
      [] tag = "IrasBTransformationMatrix"                                    -> 17
      [] tag = "DateTime"                                                     -> 20
      [] OTHER                                                                -> 0
=============================================================================
