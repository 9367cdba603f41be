------------------------------ MODULE MCBlocks ------------------------------
(***************************************************************************)
(* Images of 3 by 3 pixels in tiles and strips that divide them and that   *)
(* do not, in every way to store a sample decodeBlock knows, and in some   *)
(* it does not expect.                                                     *)
(***************************************************************************)
EXTENDS BlockDecoder

\* A format, without its layout.
Format(photometric, bits, extra, fax, predictor) ==
    [ photometric |-> photometric, bits |-> bits, extra |-> extra,
      fax |-> fax, predictor |-> predictor ]

Plain(photometric, bits, extra) == {Format(photometric, bits, extra, FALSE, p) : p \in BOOLEAN}

MCFormats ==
    {Format("BlackIsZero", <<1>>, 0, TRUE, FALSE), Format("WhiteIsZero", <<4>>, 0, FALSE, FALSE)}
    \cup Plain("BlackIsZero", <<8>>, 0) \cup Plain("WhiteIsZero", <<16>>, 0)
    \cup Plain("Paletted", <<4>>, 0)
    \cup Plain("RGB", <<8, 8, 8>>, 0) \cup Plain("RGB", <<16, 16, 16>>, 0)
    \cup Plain("RGB", <<8, 8, 8, 8>>, 1) \cup Plain("RGB", <<16, 16, 16, 16>>, 2)

MCOddFormats ==
    UNION { Plain("BlackIsZero", <<8, 4>>, 0), Plain("WhiteIsZero", <<16, 8>>, 0),
            Plain("BlackIsZero", <<>>, 0), Plain("Paletted", <<0>>, 0),
            Plain("BlackIsZero", <<8, 8>>, 1), Plain("RGB", <<4, 4, 4>>, 0),
            Plain("RGB", <<8, 8, 8, 8>>, 0), Plain("CMYK", <<8, 8, 8, 8>>, 0),
            {Format("WhiteIsZero", <<1, 1>>, 0, TRUE, FALSE),
             Format("BlackIsZero", <<8, 8>>, 0, TRUE, TRUE)} }

Strips(rows)  == [ width |-> 3, height |-> 3, tiled |-> FALSE,
                   tileWidth |-> 0, tileLength |-> 0, rowsPerStrip |-> rows ]
Tiles(w, l)   == [ width |-> 3, height |-> 3, tiled |-> TRUE,
                   tileWidth |-> w, tileLength |-> l, rowsPerStrip |-> 0 ]

MCLayouts    == {Strips(0), Strips(1), Strips(2), Strips(5), Tiles(2, 2), Tiles(3, 1), Tiles(4, 2)}
MCOddLayouts == {Tiles(2, 0), Tiles(0, 2), [Strips(2) EXCEPT !.width = 0]}

Tagged(layout, format, less, offs, cnts) ==
    [ width |-> layout.width, height |-> layout.height, tiled |-> layout.tiled,
      tileWidth |-> layout.tileWidth, tileLength |-> layout.tileLength,
      rowsPerStrip |-> layout.rowsPerStrip,
      tags |-> (RequiredTags \cup IF layout.tiled THEN TileTags ELSE StripTags) \ less,
      photometric |-> format.photometric, bits |-> format.bits, extra |-> format.extra,
      fax |-> format.fax, predictor |-> format.predictor,
      offsets |-> Blocks(layout) - offs, counts |-> Blocks(layout) - cnts ]

MCIfds ==
    {Tagged(l, f, {}, 0, 0) : l \in MCLayouts, f \in MCFormats}
    \cup {Tagged(l, f, {}, 0, 0) : l \in {Strips(2), Tiles(2, 2)}, f \in MCOddFormats}
    \cup {Tagged(l, f, {}, 0, 0) : l \in MCOddLayouts,
                                   f \in Plain("BlackIsZero", <<8>>, 0) \cup Plain("WhiteIsZero", <<16, 8>>, 0)}
    \cup {Tagged(l, f, {}, o, c) : l \in {Strips(2), Tiles(2, 2)}, o \in {0, 1}, c \in {0, 1},
                                   f \in Plain("RGB", <<8, 8, 8>>, 0)}
    \cup {Tagged(Strips(2), f, {}, 0, 0) : f \in Plain("WhiteIsZero", <<8>>, 0)}
    \cup {Tagged(Strips(2), f, {"PhotometricInterpretation"}, 0, 0) : f \in Plain("WhiteIsZero", <<8>>, 0)}
    \cup {Tagged(Strips(2), f, {"StripOffsets"}, 2, 0) : f \in Plain("BlackIsZero", <<8>>, 0)}
    \cup {Tagged(Strips(2), f, {"StripByteCounts"}, 0, 2) : f \in Plain("BlackIsZero", <<8>>, 0)}

\* Tiles that the right edge of the image cuts.
MCPadded == {Tagged(Tiles(2, 2), f, {}, 0, 0) : f \in MCFormats}

MCRequests == {WholeImage, <<0, 0>>, <<1, 1>>, <<0, 2>>}
=============================================================================
