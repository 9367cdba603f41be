------------------------------ MODULE ImageTags ------------------------------
(***************************************************************************)
(* What the tags of an IFD make of its image: the image type, the colour   *)
(* model ImageConfig announces (tiff_ifd_helper.go) and the Go image that  *)
(* is allocated (image_utils.go).                                          *)
(*                                                                         *)
(* The tags p are a record: which of them there are, and the values of     *)
(* BitsPerSample, PhotometricInterpretation and ExtraSamples.              *)
(***************************************************************************)
EXTENDS Integers, Sequences

Depth(p) ==
    IF p.bits # <<>> /\ \A i \in 1 .. Len(p.bits) : p.bits[i] = p.bits[1] THEN p.bits[1] ELSE 0

Channels(p) == Len(p.bits)

TileTags     == {"TileWidth", "TileLength", "TileOffsets", "TileByteCounts"}
StripTags    == {"StripOffsets", "StripByteCounts"}
RequiredTags == {"ImageWidth", "ImageLength", "PhotometricInterpretation"}

HasTags(p) ==
    RequiredTags \cup (IF p.tags \cap TileTags # {} THEN TileTags ELSE StripTags) \subseteq p.tags

IsBilevel(p) == Channels(p) = 1 /\ p.bits[1] < 8

ImageType(p) ==
    CASE ~ HasTags(p) -> "Nil"
      [] HasTags(p) /\ p.photometric = "WhiteIsZero" -> IF IsBilevel(p) THEN "BilevelInvert" ELSE "GrayInvert"
      [] HasTags(p) /\ p.photometric = "BlackIsZero" -> IF IsBilevel(p) THEN "Bilevel" ELSE "Gray"
      [] HasTags(p) /\ p.photometric = "Paletted"    -> "Paletted"
      [] HasTags(p) /\ p.photometric = "RGB"         ->
            IF Channels(p) = 3 THEN "RGB"
            ELSE IF Channels(p) = 4 /\ p.extra = 1 THEN "RGBA"
            ELSE IF Channels(p) = 4 /\ p.extra = 2 THEN "NRGBA" ELSE "Nil"
      [] OTHER -> "Nil"

\* Mutant: the two kinds of alpha are confused.
UnassociatedIsPremultiplied(p) == Channels(p) = 3 \/ (Channels(p) = 4 /\ p.extra = 2)

Premultiplied(p) == Channels(p) = 3 \/ (Channels(p) = 4 /\ p.extra = 1)
Straight(p)      == Channels(p) = 4 /\ p.extra = 2

\* The colour model ImageConfig announces.
ImageConfig(p) ==
    LET deep == p.bits[1] = 16
        even == \A i \in 1 .. Len(p.bits) : p.bits[i] = IF deep THEN 16 ELSE 8
    IN  CASE p.bits # <<>> /\ p.photometric = "RGB" /\ even /\ Premultiplied(p) ->
                IF deep THEN "RGBA64" ELSE "RGBA"
          [] p.bits # <<>> /\ p.photometric = "RGB" /\ even /\ ~ Premultiplied(p) /\ Straight(p) ->
                IF deep THEN "NRGBA64" ELSE "NRGBA"
          [] p.bits # <<>> /\ p.photometric = "Paletted" -> "Paletted"
          [] p.bits # <<>> /\ p.photometric \in {"WhiteIsZero", "BlackIsZero"} ->
                IF deep THEN "Gray16" ELSE "Gray"
          [] OTHER -> "error"

Grays == {"Gray", "GrayInvert", "Bilevel", "BilevelInvert"}

\* The Go type with 16 bits for a sample, or the one with 8.
Sized(p, narrow, wide) == IF Depth(p) = 16 THEN wide ELSE narrow

\* Mutant: every gray image has a byte for a pixel.
NewGrayOfBytes(p) == "Gray"

NewGray(p) ==
    IF ImageType(p) \in {"Bilevel", "BilevelInvert"} THEN "Gray" ELSE Sized(p, "Gray", "Gray16")

\* The image that is allocated (image_utils.go).
NewImage(p) ==
    CASE ImageType(p) \in Grays           -> NewGray(p)
      [] ImageType(p) = "Paletted"        -> "Paletted"
      [] ImageType(p) = "NRGBA"           -> Sized(p, "NRGBA", "NRGBA64")
      [] ImageType(p) \in {"RGB", "RGBA"} -> Sized(p, "RGBA", "RGBA64")
      [] OTHER -> "error"
=============================================================================
