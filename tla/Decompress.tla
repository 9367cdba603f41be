----------------------------- MODULE Decompress -----------------------------
(***************************************************************************)
(* TagValue_CompressionType.Decode of compress.go: data that an encoder    *)
(* wrote, or a stream of anything, decoded by the method the tag names.    *)
(***************************************************************************)
EXTENDS LZWStream, PackBits, FaxG4

CONSTANTS
    LZWInputs, ByteInputs,
    FaxInputs,              \* records of columns and pixels
    FaxNoise                \* records of columns and bits, not necessarily a coding of anything

ASSUME InputsAssumption == LZWInputs \subseteq Seq(0 .. Clear - 1) /\ ByteInputs \subseteq Seq(Int)

ASSUME FaxAssumption ==
    /\ \A f \in FaxInputs : f.columns \in Nat \ {0} /\ f.pixels \in Seq({White, Black})
                              /\ Len(f.pixels) % f.columns = 0
    /\ \A f \in FaxNoise : f.columns \in Int /\ f.bits \in Seq({0, 1})

VARIABLE noise    \* the stream is not from an encoder

vars == <<codedVars, dvars, lzwEncoder, faxVars, noise>>

Whole       == {"Nil", "None"}
Zlib        == {"Deflate", "DeflateOld"}
Unsupported == {"CCITT", "JPEGOld", "JPEG", "unknown"}

Init ==
    /\ LZWInit
    /\ \/ /\ noise = FALSE
          /\ \/ FaxInit(1) /\ \E s \in LZWInputs : CodedInit("LZW", s, LZWBegin, FALSE)
             \/ \E f \in FaxInputs : FaxInit(f.columns) /\ CodedInit("G4", f.pixels, <<>>, FALSE)
             \/ FaxInit(1) /\ \E s \in ByteInputs :
                   \/ \E how \in Whole \cup {"PackBits"} : CodedInit(how, s, <<>>, FALSE)
                   \/ \E how \in Zlib : CodedInit(how, s, <<0>>, FALSE)
       \/ /\ noise = TRUE
          /\ \/ FaxInit(1) /\ \E how \in Unsupported \cup {"LZW"} : CodedInit(how, <<>>, <<>>, TRUE)
             \/ \E f \in FaxNoise, how \in {"G3", "G4"} :
                   FaxInit(f.columns) /\ CodedInit(how, <<>>, f.bits, TRUE)

-----------------------------------------------------------------------------
\* Data written as it is; zlib's is between its header and its checksum, a byte for each.
EncodeWhole ==
    /\ method \in Whole \cup Zlib /\ todo # <<>> /\ Encoding
    /\ todo' = <<>> /\ stream' = stream \o todo
    /\ UNCHANGED <<closed, lost>>

EncodeWholeEnd ==
    method \in Whole \cup Zlib /\ todo = <<>> /\ Close(IF method \in Whole THEN stream ELSE Append(stream, 0), 1)

decode_None ==
    Reading /\ method \in Whole /\ received' = stream /\ result' = "ok" /\ stream' = <<>>

\* NewReader fails without the header, ReadAll at the end without the checksum.
decode_Deflate ==
    /\ Reading /\ method \in Zlib
    /\ result' = (IF lost = 0 THEN "ok" ELSE "error")
    /\ received' = SubSeq(stream, 2, IF lost = 0 THEN Len(stream) - 1 ELSE Len(stream))
    /\ stream' = <<>>

DecodeUnsupported ==
    Reading /\ method \in Unsupported /\ result' = "error" /\ UNCHANGED <<stream, received>>

Plain == EncodeWhole \/ EncodeWholeEnd \/ decode_None \/ decode_Deflate \/ DecodeUnsupported

\* The LZW decoder is given codes of anybody's making, for as long as it reads.
AnyCodes == method = "LZW" /\ noise

Others == UNCHANGED <<dvars, lzwEncoder, faxVars>>

Next ==
    /\ \/ Plain /\ Others
       \/ method = "PackBits" /\ PackBitsNext /\ Others
       \/ method \in {"G3", "G4"} /\ FaxNext /\ UNCHANGED <<dvars, lzwEncoder>>
       \/ method = "LZW" /\ ~ noise /\ LZWNext /\ UNCHANGED faxVars
       \/ AnyCodes /\ DNext /\ UNCHANGED <<codedVars, lzwEncoder, faxVars>>
    /\ UNCHANGED noise

Spec == Init /\ [][Next]_vars /\ WF_vars(Next)

-----------------------------------------------------------------------------
\* What the decoder holds of the data, returned or not.
Held ==
    CASE method = "LZW" -> received \o toRead \o output
      [] method = "G4"  -> Stripped(pixels)
      [] OTHER          -> received

\* Whatever an encoder writes and wherever the stream is cut, the decoder holds and returns
\* nothing but the first part of the data, by every method.
RoundTrip == ~ noise => IsPrefix(Held, input) /\ IsPrefix(received, input)

\* Decode returns, on every stream that ends; by a method it supports, with all of an encoder's data
\* when none of the stream is lost.  A loss is an error, except that the methods without an
\* end of data do not notice one: data as it is, and PackBits between two packets.
DecodesAll ==
    ~ AnyCodes => <>(/\ result # "none"
                     /\ method \in Unsupported => result = "error"
                     /\ ~ noise /\ lost = 0 => result = "ok" /\ received = input
                     /\ lost > 0 /\ method \notin Whole \cup {"PackBits"} => result = "error")
=============================================================================
