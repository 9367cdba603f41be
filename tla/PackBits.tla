------------------------------ MODULE PackBits ------------------------------
(***************************************************************************)
(* decode_PackBits of compress.go.  The encoder is external and writes any *)
(* packets that stand for the data.  A byte is the signed number that the  *)
(* decoder takes a control byte for.                                       *)
(***************************************************************************)
EXTENDS CodedStream

CONSTANT Int8Max    \* 127: a control byte is one of -128 .. 127

ASSUME Int8Assumption == Int8Max \in Nat

NoOp == - Int8Max - 1

\* A literal packet, or a run; the encoder may put a packet without effect before it.
EncodePacket ==
    /\ todo # <<>> /\ Encoding
    /\ \E n \in 1 .. Len(todo) :
         /\ n <= Int8Max + 1
         /\ todo' = SubSeq(todo, n + 1, Len(todo))
         /\ \E noop \in {<<>>, <<NoOp>>} :
              \/ stream' = stream \o noop \o <<n - 1>> \o SubSeq(todo, 1, n)
              \/ /\ n > 1 /\ \A i \in 1 .. n : todo[i] = todo[1]
                 /\ stream' = stream \o noop \o <<1 - n, todo[1]>>
    /\ UNCHANGED <<closed, lost>>

EncodeLastPacket == todo = <<>> /\ Close(stream, 1)

\* n bytes are needed after the control byte; without them there is an error and no data.
Take(n, bytes) ==
    IF Len(stream) - 1 < n THEN result' = "error" /\ received' = <<>> /\ stream' = <<>>
    ELSE received' = received \o bytes /\ stream' = SubSeq(stream, n + 2, Len(stream)) /\ UNCHANGED result

\* Mutant: -128 is a run as any other negative number.
ReadNoOpAsRun ==
    /\ Reading /\ stream # <<>>
    /\ LET code == stream[1]
       IN  \/ code >= 0 /\ Take(code + 1, SubSeq(stream, 2, code + 2))
           \/ code < 0 /\ Take(1, [j \in 1 .. 1 - code |-> stream[2]])

ReadPacket ==
    /\ Reading /\ stream # <<>>
    /\ LET code == stream[1]
       IN  \/ code >= 0 /\ Take(code + 1, SubSeq(stream, 2, code + 2))
           \/ code = NoOp /\ Take(0, <<>>)
           \/ code < 0 /\ code # NoOp /\ Take(1, [j \in 1 .. 1 - code |-> stream[2]])

\* The end of the file before a control byte is no error.
ReadEnd == Reading /\ stream = <<>> /\ result' = "ok" /\ UNCHANGED <<stream, received>>

PackBitsNext == EncodePacket \/ EncodeLastPacket \/ ReadPacket \/ ReadEnd
=============================================================================
