------------------------------ MODULE TiffOpen ------------------------------
(***************************************************************************)
(* What opening a TIFF file promises, with no word on how it is read: from *)
(* a reliable device, the call returns the IFDs that the file's chain      *)
(* links, in chain order, each with the sub-IFDs it lists and with every   *)
(* value complete, or an error when the file has a broken link.  Both      *)
(* readers of the library are meant to implement this module.              *)
(***************************************************************************)
EXTENDS TiffContents

VARIABLES openFile, status, ifds

openVars == <<openFile, status, ifds>>

OpenInit == IsImage(openFile) /\ status = "opening" /\ ifds = <<>>

Open ==
    /\ status = "opening" /\ Openable(openFile)
    /\ status' = "opened" /\ ifds' = OpenedIFDs(openFile)
    /\ UNCHANGED openFile

Refuse ==
    /\ status = "opening" /\ Broken(openFile)
    /\ status' = "refused"
    /\ UNCHANGED <<openFile, ifds>>

OpenNext == Open \/ Refuse

OpenSpec == OpenInit /\ [][OpenNext]_openVars
=============================================================================
