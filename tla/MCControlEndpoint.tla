-------------------------- MODULE MCControlEndpoint --------------------------
(***************************************************************************)
(* ControlEndpoint with blocks of one unit and of the whole buffer, and    *)
(* answers of one full packet and of the whole buffer, the two cases in    *)
(* which an empty packet must follow.                                      *)
(***************************************************************************)
EXTENDS ControlEndpoint

MCDownloadSizes == {1, BufferSize}
MCUploadSizes == {PacketSize, BufferSize}
=============================================================================
