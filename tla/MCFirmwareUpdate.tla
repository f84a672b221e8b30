-------------------------- MODULE MCFirmwareUpdate --------------------------
(* Small instances of FirmwareUpdate for TLC. *)
EXTENDS FirmwareUpdate, TLC

CONSTANTS Img0, Img1, Img2, BadSig, OtherProduct

\* The packages the host can copy: the shipped image, a newer one, one
\* without a valid signature and one of another product.
MCGenuine == {Img0, Img1}
MCGenuine3 == {Img0, Img1, Img2}
MCUnsigned == {BadSig}
MCForeign == {OtherProduct}
=============================================================================
