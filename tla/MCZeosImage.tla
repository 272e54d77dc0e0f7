----------------------------- MODULE MCZeosImage -----------------------------
(***************************************************************************)
(* Instance of ZeosImage for TLC: lengths around the ends of paragraphs,   *)
(* sectors and segments, up to three segments less one paragraph.          *)
(***************************************************************************)
EXTENDS ZeosImage

MCSysSizes == 5 .. 40
MCUsrSizes == {0, 1, 2, 3, 4, 5, 7, 8, 9, 15, 16, 17, 25}
=============================================================================
