---------------------------- MODULE MCShmSegment ----------------------------
(***************************************************************************)
(* ShmSegment with two instruments of which one fits, four channels of     *)
(* which two fit, two market centers and four trades of which one fits.    *)
(***************************************************************************)
EXTENDS ShmSegment
=============================================================================
