------------------------ MODULE MCDcigettextService -------------------------
(***************************************************************************)
(* DcigettextService on the small instances of MCDcigettext.               *)
(***************************************************************************)
EXTENDS DcigettextService, MCDcigettext
=============================================================================
