--------------------------- MODULE MCAttachmentPipe ---------------------------
(* A small grid for AttachmentPipe. *)
EXTENDS AttachmentPipe, TLC

CONSTANTS
    at1, at2,   \* attachments
    zero, one   \* values

PairDefault == at1 :> zero @@ at2 :> one

ElementSymmetry == Permutations(Elems)
==============================================================================
