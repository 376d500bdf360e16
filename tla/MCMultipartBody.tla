-------------------------- MODULE MCMultipartBody --------------------------
(***************************************************************************)
(* Bodies of three kinds: every write is one byte; headers and the closing *)
(* boundary are longer than what they frame; or a value is empty and the   *)
(* chunks are long and differ. io.Copy makes no empty write.               *)
(***************************************************************************)
EXTENDS MultipartBody

MCBodies == {"even", "framed", "large"}
MCLength ==
    [b \in MCBodies |-> [w \in Items |->
        CASE b = "framed" /\ w.kind \in {"field", "header", "trailer"} -> 2
          [] b = "large" /\ w.kind = "value" -> 0
          [] b = "large" /\ w.kind = "chunk" /\ w.n = 1 -> 3
          [] OTHER -> 1]]
=============================================================================
