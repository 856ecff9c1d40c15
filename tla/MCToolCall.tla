----------------------------- MODULE MCToolCall -----------------------------
(* Model-checking instance of ToolCall. *)
EXTENDS ToolCall

AllModes == {"strict", "continuity", "monitor"}
AllEmitters == {"disk", "queue", "store"}
OnlyStrict == {"strict"}
OnlyDisk == {"disk"}
=============================================================================
