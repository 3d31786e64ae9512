--------------------------- MODULE MCActionsEditor ---------------------------
(* Small instances of ActionsEditor.                                           *)
EXTENDS ActionsEditor

\* A comment and two sections; two sections of which one has no pattern.
MCFiles ==
  { <<CommentLine, Header("a"), Url("p"), Header("b"), Url("q")>>,
    <<Header("a"), Header("b"), Url("q")>> }
=============================================================================
