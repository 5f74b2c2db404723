------------------------- MODULE MCChatConversation --------------------------
(***************************************************************************)
(* Two attempts on one chat, and the processing form of an attempt, in one *)
(* run: the initial state chooses the part that moves, the other stays in  *)
(* an initial state.  The attempts on the chat are interchangeable.        *)
(***************************************************************************)
EXTENDS ChatConversation, Forms, TLC

VARIABLE part

Symmetry == Permutations(Attempts)

MCInit ==
    /\ part \in {"chat", "forms"}
    /\ Init /\ FormsInit
    /\ part # "forms" => autosave /\ ~byTransfer /\ ~overlap

ChatPart ==
    /\ part = "chat" /\ Next
    /\ UNCHANGED <<part, formVars>>
FormsPart ==
    /\ part = "forms" /\ FormsNext
    /\ UNCHANGED <<part, vars>>

MCNext == ChatPart \/ FormsPart

MCSpec == MCInit /\ [][MCNext]_<<part, vars, formVars>>

\* Both parts have their types: what their struct fields, rows and program counters may be.
MCTypeOK == TypeOK /\ FormsTypeOK
=============================================================================
