---------------------------- MODULE PlaygroundPage ----------------------------
(***************************************************************************)
(* The page around the chat: the connection, the loader of the editor and  *)
(* the scroll lock of the dialogs.  The three share no state, so that a    *)
(* behaviour of the page is one of each, side by side: one part moves in a *)
(* behaviour of this specification while the two others stand.             *)
(***************************************************************************)
EXTENDS PlaygroundConnection, EditorLoader, ScrollLock

VARIABLE part

pageVars == <<connVars, loaderVars, lockVars, part>>

Init ==
  /\ ConnInit /\ LoaderInit /\ LockInit
  /\ part \in {"connection", "loader", "lock"}

ConnStep == part = "connection" /\ ConnNext /\ UNCHANGED <<loaderVars, lockVars, part>>
LoaderStep == part = "loader" /\ LoaderNext /\ UNCHANGED <<connVars, lockVars, part>>
LockStep == part = "lock" /\ LockNext /\ UNCHANGED <<connVars, loaderVars, part>>

Next == ConnStep \/ LoaderStep \/ LockStep

Spec == Init /\ [][Next]_pageVars /\ ConnFairness /\ LoaderFairness

PageTypeOK == ConnTypeOK /\ LoaderTypeOK /\ LockTypeOK
=============================================================================
