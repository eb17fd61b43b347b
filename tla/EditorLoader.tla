----------------------------- MODULE EditorLoader -----------------------------
(***************************************************************************)
(* How the playground loads the Monaco editor: the first editor to mount   *)
(* adds one script to the page, every editor waits for the one promise the *)
(* script settles, and an editor that is unmounted while it waits cancels  *)
(* its own view of the promise.                                            *)
(***************************************************************************)
EXTENDS Naturals

CONSTANT Editors   \* the editors mounted over the life of the page, each once

VARIABLES
  isInitialized,  \* the loader's flag, never reset
  loading,        \* "none", "script", "main" or "over"
  promise,        \* of the editor's code: "pending", "resolved" or "rejected"
  mount,          \* per editor: "new", "waiting", "loaded", "ready", "failed", "gone"
  canceled,       \* the editors that canceled their view of the promise
  told            \* the editors whose view has settled

loaderVars == <<isInitialized, loading, promise, mount, canceled, told>>

LoaderInit ==
  /\ isInitialized = FALSE
  /\ loading = "none"
  /\ promise = "pending"
  /\ mount = [e \in Editors |-> "new"]
  /\ canceled = {} /\ told = {}

\* init: the flag goes up before the script is there.
Mount(e) ==
  /\ mount[e] = "new"
  /\ mount' = [mount EXCEPT ![e] = "waiting"]
  /\ loading' = IF isInitialized THEN loading ELSE "script"
  /\ isInitialized' = TRUE
  /\ UNCHANGED <<promise, canceled, told>>

ScriptLoads ==
  /\ loading = "script"
  /\ loading' = "main"
  /\ UNCHANGED <<isInitialized, promise, mount, canceled, told>>

\* A promise settles once.
Settles(outcome) ==
  /\ loading' = "over"
  /\ promise' = IF promise = "pending" THEN outcome ELSE promise
  /\ UNCHANGED <<isInitialized, mount, canceled, told>>

ScriptFailsSilently ==
  /\ loading = "script"
  /\ loading' = "over"
  /\ UNCHANGED <<isInitialized, promise, mount, canceled, told>>

ScriptFails == loading = "script" /\ Settles("rejected")
MainLoads == loading = "main" /\ Settles("resolved")
MainFails == loading = "main" /\ Settles("rejected")

DeliverToAll(e) ==
  /\ mount[e] # "new" /\ e \notin told /\ promise # "pending"
  /\ told' = told \union {e}
  /\ mount' = [mount EXCEPT ![e] = IF promise = "resolved" THEN "loaded" ELSE "failed"]
  /\ UNCHANGED <<isInitialized, loading, promise, canceled>>

\* The view of e settles as the promise did, or as canceled; a failure leaves
\* the editor's "Loading..." on the page.
Deliver(e) ==
  /\ mount[e] # "new" /\ e \notin told /\ promise # "pending"
  /\ told' = told \union {e}
  /\ mount' = IF e \in canceled THEN mount
              ELSE [mount EXCEPT ![e] = IF promise = "resolved" THEN "loaded" ELSE "failed"]
  /\ UNCHANGED <<isInitialized, loading, promise, canceled>>

\* The effect that creates the editor, a render after its code arrived.
CreateEditor(e) ==
  /\ mount[e] = "loaded"
  /\ mount' = [mount EXCEPT ![e] = "ready"]
  /\ UNCHANGED <<isInitialized, loading, promise, canceled, told>>

Unmount(e) ==
  /\ mount[e] \in {"waiting", "loaded", "ready", "failed"}
  /\ canceled' = IF mount[e] = "ready" THEN canceled ELSE canceled \union {e}
  /\ mount' = [mount EXCEPT ![e] = "gone"]
  /\ UNCHANGED <<isInitialized, loading, promise, told>>

-----------------------------------------------------------------------------
Load == ScriptLoads \/ ScriptFails \/ MainLoads \/ MainFails

LoaderNext ==
  \/ Load
  \/ \E e \in Editors : Mount(e) \/ Deliver(e) \/ CreateEditor(e) \/ Unmount(e)

\* A script of the page loads or fails; callbacks and effects are run.  None of
\* these steps can be taken again, so that one fairness condition does for all.
LoaderFairness == WF_loaderVars(Load \/ \E e \in Editors : Deliver(e) \/ CreateEditor(e))

LoaderTypeOK ==
  /\ isInitialized \in BOOLEAN
  /\ loading \in {"none", "script", "main", "over"}
  /\ promise \in {"pending", "resolved", "rejected"}
  /\ mount \in [Editors -> {"new", "waiting", "loaded", "ready", "failed", "gone"}]
  /\ canceled \subseteq Editors /\ told \subseteq Editors

(* An editor the page took away stays away: code that arrives late is not  *)
(* handed to it, and no editor is created that nobody would dispose of.    *)
GoneStaysGone == [][\A e \in Editors : mount[e] = "gone" => mount'[e] = "gone"]_loaderVars

(* No editor waits for ever: those that wait get there, fail, or are taken *)
(* away.                                                                   *)
MountsSettle ==
  (\E e \in Editors : mount[e] \in {"waiting", "loaded"})
     ~> (\A e \in Editors : mount[e] \notin {"waiting", "loaded"})
=============================================================================
