----------------------------- MODULE Authoring -----------------------------
(***************************************************************************)
(* Two tools that follow a document while its author changes it: mai watch *)
(* renders it to a file again (module Watch), and the VS Code extension    *)
(* keeps its diagnostics, its references and the tags it types in step     *)
(* with the text (module Editor).  They share nothing but the author, so   *)
(* a behaviour is of one of them: the one that was started.                *)
(***************************************************************************)
EXTENDS Watch, Editor

VARIABLE tool      \* which of the two was started

authoringVars == <<tool, watchVars, editorVars>>

\* What the tool that was not started would have found says nothing: it is fixed.
AuthoringInit ==
    /\ tool \in {"watch", "editor"} /\ WatchInit /\ EditorInit
    /\ tool = "watch" => work = (CHOOSE w \in Workloads : TRUE) /\ headed
    /\ tool = "editor" => file = (CHOOSE d \in Drafts : TRUE) /\ strict

AuthoringNext ==
    /\ UNCHANGED tool
    /\ \/ tool = "watch" /\ WatchNext /\ UNCHANGED editorVars
       \/ tool = "editor" /\ EditorNext /\ UNCHANGED watchVars

\* The event loop of the watcher comes to what waits for it.  The author owes
\* nobody a step, and neither does what the extension waits for.
Fairness == WF_authoringVars(tool = "watch" /\ WatcherStep /\ UNCHANGED <<tool, editorVars>>)

AuthoringSpec == AuthoringInit /\ [][AuthoringNext]_authoringVars /\ Fairness

=============================================================================
