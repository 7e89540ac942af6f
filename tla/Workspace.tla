----------------------------- MODULE Workspace -----------------------------
(***************************************************************************)
(* The set of documents the client has open (src/workspace.c).             *)
(*                                                                         *)
(* A document is the text the client last sent for a path below the root   *)
(* directory.  Paths are abstract: Files holds the paths below the root,   *)
(* Outside stands for every uri that does not parse or that lies outside   *)
(* of the root.  A content is a member of Texts; Empty is the content of   *)
(* length zero that a missing "text" field gives.                          *)
(***************************************************************************)
EXTENDS Naturals, Sequences

CONSTANTS Files,     \* paths below the root directory
          Outside,   \* a uri that resolve_path refuses
          Texts,     \* contents of documents
          Empty,     \* the content of length zero
          Closed     \* the path has no entry in workspace->docs

ASSUME WorkspaceAssumption ==
    /\ Outside \notin Files
    /\ Empty \in Texts
    /\ Closed \notin Texts

\* workspace->docs: a hash from path to content, Closed where it has no key
Docs == [Files -> Texts \cup {Closed}]

NoDocs == [f \in Files |-> Closed]

OpenDocs(docs) == {f \in Files : docs[f] # Closed}

(***************************************************************************)
(* buxn_ls_workspace_resolve_path: the path of a uri, or NULL              *)
(***************************************************************************)
ResolvePath(uri) == IF uri \in Files THEN {uri} ELSE {}

(***************************************************************************)
(* The notifications buxn_ls_workspace_update tells apart.  "other" is any *)
(* textDocument/ method without a branch of its own (didSave, willSave).   *)
(***************************************************************************)
Notifications ==
    [method : {"didOpen"}, uri : Files \cup {Outside}, text : Texts]
      \cup [method : {"didChange"}, uri : Files \cup {Outside},
            changes : {<<>>} \cup {<<t>> : t \in Texts}
                             \cup {<<Empty, t>> : t \in Texts}]
      \cup [method : {"didClose", "other"}, uri : Files \cup {Outside}]

\* yyjson_arr_get_last(contentChanges).text, of length zero when there is none
LastChange(changes) ==
    IF changes = <<>> THEN Empty ELSE changes[Len(changes)]

\* didOpen of a path that is already open replaces its content, and didChange
\* of a path that is not open registers it: both only log a warning.
UpdateDoc(docs, f, m) ==
    CASE m.method = "didOpen"   -> [docs EXCEPT ![f] = m.text]
      [] m.method = "didChange" -> [docs EXCEPT ![f] = LastChange(m.changes)]
      [] m.method = "didClose"  -> [docs EXCEPT ![f] = Closed]
      [] m.method = "other"     -> docs

(***************************************************************************)
(* buxn_ls_workspace_update                                                *)
(***************************************************************************)
WorkspaceUpdate(docs, m) ==
    IF ResolvePath(m.uri) = {} THEN docs ELSE UpdateDoc(docs, m.uri, m)
=============================================================================
