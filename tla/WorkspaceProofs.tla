-------------------------- MODULE WorkspaceProofs --------------------------
(***************************************************************************)
(* Facts about the operators of Workspace.                                 *)
(***************************************************************************)
EXTENDS Workspace, TLAPS

\* The documents stay documents, whatever the notification.
LEMMA UpdateType ==
    ASSUME NEW ds \in Docs, NEW m \in Notifications
    PROVE  WorkspaceUpdate(ds, m) \in Docs
<1>1. m.method \in {"didOpen", "didChange", "didClose", "other"}
  BY DEF Notifications
<1>2. CASE ResolvePath(m.uri) = {}
  BY <1>2 DEF WorkspaceUpdate
<1>3. CASE ResolvePath(m.uri) # {}
  <2>1. m.uri \in Files /\ WorkspaceUpdate(ds, m) = UpdateDoc(ds, m.uri, m)
    BY <1>3 DEF ResolvePath, WorkspaceUpdate
  <2>2. CASE m.method = "didOpen"
    <3>1. m.text \in Texts
      BY <2>2 DEF Notifications
    <3>2. QED
      BY <2>1, <2>2, <3>1 DEF UpdateDoc, Docs
  <2>3. CASE m.method = "didChange"
    <3>1. LastChange(m.changes) \in Texts
      BY <2>3, WorkspaceAssumption DEF Notifications, LastChange
    <3>2. QED
      BY <2>1, <2>3, <3>1 DEF UpdateDoc, Docs
  <2>4. CASE m.method = "didClose"
    BY <2>1, <2>4 DEF UpdateDoc, Docs
  <2>5. CASE m.method = "other"
    BY <2>1, <2>5 DEF UpdateDoc
  <2>6. QED
    BY <1>1, <2>2, <2>3, <2>4, <2>5
<1>4. QED
  BY <1>2, <1>3

\* A notification opens at most the document it is about.
LEMMA UpdateOpens ==
    ASSUME NEW ds \in Docs, NEW m \in Notifications
    PROVE  OpenDocs(WorkspaceUpdate(ds, m)) \subseteq OpenDocs(ds) \cup {m.uri}
<1>1. CASE ResolvePath(m.uri) = {}
  BY <1>1 DEF WorkspaceUpdate, OpenDocs
<1>2. CASE ResolvePath(m.uri) # {}
  <2>1. WorkspaceUpdate(ds, m) = UpdateDoc(ds, m.uri, m)
    BY <1>2 DEF WorkspaceUpdate
  <2>2. m.method \in {"didOpen", "didChange", "didClose", "other"}
    BY DEF Notifications
  <2>3. ASSUME NEW f \in Files, f # m.uri
        PROVE  UpdateDoc(ds, m.uri, m)[f] = ds[f]
    BY <2>2, <2>3 DEF UpdateDoc, Docs
  <2>4. QED
    BY <2>1, <2>3, Zenon DEF OpenDocs
<1>3. QED
  BY <1>1, <1>2
=============================================================================
